------------------------------ MODULE MCEndings ------------------------------
(***************************************************************************)
(* What must come to an end, in one run: the quarantine of the address     *)
(* pool, the sessions and the shutdown of the gateway runtime, and the join*)
(* of the TUN driver. They share no state here; a behaviour is one of the  *)
(* component in focus while the others rest, and the fairness of a         *)
(* component is asked of it when it is in focus.                           *)
(***************************************************************************)
EXTENDS Naturals, TLC

CONSTANTS d1, w1, w2, m1, peer, s1, None

VARIABLES
  focus,                                            \* the component that runs
  phase, mono, boot, active, pending, release_pending, release_order, inflight,
  inflight_addr, op, retry_seq, mirror, file, stale, stale_failed,  \* AddressPool
  now, sessions, admissions, owed, leases, missed, queue, reply, redeemed, sources,
  in_flight, acc, tasks, sweeper, life,             \* GatewayRuntime
  shutdown, failure, terminal, egress, bytes, sending, ingress, ingress_bytes,
  taken, worker, at, held, owner, engine, watching  \* TunDriver

\* Two sessions, addresses and threads; time stands still, so that every
\* deletion that is due stays due.
Pool ==
  INSTANCE AddressPool WITH
    Sessions <- {1, 2}, Devices <- {d1}, Addresses <- {1, 2},
    Workers <- {w1, w2}, MaxLeases <- 2, MaxPendingReleases <- 2, PendingTTL <- 1,
    LeaseTTL <- 1, RetryBase <- 0, RetryCap <- 0, MaxShift <- 0, MaxRetryBatch <- 1,
    Durable <- TRUE, TornWrites <- TRUE, BootTimes <- {0}, WallStepsBack <- FALSE,
    MaxTime <- 0, MaxSkew <- 0

\* One ticket, whose session lives two ticks at most, one when idle.
Gateway ==
  INSTANCE GatewayRuntime WITH
    Tickets <- {m1}, Sessions <- {m1},
    SessionOf <- (m1 :> m1), Sources <- {peer}, Expiry <- 2, Budget <- 1,
    SourceCapacity <- 1, SourceTTL <- 1, MaxSessions <- 1, MaxLeases <- 1,
    MaxConnections <- 1, MaxMessages <- 2, QueueCapacity <- 1, PendingTTL <- 1,
    LeaseTTL <- 1, IdleTTL <- 1,
    SlowCalls <- {"reserve", "commit", "release", "renew", "sweep"}, MaxTime <- 2

\* One sender; an accepted, a too long and an empty packet.
Driver ==
  INSTANCE TunDriver WITH
    Senders <- {s1}, Classes <- <<"Realtime", "Bulk">>, Lens <- {0, 1, 2},
    MaxLen <- 1, MaxPackets <- 1, MaxBytes <- 2

-----------------------------------------------------------------------------
pool ==
  <<phase, mono, boot, active, pending, release_pending, release_order, inflight,
    inflight_addr, op, retry_seq, mirror, file, stale, stale_failed>>
gateway ==
  <<now, sessions, admissions, owed, leases, missed, queue, reply, redeemed, sources,
    in_flight, acc, tasks, sweeper, life>>
driver ==
  <<shutdown, failure, terminal, egress, bytes, sending, ingress, ingress_bytes, taken,
    worker, at, held, owner, engine, watching>>

RunInit ==
  /\ focus \in {"pool", "gateway", "driver"}
  /\ Pool!Init /\ Gateway!Init /\ Driver!DriverInit

RunNext ==
  \/ focus = "pool" /\ Pool!Next /\ UNCHANGED <<focus, gateway, driver>>
  \/ focus = "gateway" /\ Gateway!Next /\ UNCHANGED <<focus, pool, driver>>
  \/ focus = "driver" /\ Driver!DriverNext /\ UNCHANGED <<focus, pool, gateway>>

RunSpec ==
  /\ RunInit /\ [][RunNext]_<<focus, pool, gateway, driver>>
  /\ \A w \in {w1, w2} : WF_pool(focus = "pool" /\ Pool!Continue(w))
  /\ SF_pool(focus = "pool" /\ \E w \in {w1, w2} : Pool!SweepBegin(w, mono))
  /\ \A s \in {1, 2} :
       SF_pool(focus = "pool" /\ \E w \in {w1, w2} : Pool!DeleteSucceeds(w, s))
  /\ WF_gateway(focus = "gateway" /\ Gateway!Tick)
  /\ WF_gateway(focus = "gateway" /\ Gateway!SessionSweep)
  /\ WF_gateway(focus = "gateway" /\ Gateway!Cleanup(m1))
  /\ WF_gateway(focus = "gateway" /\ Gateway!StopSweeps)
  /\ WF_gateway(focus = "gateway" /\ Gateway!StopCloseAll)
  /\ WF_gateway(focus = "gateway" /\ Gateway!StopFlush)
  /\ WF_gateway(focus = "gateway" /\ Gateway!StopDrain)
  /\ WF_gateway(focus = "gateway" /\ Gateway!Timeout("stop"))
  /\ WF_driver(focus = "driver" /\ Driver!WorkerStep)
  /\ WF_driver(focus = "driver" /\ Driver!Joins)

-----------------------------------------------------------------------------
\* Address pool: every quarantined lease is freed in the end, whatever calls
\* run in between and however often its deletion fails.
QuarantineDrains == Pool!QuarantineDrains

\* Gateway: every session ends, whatever its connections, the accept loop and
\* the pool do: also one whose accept future was dropped half way.
SessionsEnd == Gateway!SessionsEnd

\* Gateway: stop runs to its end, with a worker that never runs again.
StopCompletes == Gateway!StopCompletes

\* TUN engine: once shutdown asks, the worker leaves its loop and the join ends.
ShutdownJoins == Driver!ShutdownJoins
=============================================================================
