------------------------------ MODULE TunDriver ------------------------------
(***************************************************************************)
(* The V2 TUN driver and the engine that owns it: senders that reserve     *)
(* queue gauges and enqueue, the blocking worker thread, the receive side, *)
(* the durable failure with its terminal signal, the engine's watcher and  *)
(* its shutdown. The client and the gateway engine share this life cycle.  *)
(* Every access to a shared counter, queue or flag that another thread can *)
(* observe is a step of its own.                                           *)
(***************************************************************************)
EXTENDS Naturals, Sequences, SequencesExt, FiniteSetsExt, Option

CONSTANTS
  Senders,            \* callers of DriverSender::send
  Classes,            \* egress classes in the order the worker serves them
  Lens,               \* packet lengths
  MaxLen,             \* max_packet_bytes
  MaxPackets,         \* packets of any queue
  MaxBytes            \* bytes of any queue

VARIABLES
  shutdown,           \* the shutdown flag
  failure, terminal,  \* the durable failure and the coalescing signal
  egress,             \* queued lengths by class
  bytes,              \* egress_queued_bytes
  sending,            \* where each sender is
  ingress, ingress_bytes,
  taken,              \* length the receiver popped and has not accounted yet
  worker,             \* program counter of the worker
  at,                 \* the class it serves
  held,               \* the packet it dequeued
  owner,              \* of the DriverTun: "held", "closing", "closed", "dropped"
  engine,             \* V2GatewayEngineState, V2ClientEngineState
  watching            \* the watcher task still runs

queues == <<egress, bytes, sending, ingress, ingress_bytes, taken>>
control == <<shutdown, failure, terminal>>
thread == <<worker, at, held>>
handle == <<owner, engine, watching>>
driver_vars == <<queues, control, thread, handle>>

\* DriverFailure
Failures == {"Read", "Write", "JoinRequired"}

\* No fault is the absence of one.
ASSUME NoFailure == None \notin Failures

Indices == 1..Len(Classes)
Total(q) == FoldLeft(LAMBDA n, len : n + len, 0, q)
Stops == shutdown \/ failure # None
Alive == worker # "exited"

-----------------------------------------------------------------------------
\* DriverSender::send

NotSending == [pc |-> "idle", class |-> 0, len |-> 0]
Goes(s, pc) == sending' = [sending EXCEPT ![s].pc = pc]

\* Control traffic, empty and oversized packets are refused outright.
SendChecks(s, c, len) ==
  /\ sending[s] = NotSending /\ ~Stops /\ len > 0 /\ len <= MaxLen
  /\ sending' = [sending EXCEPT ![s] = [pc |-> "reserve", class |-> c, len |-> len]]
  /\ UNCHANGED <<control, thread, handle, egress, bytes, ingress, ingress_bytes, taken>>

Reserves(s) ==
  LET m == sending[s]
  IN /\ m.pc = "reserve"
     /\ bytes' = [bytes EXCEPT ![m.class] = @ + m.len]
     /\ Goes(s, IF bytes[m.class] + m.len > MaxBytes THEN "rollback" ELSE "enqueue")
     /\ UNCHANGED <<control, thread, handle, egress, ingress, ingress_bytes, taken>>

\* The channel is full, or the worker dropped its receivers.
Enqueues(s) ==
  LET m == sending[s]
  IN /\ m.pc = "enqueue"
     /\ \/ /\ Alive /\ Len(egress[m.class]) < MaxPackets
           /\ egress' = [egress EXCEPT ![m.class] = Append(@, m.len)]
           /\ sending' = [sending EXCEPT ![s] = NotSending]
        \/ /\ ~Alive \/ Len(egress[m.class]) >= MaxPackets
           /\ Goes(s, "rollback") /\ UNCHANGED egress
     /\ UNCHANGED <<control, thread, handle, bytes, ingress, ingress_bytes, taken>>

\* Mutant: a rejected send keeps its reservation.
RollsBackNothing(s) ==
  /\ sending[s].pc = "rollback"
  /\ sending' = [sending EXCEPT ![s] = NotSending]
  /\ UNCHANGED <<control, thread, handle, egress, bytes, ingress, ingress_bytes, taken>>

RollsBack(s) ==
  LET m == sending[s]
  IN /\ m.pc = "rollback"
     /\ bytes' = [bytes EXCEPT ![m.class] = @ - m.len]
     /\ sending' = [sending EXCEPT ![s] = NotSending]
     /\ UNCHANGED <<control, thread, handle, egress, ingress, ingress_bytes, taken>>

-----------------------------------------------------------------------------
\* The worker

Exit == worker' = "exited" /\ at' = 1 /\ held' = None

\* set_failure: the first fault is stored, and then published.
Fails(kind) ==
  \/ failure = None /\ failure' = kind /\ worker' = "publish" /\ UNCHANGED held
  \/ failure # None /\ UNCHANGED failure /\ worker' = "exited" /\ held' = None

Publishes ==
  /\ worker = "publish" /\ terminal' = TRUE /\ Exit
  /\ UNCHANGED <<queues, shutdown, failure, handle>>

\* One packet of each class per pass, in the fixed order.
Dequeues ==
  /\ worker = "serve"
  /\ \/ Stops /\ Exit /\ UNCHANGED egress
     \/ /\ ~Stops /\ egress[at] # <<>>
        /\ held' = Head(egress[at]) /\ egress' = [egress EXCEPT ![at] = Tail(@)]
        /\ worker' = "write" /\ UNCHANGED at
     \/ /\ ~Stops /\ egress[at] = <<>> /\ at < Len(Classes)
        /\ at' = at + 1 /\ UNCHANGED <<worker, held, egress>>
     \/ /\ ~Stops /\ egress[at] = <<>> /\ at = Len(Classes)
        /\ worker' = "check" /\ at' = 1 /\ UNCHANGED <<held, egress>>
  /\ UNCHANGED <<control, handle, bytes, sending, ingress, ingress_bytes, taken>>

\* A short write is as fatal as an error.
Writes ==
  /\ worker = "write"
  /\ bytes' = [bytes EXCEPT ![at] = @ - held]
  /\ \/ /\ at < Len(Classes) /\ worker' = "serve" /\ at' = at + 1
        /\ held' = None /\ UNCHANGED failure
     \/ /\ at = Len(Classes) /\ worker' = "check" /\ at' = 1
        /\ held' = None /\ UNCHANGED failure
     \/ Fails("Write") /\ UNCHANGED at
  /\ UNCHANGED <<shutdown, terminal, handle, egress, sending, ingress, ingress_bytes, taken>>

\* A parked read outlives the check before it, so it may return after the
\* shutdown was signalled: a packet, a wake-up or time-out, a fatal error.
Parks ==
  /\ worker = "check"
  /\ \/ Stops /\ Exit
     \/ ~Stops /\ worker' = "read" /\ UNCHANGED <<at, held>>
  /\ UNCHANGED <<queues, control, handle>>

Fits(len) == len <= MaxLen /\ ingress_bytes + len <= MaxBytes

Reads ==
  /\ worker = "read"
  /\ \/ \E len \in Lens \ {0} :
          /\ Fits(len) /\ owner # "dropped" /\ Len(ingress) < MaxPackets
          /\ ingress' = Append(ingress, len) /\ ingress_bytes' = ingress_bytes + len
          /\ worker' = "serve" /\ UNCHANGED <<at, held, failure>>
     \/ \E len \in Lens \ {0} : \* dropped for its size, or the queue's
          /\ ~Fits(len) \/ (owner # "dropped" /\ Len(ingress) >= MaxPackets)
          /\ worker' = "serve" /\ UNCHANGED <<at, held, failure, ingress, ingress_bytes>>
     \/ \E len \in Lens \ {0} : \* the receiver is gone
          /\ Fits(len) /\ owner = "dropped"
          /\ Exit /\ UNCHANGED <<failure, ingress, ingress_bytes>>
     \/ worker' = "serve" /\ UNCHANGED <<at, held, failure, ingress, ingress_bytes>>
     \/ Fails("Read") /\ UNCHANGED <<at, ingress, ingress_bytes>>
  /\ UNCHANGED <<shutdown, terminal, handle, egress, bytes, sending, taken>>

-----------------------------------------------------------------------------
\* The owner's receive side, and its end

Receives ==
  /\ owner = "held" /\ failure = None /\ taken = None /\ ingress # <<>>
  /\ taken' = Head(ingress) /\ ingress' = Tail(ingress)
  /\ UNCHANGED <<control, thread, handle, egress, bytes, sending, ingress_bytes>>

Accounts ==
  /\ taken # None /\ ingress_bytes' = ingress_bytes - taken /\ taken' = None
  /\ UNCHANGED <<control, thread, handle, egress, bytes, sending, ingress>>

\* request_shutdown, DriverSender::shutdown
SignalShutdown ==
  /\ shutdown' = TRUE
  /\ UNCHANGED <<queues, failure, terminal, thread, handle>>

\* The first fault wins.
Synced == IF failure # None /\ engine = "Running" THEN failure ELSE engine

\* wait_for on the coalescing signal, which a late subscriber finds raised.
Signalled == terminal

\* The watcher wakes up on the signal and reads the failure behind it.
Watches ==
  /\ watching /\ Signalled /\ watching' = FALSE
  /\ engine' = Synced
  /\ UNCHANGED <<queues, control, thread, owner>>

\* state(), is_terminal(), failure() of the engine
SyncState ==
  /\ owner = "held" /\ engine' = Synced /\ engine' # engine
  /\ UNCHANGED <<queues, control, thread, owner, watching>>

\* Mutant: the engine joins without having signalled the worker.
EngineShutdownSilent ==
  /\ owner = "held"
  /\ owner' = "closing" /\ watching' = FALSE
  /\ UNCHANGED <<queues, control, thread, engine>>

\* shutdown of the engine: abort the watcher, signal, join, read the failure.
EngineShutdown ==
  /\ owner = "held"
  /\ owner' = "closing" /\ watching' = FALSE /\ shutdown' = TRUE
  /\ UNCHANGED <<queues, failure, terminal, thread, engine>>

\* Mutant: the failure is not looked at again after the join.
OutcomeBlindly == IF engine = "Running" THEN "Closed" ELSE engine

Outcome == IF Synced = "Running" THEN "Closed" ELSE Synced

Joins ==
  /\ owner = "closing" /\ ~Alive
  /\ owner' = "closed" /\ engine' = Outcome
  /\ UNCHANGED <<queues, control, thread, watching>>

\* Dropping a live driver records JoinRequired for every cloned sender.
DropsOwner ==
  /\ owner = "held"
  /\ owner' = "dropped" /\ watching' = FALSE
  /\ failure' = IF failure = None THEN "JoinRequired" ELSE failure
  /\ terminal' = (Signalled \/ failure = None)
  /\ shutdown' = TRUE
  /\ UNCHANGED <<queues, thread, engine>>

\* DriverTun::spawn
Spawned ==
  /\ shutdown = FALSE /\ failure = None /\ terminal = FALSE
  /\ egress = [i \in Indices |-> <<>>] /\ bytes = [i \in Indices |-> 0]
  /\ sending = [s \in Senders |-> NotSending]
  /\ ingress = <<>> /\ ingress_bytes = 0 /\ taken = None
  /\ worker = "serve" /\ at = 1 /\ held = None

\* The engine takes the driver over and starts its watcher.
TakenOver == owner = "held" /\ engine = "Running" /\ watching = TRUE

DriverInit == Spawned /\ TakenOver

WorkerStep == Dequeues \/ Writes \/ Parks \/ Reads \/ Publishes

DriverNext ==
  \/ \E s \in Senders : \/ \E i \in Indices, len \in Lens : SendChecks(s, i, len)
                        \/ Reserves(s) \/ Enqueues(s) \/ RollsBack(s)
  \/ WorkerStep
  \/ Receives \/ Accounts \/ SignalShutdown \/ Watches \/ SyncState
  \/ EngineShutdown \/ Joins \/ DropsOwner

\* The worker is a thread of its own; an interrupt event ends a parked read.
DriverSpec ==
  DriverInit /\ [][DriverNext]_driver_vars /\ WF_driver_vars(WorkerStep) /\ WF_driver_vars(Joins)

-----------------------------------------------------------------------------
\* What a sender or the worker has reserved and not yet settled.
Unsettled(i) ==
  LET mine == {s \in Senders : sending[s].class = i /\ sending[s].pc \in {"enqueue", "rollback"}}
  IN Total(FoldSet(LAMBDA s, q : Append(q, sending[s].len), <<>>, mine))
     + (IF worker = "write" /\ at = i THEN held ELSE 0)

\* While the worker runs, every gauge is exactly what is queued and what is
\* in the hands of a sender or the worker, so no decrement ever wraps round
\* below zero, and neither queue holds more bytes than its limit, however the
\* reservations of concurrent senders interleave.
GaugesExact ==
  /\ \A i \in Indices :
       /\ Total(egress[i]) <= MaxBytes
       /\ bytes[i] = Total(egress[i]) + Unsettled(i)
  /\ Total(ingress) <= MaxBytes
  /\ ingress_bytes = Total(ingress) + (IF taken = None THEN 0 ELSE taken)

\* A failure is never lost between the worker, the signal, the watcher and a
\* shutdown that overtakes them: the signal is raised after the failure is
\* stored, the first fault is the one reported, and an engine that reports a
\* clean close has joined a worker that did not fail.
FailureReported ==
  /\ terminal => failure # None
  /\ engine \in Failures => engine = failure
  /\ engine = "Closed" => failure = None /\ ~Alive
  /\ owner = "closed" => engine # "Running"

\* A shutdown always completes: once the engine asks, the worker leaves its
\* loop, whatever it is doing and whatever the senders and the device do, and
\* the join ends.
ShutdownJoins == owner = "closing" ~> owner = "closed"
=============================================================================
