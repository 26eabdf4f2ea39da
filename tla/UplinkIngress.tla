---------------------------- MODULE UplinkIngress ----------------------------
(***************************************************************************)
(* ingest_uplink_at_time of the V2 gateway engine: the binding check of    *)
(* the session manager, the source validation of the forwarder against     *)
(* the pool's active lease, the renewal through the persistence owner's    *)
(* queue, and the sealed sink. The pool, the admissions and the cleanups   *)
(* that move leases meanwhile go through the same queue; the renewal sees  *)
(* the leases as they are when the worker reaches it, the packet was       *)
(* validated against the leases of an earlier moment.                      *)
(***************************************************************************)
EXTENDS Naturals, Sequences, Option

CONSTANTS
  Sessions,
  Addresses,          \* host addresses; an IPv6 prefix belongs to each
  Connections,
  Epochs,             \* path epochs of a binding
  Packets,            \* packets as the forwarder parses them
  MaxPacketBytes,     \* maximum_packet_bytes
  QueueCapacity       \* of the persistence owner

VARIABLES
  bound,              \* connections: None or the session and path epoch bound
  lease,              \* None or the state and address of each session's lease
  admission,          \* what the admission task of each session waits for
  queue,              \* calls the worker has not executed, oldest first
  emitted             \* what the sink forwarded last

ingress_vars == <<bound, lease, admission, queue, emitted>>

Free == {a \in Addresses : \A s \in Sessions : lease[s] = None \/ lease[s].addr # a}

-----------------------------------------------------------------------------
\* The forwarder

MinIPv4 == 20
MinIPv6 == 40

ParseIPv4(p) ==
  /\ p.len >= MinIPv4 /\ 4 * p.ihl >= MinIPv4 /\ p.len >= 4 * p.ihl
  /\ p.total >= 4 * p.ihl /\ p.total = p.len /\ p.src # "zero"

ParseIPv6(p) ==
  p.len >= MinIPv6 /\ MinIPv6 + p.total = p.len /\ p.src # "zero"

ParseSource(p) ==
  /\ p.len > 0 /\ p.len <= MaxPacketBytes
  /\ \/ p.version = 4 /\ ParseIPv4(p)
     \/ p.version = 6 /\ ParseIPv6(p)

\* lookup_active
HoldsActive(s) == lease[s] # None /\ lease[s].state = "Active"

\* validate: the source is the leased address and never the gateway's own.
Validates(s, p) ==
  /\ ParseSource(p) /\ HoldsActive(s)
  /\ p.version = 4 => p.src # "gateway"
  /\ p.src = lease[s].addr

\* What validate seals for the sink.
ValidatedUplink(s, p) == [session |-> s, packet |-> p]

\* validate_ingress: the header names what the connection is bound to.
BindingHolds(c, session, epoch) ==
  bound[c] # None /\ bound[c] = [session |-> session, epoch |-> epoch]

-----------------------------------------------------------------------------
\* ingest_uplink_at_time up to its await.
Ingest(c, session, epoch, p) ==
  /\ Len(queue) < QueueCapacity
  /\ BindingHolds(c, session, epoch) /\ Validates(session, p)
  /\ queue' = Append(queue, [op |-> "renew", session |-> session, packet |-> p])
  /\ UNCHANGED <<bound, lease, admission, emitted>>

\* The caller gives up on a renewal; the worker executes it all the same.
GiveUp(i) ==
  /\ queue[i].op = "renew" /\ queue[i].packet # None
  /\ queue' = [queue EXCEPT ![i].packet = None]
  /\ UNCHANGED <<bound, lease, admission, emitted>>

\* Mutant: a session without a lease has nothing to renew and succeeds.
RenewsVacuously(s) == lease[s] # None => lease[s].state = "Active"

\* renew_at_time accepts the leases lookup_active finds, as they are by then.
Renews(s) == lease[s] # None /\ lease[s].state = "Active"

\* The worker's renewal, and the sink's emission when the caller still waits.
Renewed ==
  /\ queue # <<>> /\ Head(queue).op = "renew"
  /\ \/ /\ Renews(Head(queue).session) /\ Head(queue).packet # None
        /\ emitted' = ValidatedUplink(Head(queue).session, Head(queue).packet)
     \/ (~Renews(Head(queue).session) \/ Head(queue).packet = None)
        /\ UNCHANGED emitted
     \/ UNCHANGED emitted                        \* expired, or the store failed
  /\ queue' = Tail(queue)
  /\ UNCHANGED <<bound, lease, admission>>

-----------------------------------------------------------------------------
\* Admissions and cleanups, as the listener drives them

Submit(s, op) ==
  /\ Len(queue) < QueueCapacity
  /\ queue' = Append(queue, [op |-> op, session |-> s, packet |-> None])

Admit(s) ==
  \/ /\ admission[s] = "idle" /\ Submit(s, "reserve")
     /\ admission' = [admission EXCEPT ![s] = "reserving"]
     /\ UNCHANGED <<bound, lease, emitted>>
  \/ /\ admission[s] = "reserved" /\ Submit(s, "commit")
     /\ admission' = [admission EXCEPT ![s] = "committing"]
     /\ UNCHANGED <<bound, lease, emitted>>

\* A detached connection, a closed session, the sweep.
Cleanup(s) ==
  /\ Submit(s, "release")
  /\ UNCHANGED <<bound, lease, admission, emitted>>

Bind(c, s, e) ==
  /\ lease[s] # None /\ bound[c] = None
  /\ bound' = [bound EXCEPT ![c] = [session |-> s, epoch |-> e]]
  /\ UNCHANGED <<lease, admission, queue, emitted>>

Unbind(c) ==
  /\ bound[c] # None /\ bound' = [bound EXCEPT ![c] = None]
  /\ UNCHANGED <<lease, admission, queue, emitted>>

Reserve(s) ==
  \/ lease[s] = None /\ \E a \in Free :
       lease' = [lease EXCEPT ![s] = [state |-> "Reserved", addr |-> a]]
  \/ lease[s] = None /\ Free = {} /\ UNCHANGED lease
  \/ lease[s] # None /\ UNCHANGED lease

Activate(s) ==
  \/ lease[s] # None /\ lease' = [lease EXCEPT ![s].state = "Active"]
  \/ lease[s] = None /\ UNCHANGED lease

Executed ==
  /\ queue # <<>> /\ queue' = Tail(queue)
  /\ LET s == Head(queue).session
     IN \/ /\ Head(queue).op = "reserve" /\ Reserve(s)
           /\ admission' = [admission EXCEPT ![s] =
                IF lease'[s] # None THEN "reserved" ELSE "idle"]
        \/ /\ Head(queue).op = "commit" /\ Activate(s)
           /\ admission' = [admission EXCEPT ![s] = "idle"]
        \/ /\ Head(queue).op = "release"
           /\ lease' = [lease EXCEPT ![s] = None]
           /\ UNCHANGED admission
  /\ UNCHANGED <<bound, emitted>>

IngressInit ==
  /\ bound = [c \in Connections |-> None]
  /\ lease = [s \in Sessions |-> None]
  /\ admission = [s \in Sessions |-> "idle"]
  /\ queue = <<>> /\ emitted = None

IngressNext ==
  \/ \E c \in Connections, s \in Sessions, e \in Epochs, p \in Packets : Ingest(c, s, e, p)
  \/ \E i \in DOMAIN queue : GiveUp(i)
  \/ Renewed \/ Executed
  \/ \E s \in Sessions : Admit(s) \/ Cleanup(s)
  \/ \E c \in Connections, s \in Sessions, e \in Epochs : Bind(c, s, e)
  \/ \E c \in Connections : Unbind(c)

IngressSpec == IngressInit /\ [][IngressNext]_ingress_vars

-----------------------------------------------------------------------------
\* A packet is forwarded only while no other session holds its source: the
\* lease it was validated against may be gone and the address given away when
\* the renewal runs, but then the renewal fails.
EmittedOwned ==
  [][emitted' # emitted =>
       /\ ParseSource(emitted'.packet)
       /\ \A t \in Sessions \ {emitted'.session} :
            lease[t] = None \/ lease[t].addr # emitted'.packet.src]_ingress_vars
=============================================================================
