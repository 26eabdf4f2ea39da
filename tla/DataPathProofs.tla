---------------------------- MODULE DataPathProofs ----------------------------
(***************************************************************************)
(* The data path of the V2 protocol libraries: flow classification, the    *)
(* checked datagram sender, the uplink of the gateway engine and the       *)
(* receive tables, each for every value of its constants.  The engines     *)
(* share no state; each part below has its own argument.                   *)
(***************************************************************************)
EXTENDS FlowReceive, FlowClassifier, DatagramSend, UplinkIngress, Integers,
        OrderingProofs

-----------------------------------------------------------------------------
(***************************************************************************)
(* The classifier, for any set of packets.  An accepted packet is one of   *)
(* the few kinds AcceptedFour and AcceptedSix name, each with the flow and *)
(* the class in closed form; what is promised of two packets compares two  *)
(* of these forms.                                                         *)
(***************************************************************************)

FragmentFlow(p) ==
  IF p.version = 4 THEN HashFlow(4, p.proto, TRUE, p, None, p.id)
  ELSE Combine(HashFlow(6, 44, TRUE, p, None, None), p.id)

\* What is hashed as the ports of a packet that is no fragment.
Ports(p) ==
  IF p.version = 4 THEN TransportPorts(p, DeclaredEnd(p), 4 * p.ihl, 1)
  ELSE IF p.proto \in {0, 43, 60} THEN None ELSE TransportPorts(p, DeclaredEnd(p), 40, 58)

WholeFlow(p) == HashFlow(p.version, p.proto, FALSE, p, Ports(p), None)

\* The closed form of the result.
Accepted(p) ==
  IF IsFragment(p) THEN Ok(FragmentFlow(p), "Bulk")
  ELSE Ok(WholeFlow(p), ClassForProtocol(p.proto))

LEMMA Rejected == ASSUME NEW e PROVE ~IsOk(Err(e))
  BY DEF IsOk, Err

\* A packet of version 4 that is accepted is whole as far as its header says.
LEMMA AcceptedFour ==
  ASSUME TunPacketFields, NEW p \in TunPackets, p.version = 4, p.len > 0,
         IsOk(ClassifyPacket(p))
  PROVE  /\ IsFragment(p) <=> p.more \/ p.offset # 0
         /\ ClassifyPacket(p) = Accepted(p)
<1>1. p.len \in Nat /\ p.ihl \in Nat /\ p.total \in Nat /\ p.offset \in Nat /\ p.more \in BOOLEAN
  BY DEF TunPacketFields
<1>2. ClassifyPacket(p) = ClassifyIPv4(p)
  BY <1>1 DEF ClassifyPacket
<1>3. p.len >= 20 /\ p.ihl >= 5 /\ 4 * p.ihl <= p.len
  <2>1. CASE p.len < 20
    BY <1>1, <1>2, <2>1, Rejected DEF ClassifyIPv4
  <2>2. CASE p.len >= 20 /\ p.ihl < 5
    BY <1>1, <1>2, <2>2, Rejected DEF ClassifyIPv4
  <2>3. CASE p.len >= 20 /\ p.ihl >= 5 /\ 4 * p.ihl > p.len
    BY <1>1, <1>2, <2>3, Rejected DEF ClassifyIPv4
  <2> QED BY <1>1, <2>1, <2>2, <2>3
<1>4. p.total >= 4 * p.ihl /\ p.total <= p.len
  <2>1. CASE p.total < 4 * p.ihl
    BY <1>1, <1>2, <1>3, <2>1, Rejected DEF ClassifyIPv4
  <2>2. CASE p.total >= 4 * p.ihl /\ p.total > p.len
    BY <1>1, <1>2, <1>3, <2>2, Rejected DEF ClassifyIPv4
  <2> QED BY <1>1, <2>1, <2>2
<1>5. IsFragment(p) <=> p.more \/ p.offset # 0
  BY <1>1, <1>3, <1>4 DEF IsFragment
<1> DEFINE fragment == Ok(HashFlow(4, p.proto, TRUE, p, None, p.id), "Bulk")
           plain ==
             Ok(HashFlow(4, p.proto, FALSE, p,
                         TransportPorts(p, DeclaredEnd(p), 4 * p.ihl, 1), None),
                ClassForProtocol(p.proto))
           whole ==
             CASE p.total < 4 * p.ihl -> Err("InvalidHeader")
               [] p.total >= 4 * p.ihl /\ p.total > p.len -> Err("Truncated")
               [] p.total >= 4 * p.ihl /\ p.total <= p.len ->
                    IF p.more \/ p.offset # 0 THEN fragment ELSE plain
<1>8. ClassifyIPv4(p) = whole
  <2> HIDE DEF whole
  <2>1. (CASE p.len < 20 -> Err("Truncated")
           [] p.len >= 20 /\ p.ihl < 5 -> Err("InvalidHeader")
           [] p.len >= 20 /\ p.ihl >= 5 /\ 4 * p.ihl > p.len -> Err("Truncated")
           [] p.len >= 20 /\ p.ihl >= 5 /\ 4 * p.ihl <= p.len -> whole) = whole
    BY <1>1, <1>3
  <2> QED BY <2>1 DEF ClassifyIPv4, whole
<1>6. CASE p.more \/ p.offset # 0
  <2>1. ClassifyIPv4(p) = fragment
    <3> HIDE DEF fragment, plain
    <3> QED BY <1>1, <1>4, <1>6, <1>8
  <2> QED BY <1>2, <1>5, <1>6, <2>1 DEF Accepted, FragmentFlow
<1>7. CASE ~(p.more \/ p.offset # 0)
  <2>1. ClassifyIPv4(p) = plain
    <3> HIDE DEF fragment, plain
    <3> QED BY <1>1, <1>4, <1>7, <1>8
  <2> QED BY <1>2, <1>5, <1>7, <2>1 DEF Accepted, WholeFlow, Ports
<1> HIDE DEF fragment, plain, whole
<1> QED BY <1>5, <1>6, <1>7

\* Of version 6 likewise; the protocols with further headers count as bulk.
LEMMA AcceptedSix ==
  ASSUME TunPacketFields, NEW p \in TunPackets, p.version = 6, p.len > 0,
         IsOk(ClassifyPacket(p))
  PROVE  /\ IsFragment(p) <=> p.proto = 44
         /\ ClassifyPacket(p) = Accepted(p)
<1>1. p.len \in Nat /\ p.total \in Nat /\ p.proto \in Nat
  BY DEF TunPacketFields
<1>2. ClassifyPacket(p) = ClassifyIPv6(p)
  BY <1>1 DEF ClassifyPacket
<1>3. p.len >= 40 /\ 40 + p.total <= p.len
  <2>1. CASE p.len < 40 \/ 40 + p.total > p.len
    BY <1>1, <1>2, <2>1, Rejected DEF ClassifyIPv6
  <2> QED BY <1>1, <2>1
<1>4. IsFragment(p) <=> p.proto = 44
  BY <1>1, <1>3 DEF IsFragment
<1>5. DeclaredEnd(p) = 40 + p.total
  BY DEF DeclaredEnd
<1> DEFINE fragment == Ok(Combine(HashFlow(6, 44, TRUE, p, None, None), p.id), "Bulk")
           extended == Ok(HashFlow(6, p.proto, FALSE, p, None, None), "Bulk")
           plain ==
             Ok(HashFlow(6, p.proto, FALSE, p, TransportPorts(p, DeclaredEnd(p), 40, 58), None),
                ClassForProtocol(p.proto))
           whole ==
             CASE p.proto = 44 /\ DeclaredEnd(p) < 48 -> Err("Truncated")
               [] p.proto = 44 /\ DeclaredEnd(p) >= 48 -> fragment
               [] p.proto \in {0, 43, 60} -> extended
               [] p.proto \notin {0, 43, 44, 60} -> plain
<1>9. ClassifyIPv6(p) = whole
  <2> HIDE DEF whole
  <2>1. (CASE p.len < 40 \/ 40 + p.total > p.len -> Err("Truncated")
           [] p.len >= 40 /\ 40 + p.total <= p.len -> whole) = whole
    BY <1>1, <1>3
  <2> QED BY <2>1 DEF ClassifyIPv6, whole
<1>6. CASE p.proto = 44
  <2>1. DeclaredEnd(p) >= 48
    <3>1. CASE DeclaredEnd(p) < 48
      <4> HIDE DEF fragment, extended, plain
      <4> QED BY <1>1, <1>2, <1>5, <1>6, <1>9, <3>1, Rejected
    <3> QED BY <1>1, <1>5, <3>1
  <2>2. ClassifyIPv6(p) = fragment
    <3> HIDE DEF fragment, extended, plain
    <3> QED BY <1>1, <1>5, <1>6, <1>9, <2>1
  <2> QED BY <1>2, <1>4, <1>6, <2>2 DEF Accepted, FragmentFlow
<1>7. CASE p.proto \in {0, 43, 60}
  <2>1. ClassifyIPv6(p) = extended
    <3> HIDE DEF fragment, extended, plain
    <3> QED BY <1>1, <1>7, <1>9
  <2>2. ClassForProtocol(p.proto) = "Bulk"
    BY <1>7 DEF ClassForProtocol
  <2>3. Ports(p) = None
    BY <1>7 DEF Ports
  <2>4. WholeFlow(p) = HashFlow(6, p.proto, FALSE, p, None, None)
    BY <2>3 DEF WholeFlow
  <2>5. ~IsFragment(p)
    BY <1>4, <1>7
  <2>6. Accepted(p) = Ok(WholeFlow(p), ClassForProtocol(p.proto))
    BY <2>5, Zenon DEF Accepted
  <2>7. extended = Ok(WholeFlow(p), ClassForProtocol(p.proto))
    BY <2>2, <2>4 DEF HashFlow
  <2> HIDE DEF fragment, extended, plain, whole
  <2> QED BY <1>2, <1>4, <2>1, <2>6, <2>7
<1>8. CASE p.proto \notin {0, 43, 44, 60}
  <2>1. ClassifyIPv6(p) = plain
    <3> HIDE DEF fragment, extended, plain
    <3> QED BY <1>1, <1>8, <1>9
  <2>2. Ports(p) = TransportPorts(p, DeclaredEnd(p), 40, 58)
    BY <1>8 DEF Ports
  <2>3. WholeFlow(p) =
          HashFlow(6, p.proto, FALSE, p, TransportPorts(p, DeclaredEnd(p), 40, 58), None)
    BY <2>2 DEF WholeFlow
  <2>4. ~IsFragment(p)
    BY <1>4, <1>8
  <2>5. Accepted(p) = Ok(WholeFlow(p), ClassForProtocol(p.proto))
    BY <2>4, Zenon DEF Accepted
  <2>6. plain = Ok(WholeFlow(p), ClassForProtocol(p.proto))
    BY <2>3 DEF HashFlow
  <2> HIDE DEF fragment, extended, plain, whole
  <2> QED BY <1>2, <1>4, <2>1, <2>5, <2>6
<1> HIDE DEF fragment, extended, plain, whole
<1> QED BY <1>4, <1>6, <1>7, <1>8

LEMMA AcceptedForm ==
  ASSUME TunPacketFields, NEW p \in TunPackets, IsOk(ClassifyPacket(p))
  PROVE  /\ p.version \in {4, 6}
         /\ IsFragment(p) <=> IF p.version = 4 THEN p.more \/ p.offset # 0 ELSE p.proto = 44
         /\ ClassifyPacket(p) = Accepted(p)
<1>1. p.len \in Nat /\ p.version \in Nat
  BY DEF TunPacketFields
<1>2. p.len > 0
  <2>1. CASE p.len = 0
    BY <1>1, <2>1, Rejected DEF ClassifyPacket
  <2> QED BY <1>1, <2>1
<1>3. p.version \in {4, 6}
  <2>1. CASE p.version \notin {4, 6}
    BY <1>1, <1>2, <2>1, Rejected DEF ClassifyPacket
  <2> QED BY <2>1
<1> QED BY <1>2, <1>3, AcceptedFour, AcceptedSix

\* A flow says whether it is of fragments and of which protocol.
LEMMA FlowTells ==
  ASSUME NEW p
  PROVE  /\ IsFragment(p) => Accepted(p).flow[3] = TRUE /\ Accepted(p).class = "Bulk"
         /\ ~IsFragment(p) => /\ Accepted(p).flow[3] = FALSE
                              /\ Accepted(p).flow[2] = p.proto
                              /\ Accepted(p).class = ClassForProtocol(p.proto)
<1>1. FragmentFlow(p)[3] = TRUE
  <2>1. Combine(HashFlow(6, 44, TRUE, p, None, None), p.id)[3] = TRUE
    BY DEF Combine, HashFlow
  <2>2. HashFlow(4, p.proto, TRUE, p, None, p.id)[3] = TRUE
    BY DEF HashFlow
  <2> QED BY <2>1, <2>2 DEF FragmentFlow
<1>2. WholeFlow(p)[3] = FALSE /\ WholeFlow(p)[2] = p.proto
  BY DEF WholeFlow, HashFlow
<1>3. ASSUME NEW f, NEW c PROVE Ok(f, c).flow = f /\ Ok(f, c).class = c
  BY DEF Ok
<1>4. CASE IsFragment(p)
  <2>1. Accepted(p) = Ok(FragmentFlow(p), "Bulk")
    BY <1>4 DEF Accepted
  <2> QED BY <1>1, <1>3, <1>4, <2>1
<1>5. CASE ~IsFragment(p)
  <2>1. Accepted(p) = Ok(WholeFlow(p), ClassForProtocol(p.proto))
    BY <1>5 DEF Accepted
  <2> QED BY <1>2, <1>3, <1>5, <2>1
<1> QED BY <1>4, <1>5

LEMMA SameFlowSameClass ==
  ASSUME NEW p, NEW q, p.version \in {4, 6}, q.version \in {4, 6},
         Accepted(p).flow = Accepted(q).flow
  PROVE  Accepted(p).class = Accepted(q).class
<1> DEFINE f == Accepted(p).flow
<1>1. /\ IsFragment(p) => f[3] = TRUE /\ Accepted(p).class = "Bulk"
      /\ ~IsFragment(p) => f[3] = FALSE /\ f[2] = p.proto
                           /\ Accepted(p).class = ClassForProtocol(p.proto)
  BY FlowTells, Zenon
<1>2. /\ IsFragment(q) => f[3] = TRUE /\ Accepted(q).class = "Bulk"
      /\ ~IsFragment(q) => f[3] = FALSE /\ f[2] = q.proto
                           /\ Accepted(q).class = ClassForProtocol(q.proto)
  BY FlowTells, Zenon
<1> HIDE DEF f
<1>3. IsFragment(p) <=> IsFragment(q)
  BY <1>1, <1>2, Zenon
<1>4. CASE IsFragment(p)
  BY <1>1, <1>2, <1>3, <1>4, Zenon
<1>5. CASE ~IsFragment(p)
  BY <1>1, <1>2, <1>3, <1>5, Zenon
<1> QED BY <1>4, <1>5

\* The hash of a fragment takes nothing from behind the header.
LEMMA TrainTogether ==
  ASSUME NEW p, NEW q, p.version \in {4, 6}, SameTrain(p, q)
  PROVE  Accepted(p) = Accepted(q)
<1>1. /\ IsFragment(p) /\ IsFragment(q) /\ p.version = q.version
      /\ p.proto = q.proto /\ p.src = q.src /\ p.dst = q.dst /\ p.id = q.id
  BY DEF SameTrain
<1>2. FragmentFlow(p) = FragmentFlow(q)
  BY <1>1 DEF FragmentFlow, HashFlow
<1> QED BY <1>1, <1>2 DEF Accepted

\* Nothing that is hashed depends on the received length.
LEMMA TrailingIgnored ==
  ASSUME TunPacketFields, NEW p \in TunPackets, NEW q \in TunPackets,
         IsOk(ClassifyPacket(p)), IsOk(ClassifyPacket(q)), SameDatagram(p, q)
  PROVE  ClassifyPacket(p) = ClassifyPacket(q)
<1>1. /\ p.version = q.version /\ p.ihl = q.ihl /\ p.total = q.total /\ p.proto = q.proto
      /\ p.more = q.more /\ p.offset = q.offset /\ p.id = q.id /\ p.l4 = q.l4
      /\ p.src = q.src /\ p.dst = q.dst
  BY DEF SameDatagram, TunPacketFields
<1>2. FragmentFlow(p) = FragmentFlow(q) /\ WholeFlow(p) = WholeFlow(q)
  BY <1>1 DEF FragmentFlow, WholeFlow, Ports, HashFlow, TransportPorts, DeclaredEnd
<1>3. /\ p.version \in {4, 6}
      /\ ClassifyPacket(p) = Accepted(p) /\ ClassifyPacket(q) = Accepted(q)
  BY AcceptedForm
<1>4. IsFragment(p) <=> IsFragment(q)
  <2>1. IsFragment(p) <=> IF p.version = 4 THEN p.more \/ p.offset # 0 ELSE p.proto = 44
    BY AcceptedForm
  <2>2. IsFragment(q) <=> IF q.version = 4 THEN q.more \/ q.offset # 0 ELSE q.proto = 44
    BY AcceptedForm
  <2> QED BY <1>1, <2>1, <2>2
<1> QED BY <1>1, <1>2, <1>3, <1>4 DEF Accepted

LEMMA StablePair ==
  ASSUME TunPacketFields, NEW p \in TunPackets, NEW q \in TunPackets,
         IsOk(ClassifyPacket(p)), IsOk(ClassifyPacket(q))
  PROVE  /\ ClassifyPacket(p).flow = ClassifyPacket(q).flow =>
              ClassifyPacket(p).class = ClassifyPacket(q).class
         /\ SameTrain(p, q) => ClassifyPacket(p) = ClassifyPacket(q)
         /\ SameDatagram(p, q) => ClassifyPacket(p) = ClassifyPacket(q)
         /\ IsFragment(q) => ClassifyPacket(q).class = "Bulk"
<1>1. /\ p.version \in {4, 6} /\ ClassifyPacket(p) = Accepted(p)
      /\ q.version \in {4, 6} /\ ClassifyPacket(q) = Accepted(q)
  BY AcceptedForm
<1>2. Accepted(p).flow = Accepted(q).flow => Accepted(p).class = Accepted(q).class
  BY <1>1, SameFlowSameClass
<1>3. SameTrain(p, q) => Accepted(p) = Accepted(q)
  BY <1>1, TrainTogether
<1>4. SameDatagram(p, q) => ClassifyPacket(p) = ClassifyPacket(q)
  BY TrailingIgnored
<1>5. IsFragment(q) => Accepted(q).class = "Bulk"
  BY <1>1, FlowTells, Zenon
<1> QED BY <1>1, <1>2, <1>3, <1>4, <1>5

\* sg-multipath: a flow determines its class, the fragments of a datagram stay
\* together, and trailing bytes change nothing.
THEOREM Stable == ClassifierSpec => []FlowsStable
<1> DEFINE BothRead == last \in TunPackets /\ packet \in TunPackets
<1>1. ClassifierInit => BothRead
  BY DEF ClassifierInit
<1>2. BothRead /\ [ClassifierNext]_classifier_vars => BothRead'
  BY DEF ClassifierNext, Classify, classifier_vars
<1>3. BothRead => FlowsStable
  BY TunPacketFields, StablePair, Zenon DEF FlowsStable
<1> QED BY <1>1, <1>2, <1>3, PTL DEF ClassifierSpec

-----------------------------------------------------------------------------
(***************************************************************************)
(* The checked datagram sender, for any header length, limits, payload     *)
(* lengths, headers and largest identifier: identifiers on the wire are    *)
(* fresh, and no datagram exceeds a limit the transport reported.          *)
(*                                                                         *)
(* Both follow from one invariant.  While a datagram is under way nothing  *)
(* touches the gate or the sequencer, so what Build established of it      *)
(* (Pending) still holds when the transport takes it; Sequenced says which *)
(* identifier went out last, and Gated that the limit in force is one of   *)
(* the reported ones or below.                                             *)
(***************************************************************************)

\* PathMtuState: there is a limit exactly in the states that allow sending,
\* and it is not above any value reported since the last discovery.
Gated ==
  /\ state \in {"Unknown", "Available", "Reduced", "BlackHole"}
  /\ state \in Sendable => mtu \in DatagramMtus
  /\ state \notin Sendable => mtu = None
  /\ mtu # None => least \in DatagramMtus /\ mtu <= least

\* PacketIdSequencer: the last identifier sent is the one before the next, or
\* the very last.
Sequenced ==
  /\ next \in 0..LastPacketId /\ exhausted \in BOOLEAN
  /\ exhausted => next = LastPacketId
  /\ wire # None => wire.id = IF exhausted THEN next ELSE next - 1

\* The datagram under way: the identifier that was previewed, an envelope
\* that decodes, and within the limit the gate still has.
Pending ==
  pending # None =>
    /\ ~exhausted /\ pending.id = next
    /\ mtu # None
    /\ pending.declared \in Nat /\ pending.declared > 0
    /\ pending.len = HeaderLen + pending.declared
    /\ pending.len <= mtu
    /\ ValidHeader(pending.header)

SendInv == Gated /\ Sequenced /\ Pending

-----------------------------------------------------------------------------
\* A fresh engine: an unknown limit, no identifier spent, nothing under way.
LEMMA SendInit == ASSUME SendBounds PROVE SenderInit => SendInv
<1>1. ASSUME SendBounds, SenderInit
      PROVE  /\ state = "Unknown" /\ mtu = None /\ least = None
             /\ next = 0 /\ exhausted = FALSE /\ pending = None /\ wire = None
  BY <1>1 DEF SenderInit, NewAdmission, NewSequencer, NewSender
<1>2. ASSUME SendBounds, SenderInit PROVE Gated
  BY <1>1, <1>2 DEF Gated, Sendable
<1>3. ASSUME SendBounds, SenderInit PROVE Sequenced
  <2>1. exhausted \in BOOLEAN /\ ~exhausted
    BY <1>1, <1>3, Zenon
  <2>2. next \in 0..LastPacketId
    <3>1. next = 0
      BY <1>1, <1>3
    <3> QED BY <3>1 DEF SendBounds
  <2> QED BY <1>1, <1>3, <2>1, <2>2 DEF Sequenced
<1>4. ASSUME SendBounds, SenderInit PROVE Pending
  BY <1>1, <1>4 DEF Pending
<1> QED BY <1>2, <1>3, <1>4 DEF SendInv

\* sync_from_transport leaves a limit that is no larger than what the
\* transport reports now or reported before.
LEMMA SyncGated ==
  ASSUME SendBounds, Gated, NEW m \in DatagramMtus, SyncFromTransport(m)
  PROVE  Gated'
<1> USE DEF SendBounds, Gated, Sendable, DatagramMtus
<1>1. CASE state = "Unknown" /\ Available(m) /\ least' = m
  BY <1>1 DEF Available
<1>2. CASE /\ state \in Sendable /\ Smaller(m)
           /\ state' = "Reduced" /\ mtu' = m /\ Reported(m)
  BY <1>2 DEF Smaller, Reported, SendDenied
<1>3. CASE state \in Sendable /\ ~Smaller(m) /\ UNCHANGED <<state, mtu, least>>
  BY <1>3
<1>4. CASE state = "BlackHole" /\ UNCHANGED <<state, mtu, least>>
  BY <1>4
<1> QED BY <1>1, <1>2, <1>3, <1>4 DEF SyncFromTransport

\* The engine's MTU events keep the limit within the reports; a datagram is
\* never under way.
LEMMA EventsKeep == ASSUME SendBounds, SendInv, MtuEvents PROVE SendInv'
<1> USE DEF SendBounds
<1>1. Gated' /\ pending = None /\ UNCHANGED <<sequencer, pending, wire>>
  <2> USE DEF SendInv, Gated, Sendable, DatagramMtus
  <2>1. ASSUME NEW m \in DatagramMtus, Discover(m)
        PROVE  Gated' /\ pending = None /\ UNCHANGED <<sequencer, pending, wire>>
    BY <2>1 DEF Discover, Available
  <2>2. ASSUME NEW m \in DatagramMtus, Reduce(m)
        PROVE  Gated' /\ pending = None /\ UNCHANGED <<sequencer, pending, wire>>
    BY <2>2 DEF Reduce, Smaller, Reported, SendDenied
  <2>3. CASE BlackHole
    BY <2>3 DEF BlackHole, Blackholed, SendDenied
  <2> QED BY <2>1, <2>2, <2>3 DEF MtuEvents, Recover
<1> QED BY <1>1 DEF SendInv, Sequenced, Pending, sequencer

\* A refusal may lower the limit and changes nothing else.
LEMMA RefuseKeeps ==
  ASSUME SendBounds, SendInv, NEW len \in Lens, Refuse(len) PROVE SendInv'
<1>1. Gated'
  <2>1. CASE UNCHANGED <<state, mtu, least>>
    BY <2>1 DEF SendInv, Gated
  <2>2. CASE CurrentDatagramMtu # None /\ SyncFromTransport(CurrentDatagramMtu)
    BY <2>2, SyncGated DEF CurrentDatagramMtu, SendInv
  <2> QED BY <2>1, <2>2 DEF Refuse
<1>2. pending = None /\ UNCHANGED <<sequencer, pending, wire>>
  BY DEF Refuse, Ignored
<1> QED BY <1>1, <1>2 DEF SendInv, Sequenced, Pending, sequencer

\* What is built carries the previewed identifier, decodes, and fits the limit
\* the gate was just synchronised with.
LEMMA BuildKeeps ==
  ASSUME SendBounds, SendInv, NEW len \in Lens, NEW actual \in Lens, NEW h, NEW id,
         Build(len, h, id, actual)
  PROVE  SendInv'
<1>1. Gated'
  BY SyncGated DEF Build, CurrentDatagramMtu, SendInv
<1>2. Sequenced'
  BY DEF Build, SendInv, Sequenced, sequencer
<1>3. Pending'
  <2>1. CASE /\ id = Preview /\ Encodes(h, actual, Effective(mtu'))
             /\ pending' = [id |-> id, header |-> h, declared |-> actual,
                            len |-> HeaderLen + actual]
    <3>1. mtu' # None /\ mtu' \in DatagramMtus
      BY <1>1 DEF Build, AdmitEnvelope, Gated
    <3>2. ~exhausted' /\ next' = next /\ id = next
      BY <2>1 DEF Build, Preview, sequencer, SendInv, Sequenced
    <3>3. actual > 0 /\ actual <= mtu' - HeaderLen
      BY <2>1 DEF Encodes, ValidLen, Effective
    <3>4. mtu' \in Int /\ HeaderLen \in Nat /\ actual \in Nat
      BY <3>1 DEF DatagramMtus, SendBounds
    <3>5. HeaderLen + actual <= mtu'
      <4>1. \A a, b, c \in Int : a <= b - c => c + a <= b
        OBVIOUS
      <4>2. actual <= mtu' - HeaderLen
        BY <3>3
      <4>3. actual \in Int /\ mtu' \in Int /\ HeaderLen \in Int
        BY <3>4
      <4> QED BY ONLY <4>2, <4>3, <4>1, Zenon
    <3>6. /\ pending'.id = id /\ pending'.header = h /\ pending'.declared = actual
          /\ pending'.len = HeaderLen + actual
      BY <2>1
    <3>7. ValidHeader(pending'.header)
      BY <2>1, <3>6 DEF Encodes
    <3> QED BY <3>1, <3>2, <3>3, <3>4, <3>5, <3>6, <3>7 DEF Pending
  <2>2. CASE UNCHANGED pending
    BY <2>2 DEF Build, Pending
  <2> QED BY <2>1, <2>2 DEF Build
<1> QED BY <1>1, <1>2, <1>3 DEF SendInv

\* The identifier is spent with the datagram that carries it, and only then.
LEMMA TransmitKeeps == ASSUME SendBounds, SendInv, Transmit PROVE SendInv'
<1>1. Gated' /\ Pending'
  BY DEF Transmit, SendInv, Gated, gate, Pending
<1>2. Sequenced'
  <2>1. CASE Accepts(pending) /\ wire' = pending /\ Commit
    <3>1. wire'.id = next /\ ~exhausted /\ next \in 0..LastPacketId
      BY <2>1 DEF Transmit, SendInv, Sequenced, Pending
    <3>2. CASE next = LastPacketId /\ exhausted' = TRUE /\ UNCHANGED next
      <4>1. exhausted' \in BOOLEAN /\ exhausted'
        BY <3>2
      <4>2. next' \in 0..LastPacketId /\ next' = LastPacketId /\ wire'.id = next'
        BY <2>1, <3>1, <3>2
      <4> QED BY <4>1, <4>2 DEF Sequenced
    <3>3. CASE next < LastPacketId /\ next' = next + 1 /\ UNCHANGED exhausted
      <4>1. exhausted' \in BOOLEAN /\ ~exhausted'
        BY <3>1, <3>3 DEF SendInv, Sequenced
      <4>2. next' \in 0..LastPacketId /\ wire'.id = next' - 1
        BY <2>1, <3>1, <3>3 DEF SendBounds
      <4> QED BY <4>1, <4>2 DEF Sequenced
    <3> QED BY <2>1, <3>2, <3>3 DEF Commit
  <2>2. CASE UNCHANGED <<wire, sequencer>>
    BY <2>2 DEF SendInv, Sequenced, sequencer
  <2> QED BY <2>1, <2>2 DEF Transmit
<1> QED BY <1>1, <1>2 DEF SendInv

\* Every step keeps the invariant.
LEMMA SendStep == ASSUME SendBounds, SendInv, [SenderNext]_sender_vars PROVE SendInv'
<1>1. CASE MtuEvents
  BY <1>1, EventsKeep
<1>2. ASSUME NEW len \in Lens, Refuse(len) PROVE SendInv'
  BY <1>2, RefuseKeeps
<1>3. ASSUME NEW len \in Lens, NEW actual \in Lens, NEW h \in Headers,
             NEW id \in {next, 0}, Build(len, h, id, actual)
      PROVE  SendInv'
  BY <1>3, BuildKeeps
<1>4. CASE Transmit
  BY <1>4, TransmitKeeps
<1>5. CASE Dropped
  BY <1>5 DEF Dropped, SendInv, Gated, Sequenced, Pending, gate, sequencer
<1>6. ASSUME NEW l \in Limits, ConnectionChanges(l) PROVE SendInv'
  BY <1>6 DEF ConnectionChanges, SendInv, Gated, Sequenced, Pending, gate, sequencer
<1>7. CASE UNCHANGED sender_vars
  BY <1>7 DEF sender_vars, SendInv, Gated, Sequenced, Pending, gate, sequencer
<1> QED BY <1>1, <1>2, <1>3, <1>4, <1>5, <1>6, <1>7 DEF SenderNext, Sends

\* Only a transmission reaches the wire, with what was pending.
LEMMA WireFromPending ==
  ASSUME [SenderNext]_sender_vars, wire' # wire
  PROVE  Transmit /\ pending # None /\ wire' = pending /\ UNCHANGED least
<1> USE DEF sequencer, gate
<1>1. ~MtuEvents
  BY DEF MtuEvents, Discover, Reduce, Recover, BlackHole
<1>2. \A len \in Lens : ~Refuse(len)
  BY DEF Refuse, Ignored
<1>3. \A len \in Lens, actual \in Lens, h \in Headers, id \in {next, 0} :
        ~Build(len, h, id, actual)
  BY DEF Build
<1>4. ~Dropped /\ \A l \in Limits : ~ConnectionChanges(l)
  BY DEF Dropped, ConnectionChanges
<1>5. Transmit
  BY <1>1, <1>2, <1>3, <1>4 DEF SenderNext, Sends, sender_vars
<1> QED BY <1>5 DEF Transmit

-----------------------------------------------------------------------------
\* The gate, the sequencer and the datagram under way agree in every state, in
\* whatever order events, sends, drops and changes of the connection come.
THEOREM SendInductive == SenderSpec => []SendInv
<1> USE SendAssumption
<1>1. SenderInit => SendInv
  BY SendInit
<1>2. SendInv /\ [SenderNext]_sender_vars => SendInv'
  BY SendStep
<1> QED BY <1>1, <1>2, PTL DEF SenderSpec

\* PacketIdSequencer and send_checked: every accepted datagram carries the
\* next identifier, one above the last accepted one; a rejected, refused or
\* dropped one spends none, and nothing follows the last identifier.
THEOREM Fresh == SenderSpec => FreshIds
<1> USE SendAssumption
<1>1. ASSUME SendInv, [SenderNext]_sender_vars, wire' # wire
      PROVE  /\ wire'.id = next /\ ~exhausted
             /\ wire # None => wire'.id = wire.id + 1
  BY <1>1, WireFromPending DEF SendInv, Pending, Sequenced, SendBounds
<1>2. SendInv /\ [SenderNext]_sender_vars =>
        [wire' # wire =>
           /\ wire'.id = next /\ ~exhausted
           /\ wire # None => wire'.id = wire.id + 1]_sender_vars
  BY <1>1
<1> QED BY <1>2, SendInductive, PTL DEF SenderSpec, FreshIds

\* PathMtuState, admit_envelope and the codec: the limit in force and every
\* datagram on the wire stay within each limit reported since the last
\* discovery, and the peer decodes the datagram under that limit.
THEOREM FitsReported == SenderSpec => WithinReported
<1> USE SendAssumption
<1>1. ASSUME SendInv, [SenderNext]_sender_vars PROVE mtu' # None => mtu' <= least'
  BY <1>1, SendStep DEF SendInv, Gated
<1>2. ASSUME SendInv, [SenderNext]_sender_vars, wire' # wire
      PROVE  wire'.len <= least /\ Decodes(wire', Effective(least))
  <2>1. pending # None /\ wire' = pending
    BY <1>2, WireFromPending
  <2>2. /\ pending.declared \in Nat /\ pending.declared > 0
        /\ pending.len = HeaderLen + pending.declared
        /\ pending.len <= mtu /\ mtu # None /\ ValidHeader(pending.header)
    BY <1>2, <2>1 DEF SendInv, Pending
  <2>3. mtu \in Nat /\ least \in Nat /\ HeaderLen \in Nat /\ mtu <= least
    BY <1>2, <2>2 DEF SendInv, Gated, DatagramMtus, SendBounds
  <2>4. wire'.len <= least
    BY <2>1, <2>2, <2>3
  <2> QED BY <2>1, <2>2, <2>3, <2>4 DEF Decodes, ValidLen, Effective
<1>3. SendInv /\ [SenderNext]_sender_vars =>
        [/\ mtu' # None => mtu' <= least'
         /\ wire' # wire => wire'.len <= least /\ Decodes(wire', Effective(least))]_sender_vars
  BY <1>1, <1>2
<1> QED BY <1>3, SendInductive, PTL DEF SenderSpec, WithinReported

-----------------------------------------------------------------------------
(***************************************************************************)
(* The uplink of the gateway engine, for any sessions, addresses,          *)
(* connections, packets and queue: a packet is forwarded only while its    *)
(* source belongs to the session that sent it.                             *)
(*                                                                         *)
(* The packet was validated against a lease that the calls ahead of its    *)
(* renewal may have released. What saves it is the order of the owner's    *)
(* queue: a lease of another address becomes active by a reserve and a     *)
(* commit, the admission submits the commit only after the reserve was     *)
(* executed, and so behind every renewal that was waiting by then          *)
(* (NoCommitAhead).                                                        *)
(***************************************************************************)

Lease == [state : {"Reserved", "Active"}, addr : Addresses]
Call == [op : {"renew", "reserve", "commit", "release"}, session : Sessions,
         packet : Packets \cup {None}]

UplinkTypes ==
  /\ lease \in [Sessions -> Lease \cup {None}]
  /\ admission \in [Sessions -> {"idle", "reserving", "reserved", "committing"}]
  /\ queue \in Seq(Call)

\* The pool gives an address to one session.
OneHolder ==
  \A s, t \in Sessions :
    s # t /\ lease[s] # None /\ lease[t] # None => lease[s].addr # lease[t].addr

\* Call i of the queue was submitted by an admission.
Admits(i) == queue[i].op \in {"reserve", "commit"}

\* An admission has at most one call in the queue, the one it waits for.
AdmissionCalls ==
  /\ \A i \in 1..Len(queue) :
       /\ queue[i].op = "reserve" => admission[queue[i].session] = "reserving"
       /\ queue[i].op = "commit" => admission[queue[i].session] = "committing"
  /\ \A i, j \in 1..Len(queue) :
       Admits(i) /\ Admits(j) /\ queue[i].session = queue[j].session => i = j

\* No commit of session s is executed before call i.
NoCommitAhead(s, i) ==
  \A j \in 1..Len(queue) : j < i => ~(queue[j].op = "commit" /\ queue[j].session = s)

\* A renewal that somebody still waits for: its packet has the address of the
\* session's lease, or the lease will not be active when the renewal runs.
StaysValid(i) ==
  LET s == queue[i].session
  IN queue[i].op = "renew" /\ queue[i].packet # None =>
       /\ ParseSource(queue[i].packet)
       /\ lease[s] # None /\ lease[s].state = "Active" =>
            lease[s].addr = queue[i].packet.src
       /\ lease[s] # None /\ lease[s].state # "Active" => NoCommitAhead(s, i)

Validated == \A i \in 1..Len(queue) : StaysValid(i)

UplinkInv == UplinkTypes /\ OneHolder /\ AdmissionCalls /\ Validated

-----------------------------------------------------------------------------
LEMMA UplinkInit == IngressInit => UplinkInv
BY DEF IngressInit, UplinkInv, UplinkTypes, OneHolder, AdmissionCalls, Validated

\* A call that takes the end of the queue stands behind all the others.
LEMMA Appended ==
  ASSUME UplinkTypes, NEW c \in Call, queue' = Append(queue, c)
  PROVE  /\ queue' \in Seq(Call) /\ Len(queue') = Len(queue) + 1
         /\ queue'[Len(queue) + 1] = c
         /\ \A i \in 1..Len(queue) : queue'[i] = queue[i]
         /\ Len(queue) \in Nat
BY DEF UplinkTypes

\* The worker takes the head of the queue, the others move up.
LEMMA Shifted ==
  ASSUME UplinkTypes, queue # <<>>, queue' = Tail(queue)
  PROVE  /\ queue' \in Seq(Call) /\ Len(queue') = Len(queue) - 1
         /\ \A i \in 1..Len(queue') : queue'[i] = queue[i + 1] /\ i + 1 \in 1..Len(queue)
         /\ Head(queue) = queue[1] /\ 1 \in 1..Len(queue) /\ Head(queue) \in Call
         /\ Len(queue) \in Nat
BY DEF UplinkTypes

\* While the leases stand still, a new call at the end invalidates nothing.
LEMMA AppendValidated ==
  ASSUME UplinkInv, NEW c \in Call, queue' = Append(queue, c), UNCHANGED lease,
         c.op = "renew" /\ c.packet # None =>
           /\ ParseSource(c.packet) /\ HoldsActive(c.session)
           /\ lease[c.session].addr = c.packet.src
  PROVE  Validated'
<1>1. /\ Len(queue') = Len(queue) + 1 /\ queue'[Len(queue) + 1] = c
      /\ \A i \in 1..Len(queue) : queue'[i] = queue[i]
      /\ Len(queue) \in Nat
  BY Appended DEF UplinkInv
<1> SUFFICES ASSUME NEW i \in 1..Len(queue') PROVE StaysValid(i)'
  BY DEF Validated
<1>2. CASE i = Len(queue) + 1
  BY <1>1, <1>2 DEF HoldsActive, StaysValid, ParseSource, ParseIPv4, ParseIPv6
<1>3. CASE i \in 1..Len(queue)
  <2>1. queue'[i] = queue[i]
    BY <1>1, <1>3
  <2>2. \A s : NoCommitAhead(s, i) => NoCommitAhead(s, i)'
    BY <1>1, <1>3 DEF NoCommitAhead
  <2>3. StaysValid(i)
    BY <1>3 DEF UplinkInv, Validated
  <2> QED BY <2>1, <2>2, <2>3 DEF StaysValid, ParseSource, ParseIPv4, ParseIPv6
<1> QED BY <1>1, <1>2, <1>3

\* ingest_uplink_at_time: the renewal is validated against the lease of now.
LEMMA IngestKeeps ==
  ASSUME UplinkInv, NEW c, NEW s \in Sessions, NEW e, NEW p \in Packets, Ingest(c, s, e, p)
  PROVE  UplinkInv'
<1> DEFINE r == [op |-> "renew", session |-> s, packet |-> p]
<1>1. r \in Call /\ queue' = Append(queue, r) /\ UNCHANGED <<lease, admission>>
  BY DEF Ingest, Call
<1>2. ParseSource(p) /\ HoldsActive(s) /\ lease[s].addr = p.src
  BY DEF Ingest, Validates
<1>3. Validated'
  BY <1>1, <1>2, AppendValidated
<1>4. /\ queue' \in Seq(Call) /\ Len(queue') = Len(queue) + 1
      /\ queue'[Len(queue) + 1] = r
      /\ \A i \in 1..Len(queue) : queue'[i] = queue[i]
      /\ Len(queue) \in Nat
  BY <1>1, Appended DEF UplinkInv
<1>5. AdmissionCalls'
  BY <1>1, <1>4 DEF UplinkInv, AdmissionCalls, Admits
<1> QED BY <1>1, <1>3, <1>4, <1>5 DEF UplinkInv, UplinkTypes, OneHolder

\* A caller that gives up leaves its renewal without a packet.
LEMMA GiveUpKeeps ==
  ASSUME UplinkInv, NEW i \in DOMAIN queue, GiveUp(i) PROVE UplinkInv'
<1>1. /\ queue' \in Seq(Call) /\ Len(queue') = Len(queue)
      /\ \A j \in 1..Len(queue) :
           /\ queue'[j].op = queue[j].op /\ queue'[j].session = queue[j].session
           /\ queue'[j].packet = queue[j].packet \/ queue'[j].packet = None
  <2>1. i \in 1..Len(queue) /\ queue[i] \in Call /\ queue \in Seq(Call)
    BY DEF UplinkInv, UplinkTypes
  <2>2. [queue[i] EXCEPT !.packet = None] \in Call
    BY <2>1 DEF Call
  <2>3. queue' = [queue EXCEPT ![i] = [queue[i] EXCEPT !.packet = None]]
    BY DEF GiveUp
  <2>4. queue' \in Seq(Call) /\ Len(queue') = Len(queue)
    BY <2>1, <2>2, <2>3
  <2>5. ASSUME NEW j \in 1..Len(queue)
        PROVE  /\ queue'[j].op = queue[j].op /\ queue'[j].session = queue[j].session
               /\ queue'[j].packet = queue[j].packet \/ queue'[j].packet = None
    <3>1. CASE j = i
      BY <2>1, <2>3, <3>1 DEF Call
    <3>2. CASE j # i
      BY <2>1, <2>3, <3>2
    <3> QED BY <3>1, <3>2
  <2> QED BY <2>4, <2>5
<1>2. UNCHANGED <<lease, admission>>
  BY DEF GiveUp
<1>3. AdmissionCalls'
  BY <1>1, <1>2 DEF UplinkInv, AdmissionCalls, Admits
<1>4. \A s, j : NoCommitAhead(s, j)' <=> NoCommitAhead(s, j)
  BY <1>1 DEF NoCommitAhead
<1>5. Validated'
  BY <1>1, <1>2, <1>4
  DEF UplinkInv, Validated, StaysValid, ParseSource, ParseIPv4, ParseIPv6
<1> QED BY <1>1, <1>2, <1>3, <1>5 DEF UplinkInv, UplinkTypes, OneHolder

\* The sessions of the calls.
LEMMA CallsTyped ==
  ASSUME UplinkTypes
  PROVE  \A i \in 1..Len(queue) : queue[i] \in Call /\ queue[i].session \in Sessions
<1>1. \A i \in 1..Len(queue) : queue[i] \in Call
  BY DEF UplinkTypes
<1> QED BY <1>1 DEF Call

\* The calls of admissions and cleanups: none is a renewal.
LEMMA SubmitKeeps ==
  ASSUME UplinkInv, NEW s \in Sessions, NEW op \in {"reserve", "commit", "release"},
         Submit(s, op), UNCHANGED lease
  PROVE  /\ queue' \in Seq(Call) /\ OneHolder' /\ Validated'
         /\ Len(queue') = Len(queue) + 1 /\ Len(queue) \in Nat
         /\ queue'[Len(queue) + 1].op = op /\ queue'[Len(queue) + 1].session = s
         /\ \A i \in 1..Len(queue) : queue'[i] = queue[i]
<1> DEFINE r == [op |-> op, session |-> s, packet |-> None]
<1>1. r \in Call /\ queue' = Append(queue, r) /\ r.op # "renew"
  BY DEF Submit, Call
<1>2. Validated'
  BY <1>1, AppendValidated
<1> QED BY <1>1, <1>2, Appended DEF UplinkInv, OneHolder

\* An idle or reserved admission has no call of its own in the queue.
LEMMA AdmitKeeps == ASSUME UplinkInv, NEW s \in Sessions, Admit(s) PROVE UplinkInv'
<1>1. UNCHANGED lease
  BY DEF Admit
<1>2. PICK op \in {"reserve", "commit"} :
        /\ Submit(s, op)
        /\ admission[s] \in {"idle", "reserved"}
        /\ admission' = [admission EXCEPT
             ![s] = IF op = "reserve" THEN "reserving" ELSE "committing"]
  BY DEF Admit
<1>3. /\ queue' \in Seq(Call) /\ OneHolder' /\ Validated'
      /\ Len(queue') = Len(queue) + 1 /\ Len(queue) \in Nat
      /\ queue'[Len(queue) + 1].op = op /\ queue'[Len(queue) + 1].session = s
      /\ \A i \in 1..Len(queue) : queue'[i] = queue[i]
  BY <1>1, <1>2, SubmitKeeps
<1>4. \A i \in 1..Len(queue) : Admits(i) => queue[i].session # s
  BY <1>2 DEF UplinkInv, AdmissionCalls, Admits
<1>5. admission' \in [Sessions -> {"idle", "reserving", "reserved", "committing"}]
  BY <1>2 DEF UplinkInv, UplinkTypes
<1>6. \A i \in 1..Len(queue) : queue[i].session \in Sessions
  BY CallsTyped DEF UplinkInv
<1>7. /\ admission'[s] = IF op = "reserve" THEN "reserving" ELSE "committing"
      /\ \A t \in Sessions \ {s} : admission'[t] = admission[t]
  BY <1>2 DEF UplinkInv, UplinkTypes
<1>8. AdmissionCalls'
  <2>1. \A i \in 1..Len(queue') : i = Len(queue) + 1 \/ i \in 1..Len(queue)
    BY <1>3
  <2>2. \A i \in 1..Len(queue') :
          /\ queue'[i].op = "reserve" => admission'[queue'[i].session] = "reserving"
          /\ queue'[i].op = "commit" => admission'[queue'[i].session] = "committing"
    <3>1. ASSUME NEW i \in 1..Len(queue)
          PROVE  /\ queue[i].op = "reserve" => admission'[queue[i].session] = "reserving"
                 /\ queue[i].op = "commit" => admission'[queue[i].session] = "committing"
      BY <1>4, <1>6, <1>7 DEF UplinkInv, AdmissionCalls, Admits
    <3> QED BY <1>3, <1>7, <2>1, <3>1
  <2>3. \A i, j \in 1..Len(queue') :
          /\ queue'[i].op \in {"reserve", "commit"}
          /\ queue'[j].op \in {"reserve", "commit"}
          /\ queue'[i].session = queue'[j].session
          => i = j
    BY <1>3, <1>4, <2>1 DEF UplinkInv, AdmissionCalls, Admits
  <2> QED BY <2>2, <2>3 DEF AdmissionCalls, Admits
<1> QED BY <1>1, <1>3, <1>5, <1>8 DEF UplinkInv, UplinkTypes

\* A cleanup joins the queue behind the renewals it will disappoint.
LEMMA CleanupKeeps == ASSUME UplinkInv, NEW s \in Sessions, Cleanup(s) PROVE UplinkInv'
<1>1. Submit(s, "release") /\ UNCHANGED <<lease, admission>>
  BY DEF Cleanup
<1>2. /\ queue' \in Seq(Call) /\ OneHolder' /\ Validated'
      /\ Len(queue') = Len(queue) + 1 /\ Len(queue) \in Nat
      /\ queue'[Len(queue) + 1].op = "release"
      /\ \A i \in 1..Len(queue) : queue'[i] = queue[i]
  BY <1>1, SubmitKeeps
<1>3. AdmissionCalls'
  BY <1>1, <1>2 DEF UplinkInv, AdmissionCalls, Admits
<1> QED BY <1>1, <1>2, <1>3 DEF UplinkInv, UplinkTypes

\* What follows a removed head keeps its order.
LEMMA TailNoCommit ==
  ASSUME UplinkTypes, queue # <<>>, queue' = Tail(queue), NEW s,
         NEW i \in 1..Len(queue'), NoCommitAhead(s, i + 1)
  PROVE  NoCommitAhead(s, i)'
<1>1. \A j \in 1..Len(queue') : queue'[j] = queue[j + 1] /\ j + 1 \in 1..Len(queue)
  BY Shifted
<1> QED BY <1>1 DEF NoCommitAhead

\* A renewal is executed: no lease moves.
LEMMA RenewedKeeps == ASSUME UplinkInv, Renewed PROVE UplinkInv'
<1>1. /\ queue # <<>> /\ queue' = Tail(queue)
      /\ UNCHANGED <<lease, admission>> /\ UplinkTypes
  BY DEF Renewed, UplinkInv
<1>2. /\ queue' \in Seq(Call)
      /\ \A i \in 1..Len(queue') : queue'[i] = queue[i + 1] /\ i + 1 \in 1..Len(queue)
  BY <1>1, Shifted
<1>3. AdmissionCalls'
  BY <1>1, <1>2 DEF UplinkInv, AdmissionCalls, Admits
<1>4. ASSUME NEW i \in 1..Len(queue') PROVE StaysValid(i)'
  <2>1. StaysValid(i + 1)
    BY <1>2 DEF UplinkInv, Validated
  <2>2. \A s : NoCommitAhead(s, i + 1) => NoCommitAhead(s, i)'
    BY <1>1, TailNoCommit
  <2> QED BY <1>1, <1>2, <2>1, <2>2 DEF StaysValid, ParseSource, ParseIPv4, ParseIPv6
<1> QED BY <1>1, <1>2, <1>3, <1>4 DEF UplinkInv, UplinkTypes, OneHolder, Validated

\* The worker executes a call of session s that moves its lease: a new one is
\* only reserved, a commit finds no renewal that another lease was validated
\* for, a release leaves none.
LEMMA MovesKeep ==
  ASSUME UplinkInv, queue # <<>>, queue' = Tail(queue), NEW s \in Sessions,
         queue[1].session = s,
         \A t \in Sessions \ {s} : lease'[t] = lease[t] /\ admission'[t] = admission[t],
         UplinkTypes', OneHolder',
         \/ /\ queue[1].op = "reserve"
            /\ lease'[s] # None /\ lease'[s] # lease[s] => lease'[s].state = "Reserved"
         \/ /\ queue[1].op = "commit"
            /\ lease'[s] # lease[s] =>
                 /\ lease[s] # None /\ lease[s].state # "Active"
                 /\ lease'[s].state = "Active"
         \/ queue[1].op = "release" /\ lease'[s] = None /\ admission'[s] = admission[s]
  PROVE  UplinkInv'
<1>1. /\ Len(queue) \in Nat /\ 1 \in 1..Len(queue) /\ Len(queue') = Len(queue) - 1
      /\ \A i \in 1..Len(queue') : queue'[i] = queue[i + 1] /\ i + 1 \in 1..Len(queue)
  BY Shifted DEF UplinkInv
<1>2. \A i \in 1..Len(queue') : queue'[i].session \in Sessions
  BY <1>1, CallsTyped DEF UplinkInv
<1>3. queue[1].op # "release" =>
        \A i \in 1..Len(queue') :
          queue'[i].op \in {"reserve", "commit"} => queue'[i].session # s
  BY <1>1 DEF UplinkInv, AdmissionCalls, Admits
<1>4. \A i \in 1..Len(queue') :
        queue'[i].op \in {"reserve", "commit"} =>
          admission'[queue'[i].session] = admission[queue'[i].session]
  BY <1>2, <1>3
<1>5. AdmissionCalls'
  <2>1. \A i \in 1..Len(queue') :
          /\ queue'[i].op = "reserve" => admission'[queue'[i].session] = "reserving"
          /\ queue'[i].op = "commit" => admission'[queue'[i].session] = "committing"
    BY <1>1, <1>4 DEF UplinkInv, AdmissionCalls
  <2>2. \A i, j \in 1..Len(queue') :
          /\ queue'[i].op \in {"reserve", "commit"}
          /\ queue'[j].op \in {"reserve", "commit"}
          /\ queue'[i].session = queue'[j].session
          => i = j
    BY <1>1 DEF UplinkInv, AdmissionCalls, Admits
  <2> QED BY <2>1, <2>2 DEF AdmissionCalls, Admits
<1>6. ASSUME NEW i \in 1..Len(queue') PROVE StaysValid(i)'
  <2>1. PICK t \in Sessions : queue'[i].session = t
    BY <1>2
  <2>2. StaysValid(i + 1) /\ queue'[i] = queue[i + 1] /\ queue[i + 1].session = t
    BY <1>1, <2>1 DEF UplinkInv, Validated
  <2>3. NoCommitAhead(t, i + 1) => NoCommitAhead(t, i)'
    BY TailNoCommit DEF UplinkInv
  <2> USE DEF StaysValid, ParseSource, ParseIPv4, ParseIPv6
  <2>4. CASE lease'[t] = lease[t]
    BY <2>1, <2>2, <2>3, <2>4
  <2>5. CASE lease'[t] = None
    BY <2>1, <2>2, <2>5
  <2>6. CASE lease'[t] # lease[t] /\ lease'[t] # None /\ queue[1].op = "reserve"
    <3>1. t = s /\ lease'[t].state = "Reserved"
      BY <2>6
    <3>2. NoCommitAhead(t, i)'
      BY <1>1, <1>3, <2>6, <3>1 DEF NoCommitAhead
    <3> QED BY <2>1, <2>2, <3>1, <3>2
  <2>7. CASE lease'[t] # lease[t] /\ lease'[t] # None /\ queue[1].op = "commit"
    <3>1. t = s /\ lease[t] # None /\ lease[t].state # "Active"
      BY <2>7
    <3>2. ~NoCommitAhead(t, i + 1)
      BY <1>1, <2>7, <3>1 DEF NoCommitAhead
    <3>3. ~(queue[i + 1].op = "renew" /\ queue[i + 1].packet # None)
      BY <2>2, <3>1, <3>2
    <3> QED BY <2>2, <3>3
  <2> QED BY <2>4, <2>5, <2>6, <2>7
<1> QED BY <1>5, <1>6 DEF UplinkInv, Validated

LEMMA ExecutedKeeps == ASSUME UplinkInv, Executed PROVE UplinkInv'
<1>1. /\ queue # <<>> /\ queue' = Tail(queue) /\ UplinkTypes
      /\ queue' \in Seq(Call) /\ Head(queue) = queue[1] /\ 1 \in 1..Len(queue)
  BY Shifted DEF Executed, UplinkInv
<1>2. PICK s \in Sessions : queue[1].session = s
  BY <1>1, CallsTyped
<1>3. \/ /\ queue[1].op = "reserve" /\ Reserve(s)
         /\ admission' = [admission EXCEPT ![s] =
              IF lease'[s] # None THEN "reserved" ELSE "idle"]
      \/ /\ queue[1].op = "commit" /\ Activate(s)
         /\ admission' = [admission EXCEPT ![s] = "idle"]
      \/ /\ queue[1].op = "release" /\ lease' = [lease EXCEPT ![s] = None]
         /\ UNCHANGED admission
  BY <1>1, <1>2 DEF Executed
<1>4. /\ lease \in [Sessions -> Lease \cup {None}]
      /\ admission \in [Sessions -> {"idle", "reserving", "reserved", "committing"}]
  BY <1>1 DEF UplinkTypes
<1>5. CASE queue[1].op = "reserve"
  <2>1. \/ /\ lease[s] = None
           /\ \E a \in Free : lease' = [lease EXCEPT ![s] =
                                          [state |-> "Reserved", addr |-> a]]
        \/ UNCHANGED lease
    BY <1>3, <1>5 DEF Reserve
  <2>2. admission' = [admission EXCEPT ![s] =
                        IF lease'[s] # None THEN "reserved" ELSE "idle"]
    BY <1>3, <1>5
  <2>3. UplinkTypes'
    BY <1>1, <1>4, <2>1, <2>2 DEF UplinkTypes, Lease, Free
  <2>4. OneHolder'
    BY <1>4, <2>1 DEF UplinkInv, OneHolder, Free
  <2>5. /\ \A t \in Sessions \ {s} : lease'[t] = lease[t] /\ admission'[t] = admission[t]
        /\ lease'[s] # None /\ lease'[s] # lease[s] => lease'[s].state = "Reserved"
    BY <1>4, <2>1, <2>2
  <2> QED BY <1>1, <1>2, <1>5, <2>3, <2>4, <2>5, MovesKeep
<1>6. CASE queue[1].op = "commit"
  <2>1. \/ lease[s] # None /\ lease' = [lease EXCEPT ![s] = [lease[s] EXCEPT !.state = "Active"]]
        \/ UNCHANGED lease
    BY <1>3, <1>6 DEF Activate
  <2>2. admission' = [admission EXCEPT ![s] = "idle"]
    BY <1>3, <1>6
  <2>3. /\ lease'[s] # lease[s] => /\ lease[s] # None /\ lease[s].state # "Active"
                                   /\ lease'[s].state = "Active"
        /\ lease[s] # None => lease'[s] \in Lease /\ lease'[s].addr = lease[s].addr
        /\ lease[s] = None => lease'[s] = None
    BY <1>4, <2>1 DEF Lease
  <2>4. \A t \in Sessions \ {s} : lease'[t] = lease[t] /\ admission'[t] = admission[t]
    BY <1>4, <2>1, <2>2
  <2>5. lease' \in [Sessions -> Lease \cup {None}]
    BY <1>4, <2>1, <2>3
  <2>6. UplinkTypes'
    BY <1>1, <1>4, <2>2, <2>5 DEF UplinkTypes
  <2>7. OneHolder'
    BY <2>3, <2>4 DEF UplinkInv, OneHolder
  <2> QED BY <1>1, <1>2, <1>6, <2>3, <2>4, <2>6, <2>7, MovesKeep
<1>7. CASE queue[1].op = "release"
  <2>1. lease' = [lease EXCEPT ![s] = None] /\ UNCHANGED admission
    BY <1>3, <1>7
  <2>2. UplinkTypes' /\ OneHolder'
    BY <1>1, <1>4, <2>1 DEF UplinkInv, UplinkTypes, OneHolder
  <2>3. /\ \A t \in Sessions \ {s} : lease'[t] = lease[t] /\ admission'[t] = admission[t]
        /\ lease'[s] = None /\ admission'[s] = admission[s]
    BY <1>4, <2>1
  <2> QED BY <1>1, <1>2, <1>7, <2>2, <2>3, MovesKeep
<1> QED BY <1>3, <1>5, <1>6, <1>7

\* Every step keeps the invariant.
LEMMA UplinkStep == ASSUME UplinkInv, [IngressNext]_ingress_vars PROVE UplinkInv'
<1>1. ASSUME UNCHANGED <<lease, admission, queue>> PROVE UplinkInv'
  BY <1>1
  DEF UplinkInv, UplinkTypes, OneHolder, AdmissionCalls, Admits, Validated, StaysValid,
      NoCommitAhead, ParseSource, ParseIPv4, ParseIPv6
<1>2. CASE \/ \E c \in Connections, s \in Sessions, e \in Epochs : Bind(c, s, e)
           \/ \E c \in Connections : Unbind(c)
           \/ UNCHANGED ingress_vars
  BY <1>1, <1>2 DEF Bind, Unbind, ingress_vars
<1>3. ASSUME NEW c \in Connections, NEW s \in Sessions, NEW e \in Epochs,
             NEW p \in Packets, Ingest(c, s, e, p)
      PROVE  UplinkInv'
  BY <1>3, IngestKeeps
<1>4. ASSUME NEW i \in DOMAIN queue, GiveUp(i) PROVE UplinkInv'
  BY <1>4, GiveUpKeeps
<1>5. ASSUME NEW s \in Sessions, Admit(s) \/ Cleanup(s) PROVE UplinkInv'
  BY <1>5, AdmitKeeps, CleanupKeeps
<1> QED BY <1>2, <1>3, <1>4, <1>5, RenewedKeeps, ExecutedKeeps DEF IngressNext

-----------------------------------------------------------------------------
\* The leases, the admissions and the owner's queue agree in every state, in
\* whatever order calls are submitted, executed and abandoned.
THEOREM UplinkInductive == IngressSpec => []UplinkInv
<1>1. UplinkInv /\ [IngressNext]_ingress_vars => UplinkInv'
  BY UplinkStep
<1> QED BY <1>1, UplinkInit, PTL DEF IngressSpec

\* ingest_uplink_at_time and the sealed sink: what is forwarded parsed, and
\* no other session holds its source at that moment, although the lease it was
\* validated against may have been released and its address given away while
\* the renewal was queued.
THEOREM Owned == IngressSpec => EmittedOwned
<1>1. ASSUME UplinkInv, [IngressNext]_ingress_vars, emitted' # emitted
      PROVE  /\ ParseSource(emitted'.packet)
             /\ \A t \in Sessions \ {emitted'.session} :
                  lease[t] = None \/ lease[t].addr # emitted'.packet.src
  <2>1. /\ Renewed /\ Renews(Head(queue).session) /\ Head(queue).packet # None
        /\ emitted' = ValidatedUplink(Head(queue).session, Head(queue).packet)
    BY <1>1 DEF IngressNext, ingress_vars, Ingest, GiveUp, Renewed, Executed, Admit,
                Cleanup, Bind, Unbind
  <2>2. /\ queue # <<>> /\ Head(queue) = queue[1] /\ 1 \in 1..Len(queue)
        /\ queue[1].op = "renew" /\ Head(queue) \in Call
    BY <1>1, <2>1 DEF Renewed, UplinkInv, UplinkTypes
  <2>3. StaysValid(1)
    BY <1>1, <2>2 DEF UplinkInv, Validated
  <2> DEFINE s == Head(queue).session
             p == Head(queue).packet
  <2>4. s \in Sessions /\ emitted'.session = s /\ emitted'.packet = p
    BY <2>1, <2>2 DEF Call, ValidatedUplink
  <2>5. ParseSource(p) /\ lease[s] # None /\ lease[s].addr = p.src
    BY <2>1, <2>2, <2>3 DEF StaysValid, Renews
  <2> QED BY <1>1, <2>4, <2>5 DEF UplinkInv, OneHolder
<1>2. UplinkInv /\ [IngressNext]_ingress_vars =>
        [emitted' # emitted =>
           /\ ParseSource(emitted'.packet)
           /\ \A t \in Sessions \ {emitted'.session} :
                lease[t] = None \/ lease[t].addr # emitted'.packet.src]_ingress_vars
  BY <1>1
<1> QED BY <1>2, UplinkInductive, PTL DEF IngressSpec, EmittedOwned
-----------------------------------------------------------------------------
(***************************************************************************)
(* The receive tables.  KeyInv relates, for one key, its flow, its         *)
(* tombstone and the highest identifier delivered: an open flow expects    *)
(* more than was delivered and holds nothing below what it expects; a      *)
(* tombstone forbids all that was delivered.  The lemmas are about these   *)
(* three values; an action is one of them for each key it touches.         *)
(***************************************************************************)
FlowState(f) ==
  /\ f = [class |-> f.class, next_expected |-> f.next_expected, exhausted |-> f.exhausted,
          buffer |-> f.buffer, bytes |-> f.bytes, idle |-> f.idle]
  /\ f.next_expected \in Ids /\ f.exhausted \in BOOLEAN
  /\ \A i \in Held(f) : i \in Ids /\ f.next_expected <= i

Above(f, h) == h \in Ids /\ (f.exhausted \/ h < f.next_expected)

Forbids(t, h) ==
  /\ t = [watermark |-> t.watermark, left |-> t.left] /\ t.watermark \in Ids
  /\ h \in Ids /\ h <= t.watermark

KeyInv(f, t, h) ==
  /\ f # None => t = None /\ FlowState(f) /\ Above(f, h)
  /\ f = None /\ t # None => Forbids(t, h)

ReceiveInv ==
  /\ flows = [k \in Keys |-> flows[k]] /\ tombstones = [k \in Keys |-> tombstones[k]]
  /\ high = [k \in Keys |-> high[k]]
  /\ \A k \in Keys : KeyInv(flows[k], tombstones[k], high[k])

LEMMA GreatestId ==
  ASSUME ReceiveLimits, NEW S \in SUBSET Ids, S # {}
  PROVE  Max(S) \in S /\ \A i \in S : i <= Max(S)
<1>1. \E i \in S : \A j \in S : i >= j
  BY GreatestElement DEF ReceiveLimits, Ids
<1>2. Max(S) \in S /\ \A j \in S : Max(S) >= j
  BY <1>1 DEF Max
<1>3. \A j \in S : j \in Nat
  BY DEF Ids
<1> QED BY <1>2, <1>3

LEMMA GreatestOfOne == ASSUME NEW id \in Nat PROVE Max({id}) = id
<1>1. \E i \in {id} : \A j \in {id} : i >= j
  OBVIOUS
<1> QED BY <1>1 DEF Max

\* What ages or is touched forbids as much.
LEMMA TouchKeeps ==
  ASSUME NEW f, NEW t, NEW h, NEW x, KeyInv(f, t, h), f # None
  PROVE  KeyInv([f EXCEPT !.idle = x], t, h)
<1> DEFINE g == [f EXCEPT !.idle = x]
<1>1. t = None /\ FlowState(f) /\ Above(f, h)
  BY DEF KeyInv
<1>2. g = [class |-> f.class, next_expected |-> f.next_expected, exhausted |-> f.exhausted,
           buffer |-> f.buffer, bytes |-> f.bytes, idle |-> x]
  BY <1>1 DEF FlowState
<1> HIDE DEF g
<1>3. FlowState(g)
  BY <1>1, <1>2 DEF FlowState, Held
<1>4. Above(g, h)
  BY <1>1, <1>2 DEF Above
<1>5. KeyInv(g, t, h)
  BY <1>1, <1>3, <1>4 DEF KeyInv
<1> QED BY <1>5 DEF g

LEMMA OpenKeeps ==
  ASSUME ReceiveLimits, NEW c, NEW id \in Ids
  PROVE  KeyInv(NewFlow(c, id), None, id)
<1> DEFINE f == NewFlow(c, id)
<1>1. /\ f.next_expected = (IF id = MaxId THEN MaxId ELSE id + 1)
      /\ f.exhausted = (id = MaxId) /\ Held(f) = {}
      /\ f = [class |-> f.class, next_expected |-> f.next_expected, exhausted |-> f.exhausted,
              buffer |-> f.buffer, bytes |-> f.bytes, idle |-> f.idle]
  BY DEF NewFlow, Held
<1>2. id \in Nat /\ id <= MaxId /\ MaxId \in Nat
  BY DEF ReceiveLimits, Ids
<1> HIDE DEF f
<1>3. f.next_expected \in Ids /\ f.exhausted \in BOOLEAN /\ (f.exhausted \/ id < f.next_expected)
  <2>1. CASE id = MaxId
    BY <1>1, <1>2, <2>1 DEF Ids
  <2>2. CASE id # MaxId
    BY <1>1, <1>2, <2>2 DEF Ids
  <2> QED BY <2>1, <2>2
<1>4. FlowState(f)
  BY <1>1, <1>3 DEF FlowState
<1>5. Above(f, id)
  BY <1>3 DEF Above
<1>6. KeyInv(f, None, id)
  BY <1>4, <1>5 DEF KeyInv
<1> QED BY <1>6 DEF f

\* Delivering S, when nothing below its highest member stays held.
LEMMA DeliverKeeps ==
  ASSUME ReceiveLimits, NEW f, FlowState(f), NEW S \in SUBSET Ids, S # {},
         \A i \in Held(f) \ S : Max(S) < i
  PROVE  KeyInv(Delivered(f, S), None, Max(S))
<1> DEFINE m == Max(S)
           g == Delivered(f, S)
           rest == [i \in Held(f) \ (S \cap Held(f)) |-> f.buffer[i]]
           expected == IF m = MaxId THEN MaxId ELSE m + 1
           bytes == Minus(f.bytes, Bytes(f, S \cap Held(f)))
<1>1. g = [class |-> f.class, next_expected |-> expected, exhausted |-> m = MaxId,
           buffer |-> rest, bytes |-> bytes, idle |-> 0]
  <2> DEFINE u == [f EXCEPT !.next_expected = expected, !.exhausted = m = MaxId]
  <2>1. g = [f EXCEPT !.next_expected = expected, !.exhausted = m = MaxId,
                      !.buffer = rest, !.bytes = bytes, !.idle = 0]
    BY DEF Delivered
  <2>2. f = [class |-> f.class, next_expected |-> f.next_expected, exhausted |-> f.exhausted,
             buffer |-> f.buffer, bytes |-> f.bytes, idle |-> f.idle]
    BY DEF FlowState
  <2> HIDE DEF g, rest, bytes, expected, m
  <2> QED BY <2>1, <2>2
<1>2. m \in Ids /\ m \in Nat /\ m <= MaxId /\ MaxId \in Nat
  <2>1. m \in Ids
    BY GreatestId
  <2> QED BY <2>1 DEF ReceiveLimits, Ids
<1>3. DOMAIN rest \subseteq Held(f) /\ \A i \in DOMAIN rest : i \notin S
  <2>1. DOMAIN rest = Held(f) \ (S \cap Held(f))
    OBVIOUS
  <2> QED BY <2>1
<1>13. \A i \in Held(f) \ S : m < i
  OBVIOUS
<1> HIDE DEF m, g, rest, bytes
<1>4. Held(g) = DOMAIN rest
  BY <1>1 DEF Held
<1>5. expected \in Ids /\ \A i \in Ids : m < i => expected <= i
  BY <1>2 DEF Ids
<1>6. \A i \in Held(g) : i \in Ids /\ m < i
  BY <1>3, <1>4, <1>13 DEF FlowState
<1>7. g.next_expected = expected /\ g.exhausted = (m = MaxId)
  BY <1>1
<1>8. g = [class |-> g.class, next_expected |-> g.next_expected, exhausted |-> g.exhausted,
           buffer |-> g.buffer, bytes |-> g.bytes, idle |-> g.idle]
  BY <1>1
<1>9. FlowState(g)
  BY <1>5, <1>6, <1>7, <1>8 DEF FlowState
<1>10. Above(g, m)
  <2>1. CASE m = MaxId
    BY <1>2, <1>7, <2>1 DEF Above
  <2>2. CASE m # MaxId
    <3>1. m < expected
      BY <1>2, <2>2
    <3> QED BY <1>2, <1>7, <3>1 DEF Above
  <2> QED BY <2>1, <2>2
<1>11. KeyInv(g, None, m)
  BY <1>9, <1>10 DEF KeyInv
<1> QED BY <1>11 DEF g, m

\* What follows a chain comes after all of it.
LEMMA AfterChain ==
  ASSUME ReceiveLimits, NEW f, FlowState(f), NEW id \in Nat,
         NEW i \in Held(f) \ Chain(f, id), id <= i, NEW m \in Chain(f, id)
  PROVE  m < i
<1>1. i \in Nat /\ m \in Nat /\ m \in Held(f) /\ id <= m
  BY DEF FlowState, Chain, Ids
<1>2. PICK j \in id..i : j \notin Held(f)
  BY <1>1 DEF Chain
<1>3. \A n \in id..m : n \in Held(f)
  BY DEF Chain
<1> QED BY <1>1, <1>2, <1>3

\* The packet that is expected, with the chain behind it.
LEMMA NextKeeps ==
  ASSUME ReceiveLimits, NEW f, FlowState(f), NEW S,
         S = {f.next_expected} \cup
               (IF f.next_expected = MaxId THEN {} ELSE Chain(f, f.next_expected + 1))
  PROVE  /\ KeyInv(Delivered(f, S), None, Max(S))
         /\ S # {} /\ \A i \in S : i \in Ids /\ f.next_expected <= i
<1> DEFINE id == f.next_expected
<1>1. id \in Ids /\ id \in Nat /\ id <= MaxId /\ MaxId \in Nat
  BY DEF FlowState, ReceiveLimits, Ids
<1>2. \A i \in Held(f) : i \in Ids /\ i \in Nat /\ id <= i /\ i <= MaxId
  BY <1>1 DEF FlowState, Ids
<1>3. Chain(f, id + 1) \subseteq Held(f)
  BY DEF Chain
<1>4. S \in SUBSET Ids /\ id \in S /\ \A i \in S : i \in Ids /\ id <= i
  BY <1>1, <1>2, <1>3
<1>5. Max(S) \in S
  BY <1>4, GreatestId
<1>6. ASSUME NEW i \in Held(f) \ S PROVE Max(S) < i
  <2>1. i # id /\ id < i /\ i \in Nat
    BY <1>1, <1>2, <1>4, <1>6
  <2>2. id # MaxId /\ i \notin Chain(f, id + 1)
    BY <1>1, <1>2, <1>6, <2>1
  <2>3. CASE Max(S) = id
    BY <2>1, <2>3
  <2>4. CASE Max(S) \in Chain(f, id + 1)
    BY <1>1, <1>6, <2>1, <2>2, <2>4, AfterChain
  <2> QED BY <1>5, <2>2, <2>3, <2>4
<1>7. KeyInv(Delivered(f, S), None, Max(S))
  BY <1>4, <1>6, DeliverKeeps
<1> QED BY <1>4, <1>7

\* The smallest held packet, with the chain behind it.
LEMMA HeadKeeps ==
  ASSUME ReceiveLimits, NEW f, FlowState(f), Held(f) # {},
         NEW S, S = Chain(f, Min(Held(f)))
  PROVE  /\ KeyInv(Delivered(f, S), None, Max(S))
         /\ S # {} /\ S \subseteq Held(f)
<1> DEFINE id == Min(Held(f))
<1>1. Held(f) \subseteq Ids /\ Held(f) \subseteq Nat
  BY DEF FlowState, Ids
<1>2. \E i \in Held(f) : \A j \in Held(f) : i <= j
  BY <1>1, LeastElement
<1>3. id \in Held(f) /\ \A j \in Held(f) : id <= j
  BY <1>2 DEF Min
<1> HIDE DEF id
<1>4. S = Chain(f, id)
  BY DEF id
<1>5. id \in Nat /\ \A j \in id..id : j = id
  BY <1>1, <1>3
<1>6. id \in S /\ S \subseteq Held(f)
  BY <1>3, <1>4, <1>5 DEF Chain
<1>7. Max(S) \in S
  BY <1>1, <1>6, GreatestId
<1>8. \A i \in Held(f) \ S : Max(S) < i
  BY <1>3, <1>4, <1>5, <1>7, AfterChain
<1>9. KeyInv(Delivered(f, S), None, Max(S))
  BY <1>1, <1>6, <1>8, DeliverKeeps
<1> QED BY <1>6, <1>9

\* Everything that waited long enough.
LEMMA OverdueKeeps ==
  ASSUME ReceiveLimits, NEW f, FlowState(f)
  PROVE  /\ Overdue(f) # {} => KeyInv(Delivered(f, Overdue(f)), None, Max(Overdue(f)))
         /\ Overdue(f) \subseteq Held(f)
         /\ Overdue(f) # {} => ~f.exhausted
<1> DEFINE S == Overdue(f)
<1>1. Held(f) \subseteq Ids /\ Held(f) \subseteq Nat
  BY DEF FlowState, Ids
<1>2. S \subseteq Held(f) /\ (S # {} => ~f.exhausted)
  BY DEF Overdue, Stuck
<1>3. ASSUME S # {} PROVE KeyInv(Delivered(f, S), None, Max(S))
  <2>1. Max(S) \in S
    BY <1>1, <1>2, <1>3, GreatestId
  <2>2. ASSUME NEW i \in Held(f) \ S PROVE Max(S) < i
    <3>1. PICK h \in Held(f) :
            h <= i /\ h - 1 \notin Held(f) /\ ~(f.buffer[h].age >= Deadline[f.class])
      BY <1>2, <1>3, <2>2 DEF Overdue
    <3>2. ~(h <= Max(S))
      BY <1>2, <1>3, <2>1, <3>1 DEF Overdue
    <3>3. h \in Nat /\ i \in Nat /\ Max(S) \in Nat
      BY <1>1, <1>2, <2>1
    <3> QED BY <3>1, <3>2, <3>3
  <2> QED BY <1>1, <1>2, <1>3, <2>2, DeliverKeeps
<1> QED BY <1>2, <1>3

\* A flow with one more packet ahead of what it expects.
WithBuffer(f, b, bytes) == [f EXCEPT !.buffer = b, !.bytes = bytes, !.idle = 0]

LEMMA BufferKeeps ==
  ASSUME ReceiveLimits, NEW f, NEW t, NEW h, f # None, KeyInv(f, t, h),
         NEW id \in Ids, id > f.next_expected, NEW b, NEW bytes,
         DOMAIN b = Held(f) \cup {id}
  PROVE  /\ FlowState(WithBuffer(f, b, bytes)) /\ KeyInv(WithBuffer(f, b, bytes), t, h)
         /\ WithBuffer(f, b, bytes).next_expected = f.next_expected
<1> DEFINE g == WithBuffer(f, b, bytes)
<1>1. t = None /\ FlowState(f) /\ Above(f, h)
  BY DEF KeyInv
<1>2. g = [class |-> f.class, next_expected |-> f.next_expected, exhausted |-> f.exhausted,
           buffer |-> b, bytes |-> bytes, idle |-> 0]
  <2>1. g = [f EXCEPT !.buffer = b, !.bytes = bytes, !.idle = 0]
    BY DEF WithBuffer
  <2>2. f = [class |-> f.class, next_expected |-> f.next_expected, exhausted |-> f.exhausted,
             buffer |-> f.buffer, bytes |-> f.bytes, idle |-> f.idle]
    BY <1>1 DEF FlowState
  <2> HIDE DEF g
  <2> QED BY <2>1, <2>2
<1> HIDE DEF g
<1>3. Held(g) = Held(f) \cup {id}
  BY <1>2 DEF Held
<1>4. g.next_expected = f.next_expected /\ g.exhausted = f.exhausted
      /\ g = [class |-> g.class, next_expected |-> g.next_expected, exhausted |-> g.exhausted,
              buffer |-> g.buffer, bytes |-> g.bytes, idle |-> g.idle]
  BY <1>2
<1>5. f.next_expected \in Nat /\ id \in Nat
  BY <1>1 DEF FlowState, Ids
<1>6. FlowState(g)
  BY <1>1, <1>3, <1>4, <1>5 DEF FlowState
<1>7. Above(g, h)
  BY <1>1, <1>4 DEF Above
<1>8. KeyInv(g, t, h)
  BY <1>1, <1>6, <1>7 DEF KeyInv
<1> QED BY <1>4, <1>6, <1>8 DEF g

\* The tombstone of a flow forbids everything the flow delivered.
LEMMA WatermarkForbids ==
  ASSUME ReceiveLimits, NEW f, NEW h, FlowState(f), Above(f, h), NEW left
  PROVE  Forbids([watermark |-> Watermark(f), left |-> left], h)
<1>1. h \in Ids /\ h \in Nat /\ h <= MaxId /\ MaxId \in Nat /\ MaxId \in Ids
  BY DEF Above, Ids, ReceiveLimits
<1>2. Watermark(f) \in Ids /\ h <= Watermark(f)
  <2>1. CASE f.exhausted
    BY <1>1, <2>1 DEF Watermark
  <2>2. CASE ~f.exhausted
    <3> DEFINE e == Minus(f.next_expected, 1)
               S == Held(f) \cup {e}
    <3>1. f.next_expected \in Nat /\ f.next_expected <= MaxId /\ h < f.next_expected
      BY <1>1, <2>2 DEF FlowState, Above, Ids
    <3>2. e \in Ids /\ h <= e /\ e \in Nat
      BY <1>1, <3>1 DEF Minus, Ids
    <3> HIDE DEF e
    <3>3. S \in SUBSET Ids /\ e \in S
      BY <3>2 DEF FlowState
    <3>4. Max(S) \in S /\ e <= Max(S)
      BY <3>3, GreatestId
    <3>5. Max(S) \in Ids /\ Max(S) \in Nat
      BY <3>3, <3>4 DEF Ids
    <3>6. Watermark(f) = Max(S)
      BY <2>2 DEF Watermark, e
    <3> QED BY <1>1, <3>2, <3>4, <3>5, <3>6
  <2> QED BY <2>1, <2>2
<1> QED BY <1>1, <1>2 DEF Forbids

\* Insertion touches the buried key and takes the place of at most one other.
Inserted(R, T, old, mark) ==
  /\ R = [k \in Keys |-> R[k]]
  /\ R[old] = [watermark |-> mark, left |-> TombstoneTTL]
  /\ \A k \in Keys \ {old} : R[k] \in {None, T[k]}

LEMMA InsertEntries ==
  ASSUME NEW T, NEW old \in Keys, NEW mark
  PROVE  Inserted(InsertTombstone(T, old, mark), T, old, mark)
<1> DEFINE R == InsertTombstone(T, old, mark)
           P == PurgeExpired(T)
           Q == IF Cardinality(Known(P)) >= MaxTombstones
                THEN [P EXCEPT ![Soonest(P)] = None] ELSE P
           stone == [watermark |-> mark, left |-> TombstoneTTL]
<1>1. DOMAIN P = Keys /\ P = [k \in Keys |-> P[k]] /\ \A k \in Keys : P[k] \in {None, T[k]}
  BY DEF PurgeExpired
<1>2. R = [Q EXCEPT ![old] = stone]
  BY DEF InsertTombstone
<1> HIDE DEF P, R, stone
<1>3. DOMAIN Q = Keys /\ Q = [k \in Keys |-> Q[k]] /\ \A k \in Keys : Q[k] \in {None, P[k]}
  <2>1. CASE Cardinality(Known(P)) >= MaxTombstones
    BY <1>1, <2>1
  <2>2. CASE ~(Cardinality(Known(P)) >= MaxTombstones)
    BY <1>1, <2>2
  <2> QED BY <2>1, <2>2
<1> HIDE DEF Q
<1>4. R = [k \in Keys |-> R[k]] /\ R[old] = stone /\ \A k \in Keys \ {old} : R[k] = Q[k]
  BY <1>2, <1>3
<1>5. Inserted(R, T, old, mark)
  BY <1>1, <1>3, <1>4 DEF Inserted, stone
<1> QED BY <1>5 DEF R

\* So does the burial of all idle flows, for every buried key.
LEMMA BuryEntries ==
  ASSUME NEW T, NEW mark, NEW R \in Bury(PurgeExpired(T), mark)
  PROVE  /\ R = [k \in Keys |-> R[k]]
         /\ \A k \in Keys \ DOMAIN mark : R[k] \in {None, T[k]}
         /\ \A k \in Keys \cap DOMAIN mark :
              R[k] \in {None, [watermark |-> mark[k], left |-> TombstoneTTL]}
<1> DEFINE P == PurgeExpired(T)
           all == [k \in Keys |-> IF k \in DOMAIN mark
                     THEN [watermark |-> mark[k], left |-> TombstoneTTL] ELSE P[k]]
           later(k, final) == {j \in Known(all) \ {final} : Sooner(all, k, j)}
           stays(k, final) ==
             k = final \/ (all[k] # None /\ Cardinality(later(k, final)) + 1 < MaxTombstones)
           left(final) == [k \in Keys |-> IF stays(k, final) THEN all[k] ELSE None]
<1>1. P = [k \in Keys |-> P[k]] /\ \A k \in Keys : P[k] \in {None, T[k]}
  BY DEF PurgeExpired
<1>2. R \in (IF DOMAIN mark = {} THEN {P} ELSE {left(final) : final \in DOMAIN mark})
  BY DEF Bury
<1> HIDE DEF P
<1>3. CASE DOMAIN mark = {}
  BY <1>1, <1>2, <1>3
<1>4. CASE DOMAIN mark # {}
  <2>1. PICK final \in DOMAIN mark : R = left(final)
    BY <1>2, <1>4
  <2> HIDE DEF stays
  <2>2. R = [k \in Keys |-> R[k]] /\ \A k \in Keys : R[k] \in {None, all[k]}
    BY <2>1
  <2>3. /\ \A k \in Keys \ DOMAIN mark : all[k] = P[k]
        /\ \A k \in Keys \cap DOMAIN mark :
             all[k] = [watermark |-> mark[k], left |-> TombstoneTTL]
    OBVIOUS
  <2> HIDE DEF all
  <2> QED BY <1>1, <2>2, <2>3
<1> QED BY <1>3, <1>4

-----------------------------------------------------------------------------
\* The step, key by key.

Rises == \A k \in Keys : \A i \in batch'[k] : Remembered(k) => i > high[k]

\* A forgotten or purged tombstone leaves nothing to say of a flow or of no flow.
LEMMA ForgetKeeps ==
  ASSUME NEW f, NEW t, NEW u \in {None, t}, NEW h, KeyInv(f, t, h)
  PROVE  KeyInv(f, u, h)
BY DEF KeyInv

LEMMA KeysKeep ==
  ASSUME flows' = [k \in Keys |-> flows'[k]], tombstones' = [k \in Keys |-> tombstones'[k]],
         Delivers,
         \A k \in Keys : KeyInv(flows'[k], tombstones'[k],
                                IF batch'[k] # {} THEN Max(batch'[k]) ELSE high[k])
  PROVE  ReceiveInv'
<1>1. high' = [k \in Keys |-> high'[k]]
  BY DEF Delivers
<1>2. ASSUME NEW k \in Keys PROVE KeyInv(flows'[k], tombstones'[k], high'[k])
  <2>1. CASE flows'[k] = None /\ tombstones'[k] = None
    BY <2>1 DEF KeyInv
  <2>2. CASE ~(flows'[k] = None /\ tombstones'[k] = None)
    <3>1. high'[k] = IF batch'[k] # {} THEN Max(batch'[k]) ELSE high[k]
      BY <2>2 DEF Delivers
    <3> QED BY <3>1
  <2> QED BY <2>1, <2>2
<1>3. (\A k \in Keys : KeyInv(flows[k], tombstones[k], high[k]))'
  BY <1>2 DEF KeyInv, FlowState, Above, Forbids, Held, Ids
<1> QED BY <1>1, <1>3 DEF ReceiveInv

\* A call that delivers nothing.
LEMMA QuietKeeps ==
  ASSUME flows' = [k \in Keys |-> flows'[k]], tombstones' = [k \in Keys |-> tombstones'[k]],
         Quiet, Delivers,
         \A k \in Keys : KeyInv(flows'[k], tombstones'[k], high[k])
  PROVE  ReceiveInv' /\ Rises
<1>1. \A k \in Keys : batch'[k] = {}
  BY DEF Quiet
<1>2. ReceiveInv'
  BY <1>1, KeysKeep
<1> QED BY <1>1, <1>2 DEF Rises

\* A call for one key that delivers S.
LEMMA CallKeeps ==
  ASSUME NEW k \in Keys, NEW S, S # {}, Outcome(k, S), Delivers,
         flows' = [j \in Keys |-> flows'[j]], tombstones' = [j \in Keys |-> tombstones'[j]],
         \A j \in Keys \ {k} : KeyInv(flows'[j], tombstones'[j], high[j]),
         KeyInv(flows'[k], tombstones'[k], Max(S)),
         \A i \in S : Remembered(k) => i > high[k]
  PROVE  ReceiveInv' /\ Rises
<1>1. batch'[k] = S /\ \A j \in Keys \ {k} : batch'[j] = {}
  BY DEF Outcome
<1>2. \A j \in Keys : KeyInv(flows'[j], tombstones'[j],
                             IF batch'[j] # {} THEN Max(batch'[j]) ELSE high[j])
  BY <1>1
<1>3. ReceiveInv'
  BY <1>2, KeysKeep
<1> QED BY <1>1, <1>3 DEF Rises

\* No change of the tables and no delivery, whatever the call returned.
LEMMA RestKeeps ==
  ASSUME ReceiveInv, UNCHANGED <<flows, tombstones, high>>, \A k \in Keys : batch'[k] = {}
  PROVE  ReceiveInv' /\ Rises
BY DEF ReceiveInv, KeyInv, FlowState, Above, Forbids, Held, Ids, Rises

LEMMA RefusedStep ==
  ASSUME ReceiveInv, NEW k \in Keys, flows[k] # None, Refused(k), Delivers
  PROVE  ReceiveInv' /\ Rises
<1>1. /\ flows' = [flows EXCEPT ![k] = [flows[k] EXCEPT !.idle = 0]]
      /\ Quiet /\ tombstones' = tombstones
  BY DEF Refused, Touched
<1>2. /\ flows = [j \in Keys |-> flows[j]] /\ tombstones = [j \in Keys |-> tombstones[j]]
      /\ \A j \in Keys : KeyInv(flows[j], tombstones[j], high[j])
  BY DEF ReceiveInv
<1>3. KeyInv([flows[k] EXCEPT !.idle = 0], tombstones[k], high[k])
  BY <1>2, TouchKeeps
<1>4. flows' = [j \in Keys |-> flows'[j]] /\ tombstones' = [j \in Keys |-> tombstones'[j]]
  BY <1>1, <1>2
<1>5. \A j \in Keys : KeyInv(flows'[j], tombstones'[j], high[j])
  BY <1>1, <1>2, <1>3
<1> QED BY <1>1, <1>4, <1>5, QuietKeeps

\* What a live flow delivers is above what it delivered before.
LEMMA DeliverStep ==
  ASSUME ReceiveInv, NEW k \in Keys, flows[k] # None, ~flows[k].exhausted,
         NEW f, NEW S, Deliver(k, f, S), Delivers,
         KeyInv(Delivered(f, S), None, Max(S)),
         S # {}, \A i \in S : i \in Ids /\ flows[k].next_expected <= i
  PROVE  ReceiveInv' /\ Rises
<1>1. /\ flows' = [flows EXCEPT ![k] = Delivered(f, S)]
      /\ Outcome(k, S) /\ tombstones' = tombstones
  BY DEF Deliver
<1>2. /\ flows = [j \in Keys |-> flows[j]] /\ tombstones = [j \in Keys |-> tombstones[j]]
      /\ \A j \in Keys : KeyInv(flows[j], tombstones[j], high[j])
  BY DEF ReceiveInv
<1>3. tombstones[k] = None /\ FlowState(flows[k]) /\ Above(flows[k], high[k])
  BY <1>2 DEF KeyInv
<1>4. flows' = [j \in Keys |-> flows'[j]] /\ tombstones' = [j \in Keys |-> tombstones'[j]]
  BY <1>1, <1>2
<1>5. \A j \in Keys \ {k} : KeyInv(flows'[j], tombstones'[j], high[j])
  BY <1>1, <1>2
<1>6. KeyInv(flows'[k], tombstones'[k], Max(S))
  BY <1>1, <1>2, <1>3
<1>7. ASSUME NEW i \in S PROVE i > high[k]
  <2>1. high[k] \in Nat /\ flows[k].next_expected \in Nat /\ i \in Nat
    BY <1>3 DEF Above, FlowState, Ids
  <2>2. high[k] < flows[k].next_expected
    BY <1>3 DEF Above
  <2> QED BY <2>1, <2>2
<1> QED BY <1>1, <1>4, <1>5, <1>6, <1>7, CallKeeps

LEMMA OpenStep ==
  ASSUME ReceiveLimits, ReceiveInv, NEW k \in Keys, NEW c, NEW id \in Ids,
         Open(k, c, id), Delivers
  PROVE  ReceiveInv' /\ Rises
<1>1. /\ flows = [j \in Keys |-> flows[j]] /\ tombstones = [j \in Keys |-> tombstones[j]]
      /\ \A j \in Keys : KeyInv(flows[j], tombstones[j], high[j])
  BY DEF ReceiveInv
<1>2. flows[k] = None
  BY DEF Open
<1>3. KeyInv(NewFlow(c, id), None, Max({id})) /\ id \in Nat
  <2>1. id \in Nat
    BY DEF Ids
  <2> QED BY <2>1, OpenKeeps, GreatestOfOne
<1>4. ASSUME ~Buried(tombstones, k, id), Remembered(k) PROVE id > high[k]
  <2>1. Forbids(tombstones[k], high[k]) /\ ~(id <= tombstones[k].watermark)
    BY <1>1, <1>2, <1>4 DEF Remembered, KeyInv, Buried
  <2>2. high[k] \in Nat /\ tombstones[k].watermark \in Nat /\ high[k] <= tombstones[k].watermark
    BY <2>1 DEF Forbids, Ids
  <2> QED BY <1>3, <2>1, <2>2
<1>5. CASE Quiet /\ UNCHANGED reorder
  <2>1. flows' = flows /\ tombstones' = tombstones
    BY <1>5 DEF reorder
  <2> QED BY <1>1, <1>5, <2>1, QuietKeeps
<1> DEFINE T == [tombstones EXCEPT ![k] = None]
<1>6. DOMAIN T = Keys /\ T[k] = None /\ \A j \in Keys \ {k} : T[j] = tombstones[j]
  BY <1>1
<1>7. CASE /\ ~Buried(tombstones, k, id) /\ flows' = [flows EXCEPT ![k] = NewFlow(c, id)]
           /\ tombstones' = T /\ Outcome(k, {id})
  <2>1. flows' = [j \in Keys |-> flows'[j]] /\ tombstones' = [j \in Keys |-> tombstones'[j]]
    BY <1>1, <1>7
  <2>2. \A j \in Keys \ {k} : flows'[j] = flows[j] /\ tombstones'[j] = tombstones[j]
    BY <1>1, <1>6, <1>7
  <2>3. flows'[k] = NewFlow(c, id) /\ tombstones'[k] = None
    BY <1>1, <1>6, <1>7
  <2>4. \A j \in Keys \ {k} : KeyInv(flows'[j], tombstones'[j], high[j])
    BY <1>1, <2>2
  <2>5. KeyInv(flows'[k], tombstones'[k], Max({id}))
    BY <1>3, <2>3
  <2>6. {id} # {} /\ \A i \in {id} : Remembered(k) => i > high[k]
    BY <1>4, <1>7
  <2>7. Outcome(k, {id})
    BY <1>7
  <2> HIDE DEF T
  <2> QED BY <2>1, <2>4, <2>5, <2>6, <2>7, CallKeeps
<1>8. ASSUME ~Buried(tombstones, k, id), Outcome(k, {id}), NEW old \in Oldest(flows),
             flows' = [flows EXCEPT ![old] = None, ![k] = NewFlow(c, id)],
             tombstones' = InsertTombstone(T, old, Watermark(flows[old]))
      PROVE  ReceiveInv' /\ Rises
  <2> DEFINE stone == [watermark |-> Watermark(flows[old]), left |-> TombstoneTTL]
  <2>1. old \in Keys /\ flows[old] # None /\ old # k
    BY <1>2 DEF Oldest, Known
  <2>2. /\ flows' = [j \in Keys |-> flows'[j]]
        /\ flows'[old] = None /\ flows'[k] = NewFlow(c, id)
        /\ \A j \in Keys \ {k, old} : flows'[j] = flows[j]
    BY <1>1, <1>8, <2>1
  <2> HIDE DEF T
  <2>3. /\ tombstones' = [j \in Keys |-> tombstones'[j]] /\ tombstones'[old] = stone
        /\ \A j \in Keys \ {old} : tombstones'[j] \in {None, T[j]}
    <3>1. Inserted(InsertTombstone(T, old, Watermark(flows[old])), T, old,
                   Watermark(flows[old]))
      BY <2>1, InsertEntries
    <3>2. Inserted(tombstones', T, old, Watermark(flows[old]))
      BY <1>8, <3>1
    <3> QED BY <3>2 DEF Inserted
  <2>4. Forbids(stone, high[old])
    BY <1>1, <2>1, WatermarkForbids DEF KeyInv
  <2> HIDE DEF stone
  <2>5. KeyInv(flows'[old], tombstones'[old], high[old])
    BY <2>2, <2>3, <2>4 DEF KeyInv
  <2>6. ASSUME NEW j \in Keys \ {k, old} PROVE KeyInv(flows'[j], tombstones'[j], high[j])
    <3>1. flows'[j] = flows[j] /\ tombstones'[j] \in {None, tombstones[j]}
      BY <1>6, <2>2, <2>3
    <3> QED BY <1>1, <3>1, ForgetKeeps
  <2>7. \A j \in Keys \ {k} : KeyInv(flows'[j], tombstones'[j], high[j])
    BY <2>5, <2>6
  <2>8. tombstones'[k] = None
    BY <1>6, <2>1, <2>3
  <2>9. KeyInv(flows'[k], tombstones'[k], Max({id}))
    BY <1>3, <2>2, <2>8
  <2>10. {id} # {} /\ \A i \in {id} : Remembered(k) => i > high[k]
    BY <1>4, <1>8
  <2>11. Outcome(k, {id})
    BY <1>8
  <2>12. tombstones' = [j \in Keys |-> tombstones'[j]] /\ flows' = [j \in Keys |-> flows'[j]]
    BY <2>2, <2>3
  <2> QED BY <2>7, <2>9, <2>10, <2>11, <2>12, CallKeeps
<1> HIDE DEF T
<1> QED BY <1>5, <1>7, <1>8 DEF Open, T

LEMMA InSequenceStep ==
  ASSUME ReceiveLimits, ReceiveInv, NEW k \in Keys, flows[k] # None, ~flows[k].exhausted,
         NEW id \in Ids, InSequence(k, id), Delivers
  PROVE  ReceiveInv' /\ Rises
<1> DEFINE f == flows[k]
           S == {id} \cup (IF id = MaxId THEN {} ELSE Chain(f, id + 1))
<1>1. id = f.next_expected /\ Deliver(k, f, S)
  BY DEF InSequence
<1>2. FlowState(f)
  BY DEF ReceiveInv, KeyInv
<1>3. S = {f.next_expected} \cup
            (IF f.next_expected = MaxId THEN {} ELSE Chain(f, f.next_expected + 1))
  BY <1>1
<1> HIDE DEF S
<1>4. /\ KeyInv(Delivered(f, S), None, Max(S))
      /\ S # {} /\ \A i \in S : i \in Ids /\ f.next_expected <= i
  BY <1>2, <1>3, NextKeeps
<1> QED BY <1>1, <1>4, DeliverStep

LEMMA BufferStep ==
  ASSUME ReceiveLimits, ReceiveInv, NEW k \in Keys, flows[k] # None, ~flows[k].exhausted,
         NEW id \in Ids, NEW len, Buffer(k, id, len), Delivers
  PROVE  ReceiveInv' /\ Rises
<1> DEFINE b == [i \in Held(flows[k]) \cup {id} |->
                   IF i = id THEN [len |-> len, age |-> 0] ELSE flows[k].buffer[i]]
           f == [flows[k] EXCEPT !.buffer = b, !.bytes = @ + len, !.idle = 0]
           S == Chain(f, Min(Held(f)))
<1>1. /\ id > flows[k].next_expected
      /\ \/ HeadExpired(f) /\ Deliver(k, f, S)
         \/ flows' = [flows EXCEPT ![k] = f] /\ Quiet /\ UNCHANGED tombstones
  BY DEF Buffer
<1>2. /\ flows = [j \in Keys |-> flows[j]] /\ tombstones = [j \in Keys |-> tombstones[j]]
      /\ \A j \in Keys : KeyInv(flows[j], tombstones[j], high[j])
  BY DEF ReceiveInv
<1>3. FlowState(f) /\ KeyInv(f, tombstones[k], high[k])
      /\ f.next_expected = flows[k].next_expected
  <2>1. DOMAIN b = Held(flows[k]) \cup {id}
    OBVIOUS
  <2>2. f = WithBuffer(flows[k], b, flows[k].bytes + len)
    BY DEF WithBuffer
  <2> HIDE DEF b, f
  <2>3. KeyInv(flows[k], tombstones[k], high[k]) /\ id > flows[k].next_expected
    BY <1>1, <1>2
  <2> QED BY <2>1, <2>2, <2>3, BufferKeeps
<1> HIDE DEF f
<1>4. CASE HeadExpired(f) /\ Deliver(k, f, S)
  <2>1. Held(f) # {}
    BY <1>4 DEF HeadExpired
  <2> HIDE DEF S
  <2>2. /\ KeyInv(Delivered(f, S), None, Max(S))
        /\ S # {} /\ S \subseteq Held(f)
    BY <1>3, <2>1, HeadKeeps DEF S
  <2>3. \A i \in S : i \in Ids /\ flows[k].next_expected <= i
    BY <1>3, <2>2 DEF FlowState
  <2> QED BY <1>4, <2>2, <2>3, DeliverStep
<1>5. CASE flows' = [flows EXCEPT ![k] = f] /\ Quiet /\ UNCHANGED tombstones
  <2>1. flows' = [j \in Keys |-> flows'[j]] /\ tombstones' = [j \in Keys |-> tombstones'[j]]
    BY <1>2, <1>5
  <2>2. \A j \in Keys : KeyInv(flows'[j], tombstones'[j], high[j])
    BY <1>2, <1>3, <1>5
  <2> QED BY <1>5, <2>1, <2>2, QuietKeeps
<1> QED BY <1>1, <1>4, <1>5

LEMMA ReceiveStep ==
  ASSUME ReceiveLimits, ReceiveInv, NEW k \in Keys, NEW c, NEW id \in Ids, NEW len,
         Receive(k, c, id, len), Delivers
  PROVE  ReceiveInv' /\ Rises
<1>1. CASE Quiet /\ UNCHANGED reorder
  <2>1. flows' = flows /\ tombstones' = tombstones
    BY <1>1 DEF reorder
  <2>2. /\ flows' = [j \in Keys |-> flows'[j]] /\ tombstones' = [j \in Keys |-> tombstones'[j]]
        /\ \A j \in Keys : KeyInv(flows'[j], tombstones'[j], high[j])
    BY <2>1 DEF ReceiveInv
  <2> QED BY <1>1, <2>2, QuietKeeps
<1>2. CASE Open(k, c, id)
  BY <1>2, OpenStep
<1>3. CASE flows[k] # None /\ Refused(k)
  BY <1>3, RefusedStep
<1>4. CASE flows[k] # None /\ ~flows[k].exhausted /\ InSequence(k, id)
  BY <1>4, InSequenceStep
<1>5. CASE flows[k] # None /\ ~flows[k].exhausted /\ Buffer(k, id, len)
  BY <1>5, BufferStep
<1> QED BY <1>1, <1>2, <1>3, <1>4, <1>5 DEF Receive

\* Expiry: the idle flows are buried, the others deliver what is overdue.
LEMMA ExpireStep ==
  ASSUME ReceiveLimits, ReceiveInv, Expire, Delivers
  PROVE  ReceiveInv' /\ Rises
<1> DEFINE idle == {k \in Known(flows) : flows[k].idle >= FlowIdleTTL}
           kept == Known(flows) \ idle
           out(k) == IF k \in kept THEN Overdue(flows[k]) ELSE {}
           mark == [k \in idle |-> Watermark(flows[k])]
<1>1. /\ flows = [j \in Keys |-> flows[j]] /\ tombstones = [j \in Keys |-> tombstones[j]]
      /\ \A j \in Keys : KeyInv(flows[j], tombstones[j], high[j])
  BY DEF ReceiveInv
<1>2. /\ tombstones' \in Bury(PurgeExpired(tombstones), mark)
      /\ flows' = [k \in Keys |->
           IF k \notin kept THEN None
           ELSE IF out(k) = {} THEN flows[k] ELSE Delivered(flows[k], out(k))]
      /\ batch' = [k \in Keys |-> out(k)]
  BY DEF Expire
<1>3. /\ DOMAIN mark = idle /\ idle \subseteq Keys
      /\ \A k \in idle : mark[k] = Watermark(flows[k]) /\ flows[k] # None
  BY DEF Known
<1>4. \A k \in Keys \ idle : k \in kept <=> flows[k] # None
  BY DEF Known
<1> HIDE DEF mark, idle
<1>5. /\ tombstones' = [k \in Keys |-> tombstones'[k]]
      /\ \A k \in Keys \ idle : tombstones'[k] \in {None, tombstones[k]}
      /\ \A k \in idle :
           tombstones'[k] \in {None, [watermark |-> mark[k], left |-> TombstoneTTL]}
  BY <1>2, <1>3, BuryEntries
<1>6. flows' = [k \in Keys |-> flows'[k]]
  BY <1>2
<1>7. ASSUME NEW k \in Keys
      PROVE  /\ KeyInv(flows'[k], tombstones'[k],
                       IF batch'[k] # {} THEN Max(batch'[k]) ELSE high[k])
             /\ \A i \in batch'[k] : i > high[k]
  <2>1. CASE k \in idle
    <3>1. flows'[k] = None /\ batch'[k] = {}
      BY <1>2, <2>1
    <3>2. Forbids([watermark |-> mark[k], left |-> TombstoneTTL], high[k])
      BY <1>1, <1>3, <2>1, WatermarkForbids DEF KeyInv
    <3>3. KeyInv(flows'[k], tombstones'[k], high[k])
      BY <1>5, <2>1, <3>1, <3>2 DEF KeyInv
    <3> QED BY <3>1, <3>3
  <2>2. CASE k \notin idle /\ flows[k] = None
    <3>1. flows'[k] = None /\ batch'[k] = {} /\ tombstones'[k] \in {None, tombstones[k]}
      BY <1>2, <1>4, <1>5, <2>2
    <3>2. KeyInv(flows'[k], tombstones'[k], high[k])
      BY <1>1, <2>2, <3>1, ForgetKeeps
    <3> QED BY <3>1, <3>2
  <2>3. CASE k \notin idle /\ flows[k] # None
    <3> DEFINE S == Overdue(flows[k])
    <3>1. batch'[k] = S /\ flows'[k] = IF S = {} THEN flows[k] ELSE Delivered(flows[k], S)
      BY <1>2, <1>4, <2>3
    <3>2. FlowState(flows[k]) /\ Above(flows[k], high[k]) /\ tombstones'[k] = None
      BY <1>1, <1>5, <2>3 DEF KeyInv
    <3>3. /\ S # {} => KeyInv(Delivered(flows[k], S), None, Max(S)) /\ ~flows[k].exhausted
          /\ S \subseteq Held(flows[k])
      BY <3>2, OverdueKeeps
    <3>4. ASSUME NEW i \in S PROVE i > high[k]
      <4>1. /\ high[k] \in Nat /\ i \in Nat /\ flows[k].next_expected \in Nat
            /\ flows[k].next_expected <= i
        BY <3>2, <3>3 DEF Above, FlowState, Ids
      <4>2. high[k] < flows[k].next_expected
        BY <3>2, <3>3 DEF Above
      <4> QED BY <4>1, <4>2
    <3> HIDE DEF S
    <3>5. CASE S = {}
      <4>1. KeyInv(flows'[k], tombstones'[k], high[k])
        BY <1>1, <2>3, <3>1, <3>2, <3>5 DEF KeyInv
      <4> QED BY <3>1, <3>5, <4>1
    <3>6. CASE S # {}
      <4>1. KeyInv(flows'[k], tombstones'[k], Max(S))
        BY <3>1, <3>2, <3>3, <3>6
      <4> QED BY <3>1, <3>4, <3>6, <4>1
    <3> QED BY <3>5, <3>6
  <2> QED BY <2>1, <2>2, <2>3
<1>8. ReceiveInv'
  BY <1>5, <1>6, <1>7, KeysKeep
<1> QED BY <1>7, <1>8 DEF Rises

\* Time passes: packets and flows grow older, tombstones nearer to their end.
LEMMA TickStep == ASSUME ReceiveInv, Tick PROVE ReceiveInv' /\ Rises
<1>1. /\ flows = [j \in Keys |-> flows[j]] /\ tombstones = [j \in Keys |-> tombstones[j]]
      /\ high = [j \in Keys |-> high[j]]
      /\ \A j \in Keys : KeyInv(flows[j], tombstones[j], high[j])
  BY DEF ReceiveInv
<1> DEFINE nearer(t) == [t EXCEPT !.left = Minus(@, 1)]
<1>2. /\ flows' = [k \in Keys |-> IF flows[k] = None THEN None ELSE Older(flows[k])]
      /\ tombstones' = [k \in Keys |->
           IF tombstones[k] = None THEN None ELSE nearer(tombstones[k])]
      /\ high' = high /\ \A k \in Keys : batch'[k] = {}
  BY DEF Tick, Ticking, Quiet
<1>3. ASSUME NEW f, FlowState(f)
      PROVE  /\ FlowState(Older(f)) /\ Older(f).next_expected = f.next_expected
             /\ Older(f).exhausted = f.exhausted
  <2> DEFINE g == Older(f)
             idle == Aged(f.idle, FlowIdleTTL)
             b == [i \in Held(f) |->
                    [f.buffer[i] EXCEPT !.age = Aged(@, Deadline[f.class])]]
  <2>1. g = [f EXCEPT !.idle = idle, !.buffer = b]
    BY DEF Older
  <2>2. f = [class |-> f.class, next_expected |-> f.next_expected, exhausted |-> f.exhausted,
             buffer |-> f.buffer, bytes |-> f.bytes, idle |-> f.idle]
    BY <1>3 DEF FlowState
  <2>3. DOMAIN b = Held(f)
    OBVIOUS
  <2> HIDE DEF g, idle, b
  <2>4. g = [class |-> f.class, next_expected |-> f.next_expected, exhausted |-> f.exhausted,
             buffer |-> b, bytes |-> f.bytes, idle |-> idle]
    BY <2>1, <2>2
  <2>5. /\ g.next_expected = f.next_expected /\ g.exhausted = f.exhausted
        /\ g = [class |-> g.class, next_expected |-> g.next_expected,
                exhausted |-> g.exhausted, buffer |-> g.buffer, bytes |-> g.bytes,
                idle |-> g.idle]
    BY <2>4
  <2>6. Held(g) = Held(f)
    BY <2>3, <2>4 DEF Held
  <2>7. FlowState(g)
    BY <1>3, <2>5, <2>6 DEF FlowState
  <2> QED BY <2>5, <2>7 DEF g
<1>4. ASSUME NEW t, NEW h, Forbids(t, h) PROVE Forbids(nearer(t), h)
  <2> DEFINE u == nearer(t)
  <2>1. t = [watermark |-> t.watermark, left |-> t.left]
    BY <1>4 DEF Forbids
  <2>2. u = [watermark |-> t.watermark, left |-> Minus(t.left, 1)]
    BY <2>1
  <2> HIDE DEF u
  <2>3. u = [watermark |-> u.watermark, left |-> u.left] /\ u.watermark = t.watermark
    BY <2>2
  <2>4. Forbids(u, h)
    BY <1>4, <2>3 DEF Forbids
  <2> QED BY <2>4 DEF u
<1> HIDE DEF nearer
<1>5. ASSUME NEW k \in Keys PROVE KeyInv(flows'[k], tombstones'[k], high'[k])
  <2>1. CASE flows[k] # None
    <3>1. tombstones'[k] = None /\ flows'[k] = Older(flows[k])
          /\ FlowState(flows[k]) /\ Above(flows[k], high[k])
      BY <1>1, <1>2, <2>1 DEF KeyInv
    <3>2. FlowState(flows'[k]) /\ Above(flows'[k], high'[k])
      BY <1>2, <1>3, <3>1 DEF Above
    <3> QED BY <3>1, <3>2 DEF KeyInv
  <2>2. CASE flows[k] = None /\ tombstones[k] # None
    <3>1. flows'[k] = None /\ tombstones'[k] = nearer(tombstones[k])
          /\ Forbids(tombstones[k], high[k])
      BY <1>1, <1>2, <2>2 DEF KeyInv
    <3>2. Forbids(tombstones'[k], high'[k])
      BY <1>2, <1>4, <3>1
    <3> QED BY <3>1, <3>2 DEF KeyInv
  <2>3. CASE flows[k] = None /\ tombstones[k] = None
    BY <1>2, <2>3 DEF KeyInv
  <2> QED BY <2>1, <2>2, <2>3
<1>6. flows' = [k \in Keys |-> flows'[k]] /\ tombstones' = [k \in Keys |-> tombstones'[k]]
      /\ high' = [k \in Keys |-> high'[k]]
  BY <1>1, <1>2
<1>7. (\A k \in Keys : KeyInv(flows[k], tombstones[k], high[k]))'
  BY <1>5 DEF KeyInv, FlowState, Above, Forbids, Held, Ids
<1> QED BY <1>2, <1>6, <1>7 DEF ReceiveInv, Rises

LEMMA ReceiveNext ==
  ASSUME ReceiveLimits, ReceiveInv, Next
  PROVE  ReceiveInv' /\ Rises
<1>1. CASE Tick
  BY <1>1, TickStep
<1>2. CASE ExpireReorder
  BY <1>2, ExpireStep DEF ExpireReorder
<1>3. CASE ExpireDedup
  <2>1. UNCHANGED <<flows, tombstones, high>> /\ \A k \in Keys : batch'[k] = {}
    BY <1>3 DEF ExpireDedup, reorder
  <2> QED BY <2>1, RestKeeps
<1>4. ASSUME NEW k \in Keys, NEW c \in Classes, NEW id \in Ids, NEW len \in Lengths,
             Arrive(k, c, id, len)
      PROVE  ReceiveInv' /\ Rises
  <2>1. CASE ObserveDuplicate(k, id) /\ Quiet /\ UNCHANGED <<reorder, high>>
    <3>1. UNCHANGED <<flows, tombstones, high>> /\ \A j \in Keys : batch'[j] = {}
      BY <2>1 DEF Quiet, reorder
    <3> QED BY <3>1, RestKeeps
  <2>2. CASE Receive(k, c, id, len) /\ Delivers
    BY <2>2, ReceiveStep
  <2> QED BY <1>4, <2>1, <2>2 DEF Arrive
<1> QED BY <1>1, <1>2, <1>3, <1>4 DEF Next

\* At any time every flow expects more than was delivered and every tombstone
\* forbids it, under any eviction, expiry and order of arrival.
THEOREM ReceiveInductive == Spec => []ReceiveInv
<1>1. Init => ReceiveInv
  BY DEF Init, NewReorder, ReceiveInv, KeyInv
<1>2. ReceiveInv /\ [Next]_vars => ReceiveInv'
  <2>1. ASSUME ReceiveInv, UNCHANGED vars PROVE ReceiveInv'
    BY <2>1 DEF vars, reorder, ReceiveInv, KeyInv, FlowState, Above, Forbids, Held, Ids
  <2> QED BY <2>1, ReceiveNext, ReceiveLimits
<1> QED BY <1>1, <1>2, PTL DEF Spec

\* While a key is remembered nothing is delivered twice or out of order, for
\* every capacity, time to live, deadline and number of keys.
THEOREM InOrderOnce == Spec => DeliversInOrder
<1>1. ReceiveInv /\ [Next]_vars =>
        [\A k \in Keys : \A i \in batch'[k] :
           Remembered(k) /\ high[k] # None => i > high[k]]_vars
  BY ReceiveNext, ReceiveLimits DEF Rises
<1> QED BY <1>1, ReceiveInductive, PTL DEF Spec, DeliversInOrder

-----------------------------------------------------------------------------
(***************************************************************************)
(* The limits of the reorder table.  A delivery takes everything up to the *)
(* first gap, so what is left is beyond the packet expected next           *)
(* (DeliveredFits, with one lemma for each way to deliver); a full table   *)
(* makes room before it takes a flow or a tombstone (InsertFits, BuryFits),*)
(* for which the tombstone that expires first must exist (SoonestKey).     *)
(***************************************************************************)
LEMMA HeldFinite ==
  ASSUME ReceiveLimits, NEW f, FlowState(f)
  PROVE  IsFiniteSet(Held(f)) /\ Held(f) \subseteq Ids /\ Held(f) \subseteq Nat
<1>1. Held(f) \subseteq Ids /\ MaxId \in Nat
  BY DEF FlowState, ReceiveLimits
<1>2. IsFiniteSet(Ids)
  BY <1>1, FS_Interval DEF Ids
<1> QED BY <1>1, <1>2, FS_Subset DEF Ids

\* A subset of a finite set within a limit is within it.
LEMMA Fewer ==
  ASSUME NEW A, IsFiniteSet(A), NEW B \in SUBSET A, NEW n \in Nat, Cardinality(A) <= n
  PROVE  IsFiniteSet(B) /\ Cardinality(B) <= n
<1>1. IsFiniteSet(B) /\ Cardinality(B) <= Cardinality(A)
  BY FS_Subset
<1>2. Cardinality(A) \in Nat /\ Cardinality(B) \in Nat
  BY <1>1, FS_CardinalityType
<1> QED BY <1>1, <1>2

\* The fields of a flow that delivered S.
LEMMA DeliveredFields ==
  ASSUME NEW f, FlowState(f), NEW S
  PROVE  LET g == Delivered(f, S)
         IN /\ g.next_expected = IF Max(S) = MaxId THEN MaxId ELSE Max(S) + 1
            /\ g.exhausted = (Max(S) = MaxId)
            /\ Held(g) = Held(f) \ S
<1> DEFINE g == Delivered(f, S)
           m == Max(S)
           rest == [i \in Held(f) \ (S \cap Held(f)) |-> f.buffer[i]]
           expected == IF m = MaxId THEN MaxId ELSE m + 1
           bytes == Minus(f.bytes, Bytes(f, S \cap Held(f)))
<1>1. g = [f EXCEPT !.next_expected = expected, !.exhausted = m = MaxId,
                    !.buffer = rest, !.bytes = bytes, !.idle = 0]
  BY DEF Delivered
<1>2. f = [class |-> f.class, next_expected |-> f.next_expected, exhausted |-> f.exhausted,
           buffer |-> f.buffer, bytes |-> f.bytes, idle |-> f.idle]
  BY DEF FlowState
<1>3. DOMAIN rest = Held(f) \ S
  OBVIOUS
<1> HIDE DEF g, rest, bytes, expected, m
<1>4. g.next_expected = expected /\ g.exhausted = (m = MaxId) /\ g.buffer = rest
  BY <1>1, <1>2
<1> QED BY <1>3, <1>4 DEF g, m, expected, Held

LEMMA DeliveredFits ==
  ASSUME ReceiveLimits, NEW f, FlowState(f), InWindow(f), NEW S \in SUBSET Ids, S # {},
         f.next_expected <= Max(S), \A i \in Held(f) \ S : Max(S) + 1 < i
  PROVE  InWindow(Delivered(f, S))
<1> DEFINE g == Delivered(f, S)
           m == Max(S)
<1>1. /\ g.next_expected = (IF m = MaxId THEN MaxId ELSE m + 1)
      /\ g.exhausted = (m = MaxId) /\ Held(g) = Held(f) \ S
  BY DeliveredFields
<1>2. m \in Nat /\ m <= MaxId /\ MaxId \in Nat /\ f.next_expected \in Nat
  BY GreatestId DEF Ids, FlowState, ReceiveLimits
<1>3. /\ \A i \in Held(f) : i \in Nat /\ i <= MaxId
      /\ \A i \in Held(g) : m + 1 < i
  BY <1>1, HeldFinite DEF Ids
<1>4. f.next_expected <= m
  OBVIOUS
<1> HIDE DEF g, m
<1>5. MaxPackets \in Nat /\ MaxFutureGap \in Nat
  BY DEF ReceiveLimits, ReorderLimits
<1>6. Cardinality(Held(g)) <= MaxPackets
  BY <1>1, <1>5, HeldFinite, Fewer DEF InWindow
<1>7. ASSUME NEW i \in Held(g)
      PROVE  g.next_expected < i /\ i - g.next_expected <= MaxFutureGap /\ m # MaxId
  <2>1. i \in Held(f) /\ i \in Nat /\ i <= MaxId /\ m + 1 < i
    BY <1>1, <1>3, <1>7
  <2>2. m # MaxId /\ g.next_expected = m + 1
    BY <1>1, <1>2, <2>1
  <2>3. i - f.next_expected <= MaxFutureGap
    BY <2>1 DEF InWindow
  <2> QED BY <1>2, <1>4, <1>5, <2>1, <2>2, <2>3
<1>8. InWindow(g)
  BY <1>1, <1>6, <1>7 DEF InWindow
<1> QED BY <1>8 DEF g

\* What follows a chain leaves a gap behind it.
LEMMA BeyondChain ==
  ASSUME ReceiveLimits, NEW f, FlowState(f), NEW id \in Nat,
         NEW i \in Held(f) \ Chain(f, id), id <= i, NEW m \in Chain(f, id)
  PROVE  m + 1 < i
<1>1. m < i /\ i \in Nat /\ m \in Nat
  BY AfterChain DEF FlowState, Chain, Ids
<1>2. ASSUME i = m + 1 PROVE FALSE
  <2>1. \A j \in id..m : j \in Held(f)
    BY DEF Chain
  <2>2. \A j \in id..i : j \in id..m \/ j = i
    BY <1>1, <1>2
  <2>3. i \in Chain(f, id)
    BY <2>1, <2>2 DEF Chain
  <2> QED BY <2>3
<1> QED BY <1>1, <1>2

LEMMA NextFits ==
  ASSUME ReceiveLimits, NEW f, FlowState(f), InWindow(f), NEW S,
         S = {f.next_expected} \cup
               (IF f.next_expected = MaxId THEN {} ELSE Chain(f, f.next_expected + 1))
  PROVE  InWindow(Delivered(f, S))
<1> DEFINE id == f.next_expected
<1>1. id \in Ids /\ id \in Nat /\ id <= MaxId /\ MaxId \in Nat
  BY DEF FlowState, ReceiveLimits, Ids
<1>2. \A i \in Held(f) : i \in Ids /\ i \in Nat /\ id < i /\ i <= MaxId
  BY HeldFinite DEF Ids, InWindow
<1>3. Chain(f, id + 1) \subseteq Held(f)
  BY DEF Chain
<1>4. S \in SUBSET Ids /\ id \in S
  BY <1>1, <1>2, <1>3
<1>5. Max(S) \in S /\ id <= Max(S)
  BY <1>4, GreatestId
<1>6. ASSUME NEW i \in Held(f) \ S PROVE Max(S) + 1 < i
  <2>1. id < i /\ i \in Nat /\ id # MaxId
    BY <1>1, <1>2, <1>6
  <2>2. i \in Held(f) \ Chain(f, id + 1) /\ id + 1 <= i /\ id + 1 \in Nat
    BY <1>1, <1>6, <2>1
  <2>3. CASE Max(S) = id
    <3>1. i # id + 1
      <4>1. ASSUME i = id + 1 PROVE FALSE
        <5>1. \A j \in id + 1..i : j = i
          BY <1>1, <4>1
        <5> QED BY <2>2, <5>1 DEF Chain
      <4> QED BY <4>1
    <3> QED BY <1>1, <2>1, <2>3, <3>1
  <2>4. CASE Max(S) \in Chain(f, id + 1)
    BY <2>2, <2>4, BeyondChain
  <2> QED BY <1>5, <2>1, <2>3, <2>4
<1> QED BY <1>4, <1>5, <1>6, DeliveredFits

LEMMA HeadFits ==
  ASSUME ReceiveLimits, NEW f, FlowState(f), InWindow(f), Held(f) # {}
  PROVE  InWindow(Delivered(f, Chain(f, Min(Held(f)))))
<1> DEFINE id == Min(Held(f))
           S == Chain(f, id)
<1>1. Held(f) \subseteq Ids /\ Held(f) \subseteq Nat
  BY HeldFinite
<1>2. \E i \in Held(f) : \A j \in Held(f) : i <= j
  BY <1>1, LeastElement
<1>3. id \in Held(f) /\ \A j \in Held(f) : id <= j
  BY <1>2 DEF Min
<1> HIDE DEF id
<1>4. id \in Nat /\ \A j \in id..id : j = id
  BY <1>1, <1>3
<1>5. id \in S /\ S \subseteq Held(f)
  BY <1>3, <1>4 DEF Chain
<1> HIDE DEF S
<1>6. Max(S) \in S /\ S \in SUBSET Ids /\ S # {}
  BY <1>1, <1>5, GreatestId
<1>7. f.next_expected <= Max(S)
  BY <1>1, <1>5, <1>6 DEF InWindow, FlowState
<1>8. \A i \in Held(f) \ S : Max(S) + 1 < i
  BY <1>3, <1>4, <1>6, BeyondChain DEF S
<1>9. InWindow(Delivered(f, S))
  BY <1>6, <1>7, <1>8, DeliveredFits
<1> QED BY <1>9 DEF S, id

LEMMA OverdueFits ==
  ASSUME ReceiveLimits, NEW f, FlowState(f), InWindow(f), Overdue(f) # {}
  PROVE  InWindow(Delivered(f, Overdue(f)))
<1> DEFINE S == Overdue(f)
<1>1. Held(f) \subseteq Ids /\ Held(f) \subseteq Nat
  BY HeldFinite
<1>2. S \subseteq Held(f)
  BY DEF Overdue, Stuck
<1>3. Max(S) \in S /\ S \in SUBSET Ids
  BY <1>1, <1>2, GreatestId
<1>4. ASSUME NEW i \in Held(f) \ S PROVE Max(S) + 1 < i
  <2>1. PICK h \in Held(f) :
          h <= i /\ h - 1 \notin Held(f) /\ ~(f.buffer[h].age >= Deadline[f.class])
    BY <1>4 DEF Overdue
  <2>2. ~(h <= Max(S))
    BY <1>3, <2>1 DEF Overdue
  <2>3. h \in Nat /\ i \in Nat /\ Max(S) \in Nat /\ Max(S) \in Held(f)
    BY <1>1, <1>2, <1>3
  <2>4. h # Max(S) + 1
    BY <2>1, <2>3
  <2> QED BY <2>1, <2>2, <2>3, <2>4
<1>5. f.next_expected <= Max(S)
  BY <1>1, <1>2, <1>3 DEF FlowState
<1> HIDE DEF S
<1>6. S # {}
  BY DEF S
<1> QED BY <1>3, <1>4, <1>5, <1>6, DeliveredFits DEF S

LEMMA BufferFits ==
  ASSUME ReceiveLimits, NEW f, FlowState(f), InWindow(f), ~f.exhausted,
         NEW id \in Ids, id > f.next_expected, NEW len, ~Droppable(f, id, len),
         NEW b, NEW bytes, DOMAIN b = Held(f) \cup {id}
  PROVE  InWindow(WithBuffer(f, b, bytes))
<1> DEFINE g == WithBuffer(f, b, bytes)
<1>1. g = [f EXCEPT !.buffer = b, !.bytes = bytes, !.idle = 0]
  BY DEF WithBuffer
<1>2. f = [class |-> f.class, next_expected |-> f.next_expected, exhausted |-> f.exhausted,
           buffer |-> f.buffer, bytes |-> f.bytes, idle |-> f.idle]
  BY DEF FlowState
<1> HIDE DEF g
<1>3. g.next_expected = f.next_expected /\ g.exhausted = f.exhausted /\ g.buffer = b
  BY <1>1, <1>2
<1>4. Held(g) = Held(f) \cup {id}
  BY <1>3 DEF Held
<1>5. /\ ~(id - f.next_expected > MaxFutureGap)
      /\ ~(Cardinality(Held(f)) >= MaxPackets) /\ id \notin Held(f)
  BY DEF Droppable
<1>6. /\ id \in Nat /\ f.next_expected \in Nat /\ MaxFutureGap \in Nat /\ MaxPackets \in Nat
      /\ IsFiniteSet(Held(f))
  BY HeldFinite DEF Ids, FlowState, ReceiveLimits, ReorderLimits
<1>7. Cardinality(Held(g)) <= MaxPackets
  <2>1. Cardinality(Held(g)) = Cardinality(Held(f)) + 1 /\ Cardinality(Held(f)) \in Nat
    BY <1>4, <1>5, <1>6, FS_AddElement, FS_CardinalityType
  <2> QED BY <1>5, <1>6, <2>1
<1>8. \A i \in Held(g) : g.next_expected < i /\ i - g.next_expected <= MaxFutureGap
  BY <1>3, <1>4, <1>5, <1>6 DEF InWindow
<1>9. InWindow(g)
  BY <1>3, <1>7, <1>8 DEF InWindow
<1> QED BY <1>9 DEF g

LEMMA OpenFits ==
  ASSUME ReceiveLimits, NEW c, NEW id PROVE InWindow(NewFlow(c, id))
<1>1. Held(NewFlow(c, id)) = {}
  BY DEF NewFlow, Held
<1> QED BY <1>1, FS_EmptySet DEF InWindow, ReceiveLimits, ReorderLimits

-----------------------------------------------------------------------------
\* A table of flows, and a table of tombstones, within its limit.
FlowsFit(F) ==
  /\ IsFiniteSet(Known(F)) /\ Cardinality(Known(F)) <= MaxFlows
  /\ \A k \in Known(F) : InWindow(F[k])

Stone(t) == t.left \in Nat /\ t.watermark \in Nat

StonesFit(T) ==
  /\ IsFiniteSet(Known(T)) /\ Cardinality(Known(T)) <= MaxTombstones
  /\ \A k \in Known(T) : Stone(T[k])

\* Of any tombstones one expires first.
LEMMA SoonestKey ==
  ASSUME NEW T, NEW A \in SUBSET Nat, A # {}, \A k \in A : Stone(T[k])
  PROVE  \E k \in A : \A j \in A \ {k} : Sooner(T, k, j)
<1> DEFINE L == {T[k].left : k \in A}
<1>1. PICK l \in L : \A x \in L : l <= x
  <2>1. L \in SUBSET Nat /\ L # {}
    BY DEF Stone
  <2> HIDE DEF L
  <2> QED BY <2>1, LeastElement
<1> DEFINE B == {k \in A : T[k].left = l}
           W == {T[k].watermark : k \in B}
<1>2. PICK w \in W : \A x \in W : w <= x
  <2>1. W \in SUBSET Nat /\ W # {}
    BY DEF Stone
  <2> HIDE DEF W
  <2> QED BY <2>1, LeastElement
<1> DEFINE C == {k \in B : T[k].watermark = w}
<1>3. PICK k \in C : \A x \in C : k <= x
  <2>1. C \in SUBSET Nat /\ C # {}
    OBVIOUS
  <2> HIDE DEF C
  <2> QED BY <2>1, LeastElement
<1>4. ASSUME NEW j \in A \ {k} PROVE Sooner(T, k, j)
  <2>1. /\ T[k].left = l /\ T[k].watermark = w /\ l \in Nat /\ w \in Nat /\ k \in Nat
        /\ T[j].left \in Nat /\ T[j].watermark \in Nat /\ j \in Nat /\ j # k
    BY DEF Stone
  <2>2. l <= T[j].left
    BY <1>1
  <2>3. T[j].left = l => w <= T[j].watermark
    BY <1>2
  <2>4. T[j].left = l /\ T[j].watermark = w => k <= j
    BY <1>3
  <2> QED BY <2>1, <2>2, <2>3, <2>4 DEF Sooner
<1> QED BY <1>4

LEMMA PurgeFits ==
  ASSUME ReceiveLimits, NEW T, StonesFit(T)
  PROVE  StonesFit(PurgeExpired(T)) /\ Known(PurgeExpired(T)) \subseteq Known(T)
<1> DEFINE P == PurgeExpired(T)
<1>1. \A k \in Keys : P[k] \in {None, T[k]}
  BY DEF PurgeExpired
<1> HIDE DEF P
<1>2. Known(P) \subseteq Known(T) /\ \A k \in Known(P) : P[k] = T[k]
  BY <1>1 DEF Known
<1>3. MaxTombstones \in Nat
  BY DEF ReceiveLimits, ReorderLimits
<1>4. StonesFit(P)
  BY <1>2, <1>3, Fewer DEF StonesFit
<1> QED BY <1>2, <1>4 DEF P

\* A full table makes room before it takes a tombstone.
LEMMA InsertFits ==
  ASSUME ReceiveLimits, NEW T, StonesFit(T), NEW old \in Keys, NEW mark \in Nat
  PROVE  StonesFit(InsertTombstone(T, old, mark))
<1> DEFINE R == InsertTombstone(T, old, mark)
           P == PurgeExpired(T)
           Q == IF Cardinality(Known(P)) >= MaxTombstones
                THEN [P EXCEPT ![Soonest(P)] = None] ELSE P
           stone == [watermark |-> mark, left |-> TombstoneTTL]
<1>1. StonesFit(P) /\ DOMAIN P = Keys /\ Known(P) \subseteq Keys
  BY PurgeFits DEF PurgeExpired, Known
<1>2. R = [Q EXCEPT ![old] = stone]
  BY DEF InsertTombstone
<1>3. Keys \subseteq Nat /\ MaxTombstones \in Nat \ {0} /\ TombstoneTTL \in Nat
  BY DEF ReceiveLimits, ReorderLimits
<1>4. Stone(stone)
  BY <1>3 DEF Stone
<1> HIDE DEF R, P, stone
<1>5. /\ IsFiniteSet(Known(P)) /\ Cardinality(Known(P)) \in Nat
      /\ Cardinality(Known(P)) <= MaxTombstones
  BY <1>1, FS_CardinalityType DEF StonesFit
<1>6. /\ IsFiniteSet(Known(Q)) /\ Cardinality(Known(Q)) < MaxTombstones
      /\ DOMAIN Q = Keys /\ \A k \in Known(Q) : Stone(Q[k])
  <2>1. CASE Cardinality(Known(P)) >= MaxTombstones
    <3> DEFINE s == Soonest(P)
    <3>1. Known(P) # {} /\ Known(P) \in SUBSET Nat
      <4>1. Cardinality(Known(P)) # 0
        BY <1>3, <1>5, <2>1
      <4> QED BY <1>1, <1>3, <4>1, FS_EmptySet
    <3>2. \E k \in Known(P) : \A j \in Known(P) \ {k} : Sooner(P, k, j)
      BY <1>1, <3>1, SoonestKey DEF StonesFit
    <3>3. s \in Known(P)
      BY <3>2 DEF Soonest
    <3> HIDE DEF s
    <3>4. Q = [P EXCEPT ![s] = None]
      BY <2>1 DEF s
    <3> HIDE DEF Q
    <3>5. DOMAIN Q = Keys /\ Known(Q) = Known(P) \ {s} /\ \A k \in Known(Q) : Q[k] = P[k]
      BY <1>1, <3>4 DEF Known
    <3>6. IsFiniteSet(Known(Q)) /\ Cardinality(Known(Q)) = Cardinality(Known(P)) - 1
      BY <1>5, <3>3, <3>5, FS_RemoveElement
    <3> QED BY <1>1, <1>3, <1>5, <3>5, <3>6 DEF StonesFit
  <2>2. CASE ~(Cardinality(Known(P)) >= MaxTombstones)
    <3>1. Q = P
      BY <2>2
    <3> HIDE DEF Q
    <3> QED BY <1>1, <1>3, <1>5, <2>2, <3>1 DEF StonesFit
  <2> QED BY <2>1, <2>2
<1> HIDE DEF Q
<1>7. /\ Known(R) \subseteq Known(Q) \cup {old}
      /\ \A k \in Known(R) : R[k] = IF k = old THEN stone ELSE Q[k]
  BY <1>2, <1>6 DEF Known
<1>8. /\ IsFiniteSet(Known(Q) \cup {old})
      /\ Cardinality(Known(Q) \cup {old}) <= MaxTombstones
  <2>1. /\ IsFiniteSet(Known(Q) \cup {old})
        /\ Cardinality(Known(Q) \cup {old}) \in {Cardinality(Known(Q)), Cardinality(Known(Q)) + 1}
    BY <1>6, FS_AddElement
  <2>2. Cardinality(Known(Q)) \in Nat
    BY <1>6, FS_CardinalityType
  <2> QED BY <1>3, <1>6, <2>1, <2>2
<1>9. IsFiniteSet(Known(R)) /\ Cardinality(Known(R)) <= MaxTombstones
  BY <1>3, <1>7, <1>8, Fewer
<1>10. \A k \in Known(R) : Stone(R[k])
  BY <1>4, <1>6, <1>7
<1>11. StonesFit(R)
  BY <1>9, <1>10 DEF StonesFit
<1> QED BY <1>11 DEF R

\* Of the tombstones that stay, the one that expires first has all the others
\* behind it.
LEMMA BuryFits ==
  ASSUME ReceiveLimits, NEW T, StonesFit(T), NEW mark, IsFiniteSet(DOMAIN mark),
         DOMAIN mark \subseteq Keys, \A k \in DOMAIN mark : mark[k] \in Nat,
         NEW R \in Bury(PurgeExpired(T), mark)
  PROVE  StonesFit(R)
<1> DEFINE P == PurgeExpired(T)
           all == [k \in Keys |-> IF k \in DOMAIN mark
                     THEN [watermark |-> mark[k], left |-> TombstoneTTL] ELSE P[k]]
           later(k, final) == {j \in Known(all) \ {final} : Sooner(all, k, j)}
           stays(k, final) ==
             k = final \/ (all[k] # None /\ Cardinality(later(k, final)) + 1 < MaxTombstones)
           left(final) == [k \in Keys |-> IF stays(k, final) THEN all[k] ELSE None]
<1>1. StonesFit(P) /\ Known(P) \subseteq Keys
  BY PurgeFits DEF Known
<1>2. R \in (IF DOMAIN mark = {} THEN {P} ELSE {left(final) : final \in DOMAIN mark})
  BY DEF Bury
<1>3. Keys \subseteq Nat /\ MaxTombstones \in Nat \ {0} /\ TombstoneTTL \in Nat
  BY DEF ReceiveLimits, ReorderLimits
<1> HIDE DEF P
<1>4. /\ Known(all) \subseteq Known(P) \cup DOMAIN mark
      /\ \A k \in Known(all) : Stone(all[k])
  <2>1. ASSUME NEW k \in Known(all)
        PROVE  (k \in DOMAIN mark \/ k \in Known(P)) /\ Stone(all[k])
    <3>1. k \in Keys
      BY DEF Known
    <3>2. CASE k \in DOMAIN mark
      <4>1. all[k] = [watermark |-> mark[k], left |-> TombstoneTTL]
        BY <3>1, <3>2
      <4> HIDE DEF all
      <4> QED BY <1>3, <3>2, <4>1 DEF Stone
    <3>3. CASE k \notin DOMAIN mark
      <4>1. all[k] = P[k] /\ all[k] # None
        BY <3>1, <3>3 DEF Known
      <4> HIDE DEF all
      <4>2. k \in Known(P)
        BY <3>1, <4>1 DEF Known
      <4> QED BY <1>1, <4>1, <4>2 DEF StonesFit
    <3> QED BY <3>2, <3>3
  <2> QED BY <2>1
<1> HIDE DEF all
<1>5. IsFiniteSet(Known(all)) /\ Known(all) \subseteq Nat
  <2>1. IsFiniteSet(Known(P) \cup DOMAIN mark)
    BY <1>1, FS_Union DEF StonesFit
  <2> QED BY <1>1, <1>3, <1>4, <2>1, FS_Subset
<1>6. CASE DOMAIN mark = {}
  BY <1>1, <1>2, <1>6
<1>7. CASE DOMAIN mark # {}
  <2>1. PICK final \in DOMAIN mark : R = left(final)
    BY <1>2, <1>7
  <2> DEFINE A == {k \in Known(all) \ {final} :
                     Cardinality(later(k, final)) + 1 < MaxTombstones}
  <2>2. Known(R) \subseteq A \cup {final} /\ \A k \in Known(R) : k \in Known(all) /\ R[k] = all[k]
    <3> HIDE DEF later
    <3> QED BY <2>1 DEF Known
  <2>3. IsFiniteSet(A) /\ A \subseteq Known(all) /\ A \subseteq Nat
    BY <1>5, FS_Subset
  <2>4. Cardinality(A) + 1 <= MaxTombstones
    <3>1. CASE A = {}
      <4>1. Cardinality(A) = 0
        BY <3>1, FS_EmptySet
      <4> QED BY <1>3, <4>1
    <3>2. CASE A # {}
      <4>1. PICK k \in A : \A j \in A \ {k} : Sooner(all, k, j)
        BY <1>4, <2>3, <3>2, SoonestKey
      <4> DEFINE B == later(k, final)
      <4>2. Cardinality(B) + 1 < MaxTombstones
        OBVIOUS
      <4>3. B \subseteq Known(all) /\ A \ {k} \subseteq B
        BY <4>1
      <4> HIDE DEF A, B
      <4>4. IsFiniteSet(B)
        BY <1>5, <4>3, FS_Subset
      <4>5. Cardinality(A \ {k}) = Cardinality(A) - 1
        BY <2>3, FS_RemoveElement
      <4>6. Cardinality(A \ {k}) <= Cardinality(B)
        BY <4>3, <4>4, FS_Subset
      <4>7. Cardinality(A) \in Nat /\ Cardinality(B) \in Nat
        BY <2>3, <4>4, FS_CardinalityType
      <4> QED BY <1>3, <4>2, <4>5, <4>6, <4>7
    <3> QED BY <3>1, <3>2
  <2> HIDE DEF A
  <2>5. IsFiniteSet(A \cup {final}) /\ Cardinality(A \cup {final}) <= MaxTombstones
    <3>1. /\ IsFiniteSet(A \cup {final})
          /\ Cardinality(A \cup {final}) \in {Cardinality(A), Cardinality(A) + 1}
      BY <2>3, FS_AddElement
    <3>2. Cardinality(A) \in Nat
      BY <2>3, FS_CardinalityType
    <3> QED BY <1>3, <2>4, <3>1, <3>2
  <2>6. IsFiniteSet(Known(R)) /\ Cardinality(Known(R)) <= MaxTombstones
    BY <1>3, <2>2, <2>5, Fewer
  <2> QED BY <1>4, <2>2, <2>6 DEF StonesFit
<1> QED BY <1>6, <1>7

\* A step that opens no flow.
LEMMA FlowsShrink ==
  ASSUME ReceiveLimits, NEW F, FlowsFit(F), NEW G,
         \A k \in Keys : G[k] # None => F[k] # None /\ InWindow(G[k])
  PROVE  FlowsFit(G)
<1>1. Known(G) \subseteq Known(F) /\ \A k \in Known(G) : InWindow(G[k])
  BY DEF Known
<1>2. MaxFlows \in Nat
  BY DEF ReceiveLimits, ReorderLimits
<1>3. IsFiniteSet(Known(G)) /\ Cardinality(Known(G)) <= MaxFlows
  BY <1>1, <1>2, Fewer DEF FlowsFit
<1> QED BY <1>1, <1>3 DEF FlowsFit

\* A step that opens one where there is room.
LEMMA FlowsGrow ==
  ASSUME ReceiveLimits, NEW F, FlowsFit(F), Cardinality(Known(F)) < MaxFlows,
         NEW G, NEW k \in Keys, InWindow(G[k]),
         \A j \in Keys \ {k} : G[j] \in {None, F[j]}
  PROVE  FlowsFit(G)
<1>1. /\ Known(G) \subseteq Known(F) \cup {k}
      /\ \A j \in Known(G) \ {k} : j \in Known(F) /\ G[j] = F[j]
  BY DEF Known
<1>2. MaxFlows \in Nat
  BY DEF ReceiveLimits, ReorderLimits
<1>3. IsFiniteSet(Known(F) \cup {k}) /\ Cardinality(Known(F) \cup {k}) <= MaxFlows
  <2>1. /\ IsFiniteSet(Known(F) \cup {k})
        /\ Cardinality(Known(F) \cup {k}) \in {Cardinality(Known(F)), Cardinality(Known(F)) + 1}
    BY FS_AddElement DEF FlowsFit
  <2>2. Cardinality(Known(F)) \in Nat
    BY FS_CardinalityType DEF FlowsFit
  <2> QED BY <1>2, <2>1, <2>2
<1>4. IsFiniteSet(Known(G)) /\ Cardinality(Known(G)) <= MaxFlows
  BY <1>1, <1>2, <1>3, Fewer
<1>5. \A j \in Known(G) : InWindow(G[j])
  BY <1>1 DEF FlowsFit
<1> QED BY <1>4, <1>5 DEF FlowsFit

-----------------------------------------------------------------------------
LimitsInv == FlowsFit(flows) /\ StonesFit(tombstones)

LEMMA LimitsKept ==
  ASSUME FlowsFit(flows'), StonesFit(tombstones') PROVE LimitsInv'
BY DEF LimitsInv, FlowsFit, StonesFit, Stone, Known, InWindow, Held

\* One flow goes on, the others and the tombstones stay.
LEMMA FlowFits ==
  ASSUME ReceiveLimits, LimitsInv, ReceiveInv, NEW k \in Keys, flows[k] # None,
         NEW g, InWindow(g), flows' = [flows EXCEPT ![k] = g], tombstones' = tombstones
  PROVE  LimitsInv'
<1>1. \A j \in Keys : flows'[j] # None => flows[j] # None /\ InWindow(flows'[j])
  <2>1. flows = [j \in Keys |-> flows[j]]
    BY DEF ReceiveInv
  <2>2. \A j \in Keys : flows[j] # None => InWindow(flows[j])
    BY DEF LimitsInv, FlowsFit, Known
  <2>3. \A j \in Keys : flows'[j] = IF j = k THEN g ELSE flows[j]
    BY <2>1
  <2> QED BY <2>2, <2>3
<1>2. FlowsFit(flows')
  BY <1>1, FlowsShrink DEF LimitsInv
<1>3. StonesFit(tombstones')
  BY DEF LimitsInv
<1> QED BY <1>2, <1>3, LimitsKept

LEMMA RefusedFits ==
  ASSUME ReceiveLimits, LimitsInv, ReceiveInv, NEW k \in Keys, flows[k] # None, Refused(k)
  PROVE  LimitsInv'
<1> DEFINE f == flows[k]
           g == [f EXCEPT !.idle = 0]
<1>1. flows' = [flows EXCEPT ![k] = g] /\ tombstones' = tombstones
  BY DEF Refused, Touched
<1>2. FlowState(f) /\ InWindow(f)
  BY DEF ReceiveInv, KeyInv, LimitsInv, FlowsFit, Known
<1>3. f = [class |-> f.class, next_expected |-> f.next_expected, exhausted |-> f.exhausted,
           buffer |-> f.buffer, bytes |-> f.bytes, idle |-> f.idle]
  BY <1>2 DEF FlowState
<1>4. g.next_expected = f.next_expected /\ g.exhausted = f.exhausted /\ g.buffer = f.buffer
  BY <1>3
<1> HIDE DEF g
<1>5. InWindow(g)
  BY <1>2, <1>4 DEF InWindow, Held
<1> QED BY <1>1, <1>5, FlowFits

LEMMA OpenLimits ==
  ASSUME ReceiveLimits, LimitsInv, ReceiveInv, NEW k \in Keys, NEW c, NEW id \in Ids,
         Open(k, c, id)
  PROVE  LimitsInv'
<1> DEFINE T == [tombstones EXCEPT ![k] = None]
<1>1. /\ flows = [j \in Keys |-> flows[j]] /\ tombstones = [j \in Keys |-> tombstones[j]]
      /\ \A j \in Keys : KeyInv(flows[j], tombstones[j], high[j])
  BY DEF ReceiveInv
<1>2. flows[k] = None /\ InWindow(NewFlow(c, id))
  BY OpenFits DEF Open
<1>3. StonesFit(T)
  <2>1. Known(T) \subseteq Known(tombstones) /\ \A j \in Known(T) : T[j] = tombstones[j]
    BY <1>1 DEF Known
  <2>2. MaxTombstones \in Nat
    BY DEF ReceiveLimits, ReorderLimits
  <2> HIDE DEF T
  <2> QED BY <2>1, <2>2, Fewer DEF LimitsInv, StonesFit
<1> HIDE DEF T
<1>4. CASE UNCHANGED reorder
  BY <1>4, LimitsKept DEF reorder, LimitsInv
<1>5. CASE /\ Cardinality(Known(flows)) < MaxFlows
           /\ flows' = [flows EXCEPT ![k] = NewFlow(c, id)] /\ tombstones' = T
  <2>1. flows'[k] = NewFlow(c, id) /\ \A j \in Keys \ {k} : flows'[j] = flows[j]
    BY <1>1, <1>5
  <2>2. FlowsFit(flows')
    BY <1>2, <1>5, <2>1, FlowsGrow DEF LimitsInv
  <2> QED BY <1>3, <1>5, <2>2, LimitsKept
<1>6. ASSUME NEW old \in Oldest(flows),
             flows' = [flows EXCEPT ![old] = None, ![k] = NewFlow(c, id)],
             tombstones' = InsertTombstone(T, old, Watermark(flows[old]))
      PROVE  LimitsInv'
  <2>1. old \in Known(flows) /\ old \in Keys /\ flows[old] # None /\ old # k
    BY <1>2 DEF Oldest, Known
  <2> DEFINE F == [j \in Keys |-> IF j = old THEN None ELSE flows[j]]
  <2>2. Known(F) = Known(flows) \ {old} /\ \A j \in Known(F) : F[j] = flows[j]
    BY DEF Known
  <2>3. flows'[k] = NewFlow(c, id) /\ \A j \in Keys \ {k} : flows'[j] \in {None, F[j]}
    BY <1>1, <1>6, <2>1
  <2> HIDE DEF F
  <2>4. FlowsFit(F) /\ Cardinality(Known(F)) < MaxFlows
    <3>1. /\ IsFiniteSet(Known(flows)) /\ Cardinality(Known(flows)) \in Nat
          /\ Cardinality(Known(flows)) <= MaxFlows /\ MaxFlows \in Nat
      BY FS_CardinalityType DEF LimitsInv, FlowsFit, ReceiveLimits, ReorderLimits
    <3>2. IsFiniteSet(Known(F)) /\ Cardinality(Known(F)) = Cardinality(Known(flows)) - 1
      BY <2>1, <2>2, <3>1, FS_RemoveElement
    <3>3. \A j \in Known(F) : InWindow(F[j])
      BY <2>2 DEF LimitsInv, FlowsFit
    <3> QED BY <3>1, <3>2, <3>3 DEF FlowsFit
  <2>5. FlowsFit(flows')
    BY <1>2, <2>3, <2>4, FlowsGrow
  <2>6. Watermark(flows[old]) \in Nat
    <3>1. FlowState(flows[old]) /\ Above(flows[old], high[old])
      BY <1>1, <2>1 DEF KeyInv
    <3>2. Forbids([watermark |-> Watermark(flows[old]), left |-> 0], high[old])
      BY <3>1, WatermarkForbids
    <3> QED BY <3>2 DEF Forbids, Ids
  <2>7. StonesFit(tombstones')
    BY <1>3, <1>6, <2>1, <2>6, InsertFits
  <2> QED BY <2>5, <2>7, LimitsKept
<1> QED BY <1>4, <1>5, <1>6 DEF Open, T

LEMMA BufferLimits ==
  ASSUME ReceiveLimits, LimitsInv, ReceiveInv, NEW k \in Keys, flows[k] # None,
         ~flows[k].exhausted, NEW id \in Ids, NEW len, Buffer(k, id, len)
  PROVE  LimitsInv'
<1> DEFINE b == [i \in Held(flows[k]) \cup {id} |->
                   IF i = id THEN [len |-> len, age |-> 0] ELSE flows[k].buffer[i]]
           f == [flows[k] EXCEPT !.buffer = b, !.bytes = @ + len, !.idle = 0]
           S == Chain(f, Min(Held(f)))
<1>1. /\ id > flows[k].next_expected /\ ~Droppable(flows[k], id, len)
      /\ \/ HeadExpired(f) /\ Deliver(k, f, S)
         \/ flows' = [flows EXCEPT ![k] = f] /\ UNCHANGED tombstones
  BY DEF Buffer
<1>2. KeyInv(flows[k], tombstones[k], high[k]) /\ FlowState(flows[k]) /\ InWindow(flows[k])
  BY DEF ReceiveInv, KeyInv, LimitsInv, FlowsFit, Known
<1>3. FlowState(f) /\ InWindow(f)
  <2>1. DOMAIN b = Held(flows[k]) \cup {id}
    OBVIOUS
  <2>2. f = WithBuffer(flows[k], b, flows[k].bytes + len)
    BY DEF WithBuffer
  <2> HIDE DEF b, f
  <2>3. FlowState(f)
    BY <1>1, <1>2, <2>1, <2>2, BufferKeeps
  <2>4. InWindow(f)
    BY <1>1, <1>2, <2>1, <2>2, BufferFits
  <2> QED BY <2>3, <2>4
<1> HIDE DEF f
<1>4. CASE HeadExpired(f) /\ Deliver(k, f, S)
  <2>1. Held(f) # {}
    BY <1>4 DEF HeadExpired
  <2>2. InWindow(Delivered(f, S))
    BY <1>3, <2>1, HeadFits
  <2> HIDE DEF S
  <2> QED BY <1>4, <2>2, FlowFits DEF Deliver
<1>5. CASE flows' = [flows EXCEPT ![k] = f] /\ UNCHANGED tombstones
  BY <1>3, <1>5, FlowFits
<1> QED BY <1>1, <1>4, <1>5

LEMMA ReceiveFits ==
  ASSUME ReceiveLimits, LimitsInv, ReceiveInv, NEW k \in Keys, NEW c, NEW id \in Ids,
         NEW len, Receive(k, c, id, len)
  PROVE  LimitsInv'
<1>1. CASE UNCHANGED reorder
  BY <1>1, LimitsKept DEF reorder, LimitsInv
<1>2. CASE Open(k, c, id)
  BY <1>2, OpenLimits
<1>3. CASE flows[k] # None /\ Refused(k)
  BY <1>3, RefusedFits
<1>4. CASE flows[k] # None /\ ~flows[k].exhausted /\ InSequence(k, id)
  <2> DEFINE f == flows[k]
             S == {id} \cup (IF id = MaxId THEN {} ELSE Chain(f, id + 1))
  <2>1. id = f.next_expected /\ Deliver(k, f, S)
    BY <1>4 DEF InSequence
  <2>2. FlowState(f) /\ InWindow(f)
    BY <1>4 DEF ReceiveInv, KeyInv, LimitsInv, FlowsFit, Known
  <2>3. S = {f.next_expected} \cup
              (IF f.next_expected = MaxId THEN {} ELSE Chain(f, f.next_expected + 1))
    BY <2>1
  <2> HIDE DEF S
  <2>4. InWindow(Delivered(f, S))
    BY <2>2, <2>3, NextFits
  <2> QED BY <1>4, <2>1, <2>4, FlowFits DEF Deliver
<1>5. CASE flows[k] # None /\ ~flows[k].exhausted /\ Buffer(k, id, len)
  BY <1>5, BufferLimits
<1> QED BY <1>1, <1>2, <1>3, <1>4, <1>5 DEF Receive

LEMMA ExpireFits ==
  ASSUME ReceiveLimits, LimitsInv, ReceiveInv, Expire PROVE LimitsInv'
<1> DEFINE idle == {k \in Known(flows) : flows[k].idle >= FlowIdleTTL}
           kept == Known(flows) \ idle
           out(k) == IF k \in kept THEN Overdue(flows[k]) ELSE {}
           mark == [k \in idle |-> Watermark(flows[k])]
<1>1. \A j \in Keys : KeyInv(flows[j], tombstones[j], high[j])
  BY DEF ReceiveInv
<1>2. /\ tombstones' \in Bury(PurgeExpired(tombstones), mark)
      /\ flows' = [k \in Keys |->
           IF k \notin kept THEN None
           ELSE IF out(k) = {} THEN flows[k] ELSE Delivered(flows[k], out(k))]
  BY DEF Expire
<1>3. /\ DOMAIN mark = idle /\ idle \subseteq Known(flows) /\ idle \subseteq Keys
      /\ \A k \in idle : mark[k] = Watermark(flows[k]) /\ flows[k] # None
  BY DEF Known
<1> HIDE DEF mark, idle
<1>4. ASSUME NEW k \in Keys, flows'[k] # None PROVE flows[k] # None /\ InWindow(flows'[k])
  <2>1. k \in kept /\ flows[k] # None
    BY <1>2, <1>4 DEF Known
  <2>2. FlowState(flows[k]) /\ InWindow(flows[k])
    BY <1>1, <2>1 DEF KeyInv, LimitsInv, FlowsFit, Known
  <2>3. CASE Overdue(flows[k]) = {}
    <3>1. flows'[k] = flows[k]
      BY <1>2, <2>1, <2>3
    <3> QED BY <2>1, <2>2, <3>1
  <2>4. CASE Overdue(flows[k]) # {}
    <3>1. flows'[k] = Delivered(flows[k], Overdue(flows[k]))
      BY <1>2, <2>1, <2>4
    <3>2. InWindow(Delivered(flows[k], Overdue(flows[k])))
      BY <2>2, <2>4, OverdueFits
    <3> QED BY <2>1, <3>1, <3>2
  <2> QED BY <2>3, <2>4
<1>5. FlowsFit(flows')
  BY <1>4, FlowsShrink DEF LimitsInv
<1>6. \A k \in DOMAIN mark : mark[k] \in Nat
  <2>1. ASSUME NEW k \in idle PROVE mark[k] \in Nat
    <3>1. FlowState(flows[k]) /\ Above(flows[k], high[k])
      BY <1>1, <1>3 DEF KeyInv
    <3>2. Forbids([watermark |-> Watermark(flows[k]), left |-> 0], high[k])
      BY <3>1, WatermarkForbids
    <3> QED BY <1>3, <3>2 DEF Forbids, Ids
  <2> QED BY <1>3, <2>1
<1>7. IsFiniteSet(DOMAIN mark)
  BY <1>3, FS_Subset DEF LimitsInv, FlowsFit
<1>8. StonesFit(tombstones')
  BY <1>2, <1>3, <1>6, <1>7, BuryFits DEF LimitsInv
<1> QED BY <1>5, <1>8, LimitsKept

LEMMA TickFits ==
  ASSUME ReceiveLimits, LimitsInv, ReceiveInv, Tick PROVE LimitsInv'
<1>1. /\ flows' = [k \in Keys |-> IF flows[k] = None THEN None ELSE Older(flows[k])]
      /\ tombstones' = [k \in Keys |-> IF tombstones[k] = None THEN None
                                       ELSE [tombstones[k] EXCEPT !.left = Minus(@, 1)]]
  BY DEF Tick, Ticking
<1>2. ASSUME NEW f, FlowState(f), InWindow(f) PROVE InWindow(Older(f))
  <2> DEFINE g == Older(f)
             idle == Aged(f.idle, FlowIdleTTL)
             b == [i \in Held(f) |->
                    [f.buffer[i] EXCEPT !.age = Aged(@, Deadline[f.class])]]
  <2>1. g = [f EXCEPT !.idle = idle, !.buffer = b]
    BY DEF Older
  <2>2. f = [class |-> f.class, next_expected |-> f.next_expected, exhausted |-> f.exhausted,
             buffer |-> f.buffer, bytes |-> f.bytes, idle |-> f.idle]
    BY <1>2 DEF FlowState
  <2>3. DOMAIN b = Held(f)
    OBVIOUS
  <2> HIDE DEF g, idle, b
  <2>4. g.next_expected = f.next_expected /\ g.exhausted = f.exhausted /\ g.buffer = b
    BY <2>1, <2>2
  <2>5. Held(g) = Held(f)
    BY <2>3, <2>4 DEF Held
  <2>6. InWindow(g)
    BY <1>2, <2>4, <2>5 DEF InWindow
  <2> QED BY <2>6 DEF g
<1>3. \A k \in Keys : flows'[k] # None => flows[k] # None /\ InWindow(flows'[k])
  <2>1. ASSUME NEW k \in Keys, flows'[k] # None
        PROVE  flows[k] # None /\ InWindow(flows'[k])
    <3>1. flows[k] # None /\ flows'[k] = Older(flows[k])
      BY <1>1, <2>1
    <3>2. FlowState(flows[k]) /\ InWindow(flows[k])
      BY <3>1 DEF ReceiveInv, KeyInv, LimitsInv, FlowsFit, Known
    <3> QED BY <1>2, <3>1, <3>2
  <2> QED BY <2>1
<1>4. FlowsFit(flows')
  BY <1>3, FlowsShrink DEF LimitsInv
<1>5. Known(tombstones') \subseteq Known(tombstones)
  BY <1>1 DEF Known
<1>6. ASSUME NEW k \in Known(tombstones') PROVE Stone(tombstones'[k])
  <2> DEFINE t == tombstones[k]
             u == [t EXCEPT !.left = Minus(@, 1)]
  <2>1. k \in Keys /\ t # None /\ Stone(t)
    BY <1>5 DEF Known, LimitsInv, StonesFit
  <2>2. tombstones'[k] = u /\ Forbids(t, high[k])
    BY <1>1, <2>1 DEF ReceiveInv, KeyInv
  <2>3. t = [watermark |-> t.watermark, left |-> t.left]
    BY <2>2 DEF Forbids
  <2>4. u.watermark = t.watermark /\ u.left = Minus(t.left, 1)
    BY <2>3
  <2> HIDE DEF u
  <2> QED BY <2>1, <2>2, <2>4 DEF Stone, Minus
<1>7. MaxTombstones \in Nat
  BY DEF ReceiveLimits, ReorderLimits
<1>8. StonesFit(tombstones')
  BY <1>5, <1>6, <1>7, Fewer DEF LimitsInv, StonesFit
<1> QED BY <1>4, <1>8, LimitsKept

LEMMA LimitsNext ==
  ASSUME ReceiveLimits, LimitsInv, ReceiveInv, Next PROVE LimitsInv'
<1>1. CASE UNCHANGED <<flows, tombstones>>
  BY <1>1, LimitsKept DEF LimitsInv
<1>2. CASE Tick
  BY <1>2, TickFits
<1>3. CASE ExpireReorder
  BY <1>3, ExpireFits DEF ExpireReorder
<1>4. CASE ExpireDedup
  BY <1>1, <1>4 DEF ExpireDedup, reorder
<1>5. ASSUME NEW k \in Keys, NEW c \in Classes, NEW id \in Ids, NEW len \in Lengths,
             Arrive(k, c, id, len)
      PROVE  LimitsInv'
  BY <1>1, <1>5, ReceiveFits DEF Arrive, reorder
<1> QED BY <1>2, <1>3, <1>4, <1>5 DEF Next

\* Neither table outgrows its limit, and every packet that waits is ahead of the
\* one its flow expects and in the flow's window: no delivery, skip or eviction
\* leaves one behind that nothing delivers any more.  For any number of keys.
THEOREM WithinWindow == Spec => []Windowed
<1>1. Init => LimitsInv
  <2> SUFFICES ASSUME Init PROVE LimitsInv
    OBVIOUS
  <2>1. Known(flows) = {} /\ Known(tombstones) = {}
    BY DEF Init, NewReorder, Known
  <2>2. MaxFlows \in Nat /\ MaxTombstones \in Nat
    BY ReceiveLimits DEF ReceiveLimits, ReorderLimits
  <2>3. IsFiniteSet({}) /\ Cardinality({}) = 0
    BY FS_EmptySet
  <2> QED BY <2>1, <2>2, <2>3 DEF LimitsInv, FlowsFit, StonesFit
<1>2. ReceiveInv /\ LimitsInv /\ [Next]_vars => LimitsInv'
  <2>1. ASSUME LimitsInv, UNCHANGED vars PROVE LimitsInv'
    BY <2>1, LimitsKept DEF vars, reorder, LimitsInv
  <2> QED BY <2>1, LimitsNext, ReceiveLimits
<1>3. LimitsInv => Windowed
  BY DEF LimitsInv, FlowsFit, StonesFit, Windowed
<1> QED BY <1>1, <1>2, <1>3, ReceiveInductive, PTL DEF Spec
=============================================================================
