--------------------------- MODULE FlowClassifier ---------------------------
(***************************************************************************)
(* The classifier of sg-multipath: flow identity and traffic class of a    *)
(* packet read from the TUN. A packet is the header fields the code reads; *)
(* the bytes behind the header are one value, readable as far as the slice *)
(* reaches. A flow identifier is the sequence of values that are mixed     *)
(* into the hash: collisions of the hash itself are left out.              *)
(***************************************************************************)
EXTENDS Naturals, Sequences, Option

CONSTANT TunPackets        \* packets that may be read

\* The header fields the code reads; addresses are any values.
ASSUME TunPacketFields ==
  \A p \in TunPackets :
    p \in [version : Nat, len : Nat, ihl : Nat, total : Nat, proto : Nat, more : BOOLEAN,
          offset : Nat, id : Nat, l4 : Nat, src : {p.src}, dst : {p.dst}]

VARIABLES last, packet       \* the two packets classified most recently

classifier_vars == <<last, packet>>

Ok(flow, class) == [flow |-> flow, class |-> class]
Err(e) == [error |-> e]
IsOk(r) == "flow" \in DOMAIN r

\* Mutant: the hash leaves the protocol out.
HashAddresses(version, proto, fragmented, p, ports, id) ==
  <<version, fragmented, p.src, p.dst, ports, id>>

\* The order of mixing: prefix, the fragment flag, addresses, ports, IP id.
HashFlow(version, proto, fragmented, p, ports, id) ==
  <<version, proto, fragmented, p.src, p.dst, ports, id>>

Combine(flow, id) == Append(flow, id)

ClassForProtocol(proto) ==
  CASE proto = 6 -> "Bulk" [] proto = 17 -> "Realtime"
    [] proto \in {1, 58} -> "Interactive" [] OTHER -> "Bulk"

\* Ports need four bytes behind the header, an ICMP identifier six.
TransportPorts(p, end, header, icmp) ==
  IF \/ p.proto \in {6, 17} /\ end >= header + 4
     \/ p.proto = icmp /\ p.proto \notin {6, 17} /\ end >= header + 6
  THEN p.l4 ELSE None

\* Everything is read from the slice of the declared length.
DeclaredEnd(p) == IF p.version = 4 THEN p.total ELSE 40 + p.total

ClassifyIPv4(p) ==
  CASE p.len < 20 -> Err("Truncated")
    [] p.len >= 20 /\ p.ihl < 5 -> Err("InvalidHeader")
    [] p.len >= 20 /\ p.ihl >= 5 /\ 4 * p.ihl > p.len -> Err("Truncated")
    [] p.len >= 20 /\ p.ihl >= 5 /\ 4 * p.ihl <= p.len ->
         CASE p.total < 4 * p.ihl -> Err("InvalidHeader")
           [] p.total >= 4 * p.ihl /\ p.total > p.len -> Err("Truncated")
           [] p.total >= 4 * p.ihl /\ p.total <= p.len ->
                IF p.more \/ p.offset # 0
                THEN Ok(HashFlow(4, p.proto, TRUE, p, None, p.id), "Bulk")
                ELSE Ok(HashFlow(4, p.proto, FALSE, p,
                                 TransportPorts(p, DeclaredEnd(p), 4 * p.ihl, 1), None),
                        ClassForProtocol(p.proto))

ClassifyIPv6(p) ==
  CASE p.len < 40 \/ 40 + p.total > p.len -> Err("Truncated")
    [] p.len >= 40 /\ 40 + p.total <= p.len ->
         CASE p.proto = 44 /\ DeclaredEnd(p) < 48 -> Err("Truncated")
           [] p.proto = 44 /\ DeclaredEnd(p) >= 48 ->
                Ok(Combine(HashFlow(6, 44, TRUE, p, None, None), p.id), "Bulk")
           [] p.proto \in {0, 43, 60} ->
                Ok(HashFlow(6, p.proto, FALSE, p, None, None), "Bulk")
           [] p.proto \notin {0, 43, 44, 60} ->
                Ok(HashFlow(6, p.proto, FALSE, p,
                            TransportPorts(p, DeclaredEnd(p), 40, 58), None),
                   ClassForProtocol(p.proto))

ClassifyPacket(p) ==
  CASE p.len = 0 -> Err("Empty")
    [] p.len > 0 /\ p.version = 4 -> ClassifyIPv4(p)
    [] p.len > 0 /\ p.version = 6 -> ClassifyIPv6(p)
    [] p.len > 0 /\ p.version \notin {4, 6} -> Err("NotIp")

\* What Classifier::classify counts a classified packet as.
IsFragment(p) ==
  \/ /\ p.version = 4 /\ p.len >= 20 /\ p.ihl >= 5 /\ 4 * p.ihl <= p.len
     /\ p.total >= 4 * p.ihl /\ p.total <= p.len /\ (p.more \/ p.offset # 0)
  \/ /\ p.version = 6 /\ p.len >= 40 /\ 40 + p.total <= p.len /\ p.proto = 44

ClassifierInit == packet \in TunPackets /\ last = packet

Classify(p) == last' = packet /\ packet' = p

ClassifierNext == \E p \in TunPackets : Classify(p)

ClassifierSpec == ClassifierInit /\ [][ClassifierNext]_classifier_vars

-----------------------------------------------------------------------------
\* Two packets with the same header, received with different trailing bytes.
SameDatagram(p, q) == [p EXCEPT !.len = q.len] = q

\* Two fragments of one datagram: what follows the header differs.
SameTrain(p, q) ==
  /\ IsFragment(p) /\ IsFragment(q)
  /\ <<p.version, p.proto, p.src, p.dst, p.id>> = <<q.version, q.proto, q.src, q.dst, q.id>>

\* The reorder table fixes the class of a flow by its first packet and drops
\* every later packet of another class, so a flow has to determine the class;
\* all fragments of a datagram go to one flow, whatever bytes they start with;
\* and bytes behind the declared length change neither flow nor class.
FlowsStable ==
  LET r == ClassifyPacket(last) s == ClassifyPacket(packet)
  IN IsOk(r) /\ IsOk(s) =>
       /\ r.flow = s.flow => r.class = s.class
       /\ SameTrain(last, packet) => r = s
       /\ SameDatagram(last, packet) => r = s
       /\ IsFragment(packet) => s.class = "Bulk"
=============================================================================
