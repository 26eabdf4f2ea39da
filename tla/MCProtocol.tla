------------------------------ MODULE MCProtocol ------------------------------
(***************************************************************************)
(* The engines of the V2 protocol libraries in one run: the receive tables,*)
(* the flow classifier, the checked datagram sender, the uplink ingress of *)
(* the gateway and the control connection. They share no state; a behaviour*)
(* is one of the engine in focus while the others rest, so the run explores*)
(* the sum of their state spaces and every property is checked on each.    *)
(***************************************************************************)
EXTENDS FlowReceive, FlowClassifier, DatagramSend, UplinkIngress, ControlSequence, TLC

VARIABLE focus                \* the engine that runs

\* One tick for real-time traffic, two for bulk.
Deadlines == [c \in Classes |-> IF c = "Realtime" THEN 1 ELSE 2]

-----------------------------------------------------------------------------
\* Two addresses, every protocol class, fragments with and without the ports
\* of the first one, padded, truncated and malformed packets.
Header4 ==
  [version : {4}, len : {28, 30}, ihl : {5}, total : {28}, proto : {6, 17, 1},
   more : BOOLEAN, offset : {0, 3}, id : {7}, l4 : {11}, src : {"a"}, dst : {"b"}]
Variant(p) == {[p EXCEPT !.l4 = 12], [p EXCEPT !.id = 8], [p EXCEPT !.dst = "a"]}
Odd4(p) ==
  {[p EXCEPT !.len = 0], [p EXCEPT !.len = 19], [p EXCEPT !.ihl = 4],
   [p EXCEPT !.ihl = 15], [p EXCEPT !.total = 16], [p EXCEPT !.total = 40],
   [p EXCEPT !.total = 22], [p EXCEPT !.version = 5]}
Header6 ==
  [version : {6}, len : {60}, ihl : {0}, total : {2, 8, 20}, proto : {0, 6, 44, 58},
   more : {FALSE}, offset : {0}, id : {7}, l4 : {11}, src : {"a"}, dst : {"b"}]
Udp == [version |-> 4, len |-> 28, ihl |-> 5, total |-> 28, proto |-> 17,
        more |-> FALSE, offset |-> 0, id |-> 7, l4 |-> 11, src |-> "a", dst |-> "b"]
Quiche == [Udp EXCEPT !.version = 6, !.len = 60, !.ihl = 0, !.total = 20]
ReadPackets ==
  Header4 \cup Header6 \cup Variant(Udp) \cup Odd4(Udp)
    \cup Variant([Udp EXCEPT !.more = TRUE])
    \cup {[Quiche EXCEPT !.len = 30], [Quiche EXCEPT !.len = 50], [Quiche EXCEPT !.id = 8, !.proto = 44]}

-----------------------------------------------------------------------------
\* Envelopes of data and of control, and with epochs that encode refuses.
Envelope(class, path_epoch, key_epoch) ==
  [class |-> class, path_epoch |-> path_epoch, key_epoch |-> key_epoch]
SentHeaders ==
  {Envelope("Bulk", 1, 1), Envelope("Control", 1, 1), Envelope("Bulk", 0, 1),
   Envelope("Bulk", 1, 0)}

-----------------------------------------------------------------------------
\* Packets of both versions, with the gateway's own, an unspecified and a leased
\* source, too long, too short and malformed.
UplinkPackets ==
  [version : {4}, len : {20}, total : {20}, ihl : {5}, src : {"a1", "zero", "gateway"}]
    \cup [version : {6}, len : {40}, total : {0}, ihl : {5}, src : {"a2"}]
    \cup [version : {4}, len : {24, 60}, total : {20}, ihl : {4, 5, 7}, src : {"a1"}]
    \cup [version : {5}, len : {0, 24}, total : {20}, ihl : {4}, src : {"a1"}]

\* Nonces are only compared for equality.
NonceSymmetry == Permutations(Nonces)

-----------------------------------------------------------------------------
RunInit ==
  /\ focus \in {"receive", "classifier", "send", "uplink", "control"}
  /\ Init /\ SenderInit /\ IngressInit /\ ControlInit
  /\ IF focus = "classifier" THEN ClassifierInit ELSE packet = Udp /\ last = Udp
  /\ focus # "send" => limit = 5 /\ tun = 3

RunNext ==
  \/ /\ focus = "receive" /\ Next
     /\ UNCHANGED <<focus, classifier_vars, sender_vars, ingress_vars, control_vars>>
  \/ /\ focus = "classifier" /\ ClassifierNext
     /\ UNCHANGED <<focus, vars, sender_vars, ingress_vars, control_vars>>
  \/ /\ focus = "send" /\ SenderNext
     /\ UNCHANGED <<focus, vars, classifier_vars, ingress_vars, control_vars>>
  \/ /\ focus = "uplink" /\ IngressNext
     /\ UNCHANGED <<focus, vars, classifier_vars, sender_vars, control_vars>>
  \/ /\ focus = "control" /\ ControlNext
     /\ UNCHANGED <<focus, vars, classifier_vars, sender_vars, ingress_vars>>

run_vars == <<focus, vars, classifier_vars, sender_vars, ingress_vars, control_vars>>

RunSpec == RunInit /\ [][RunNext]_run_vars
=============================================================================
