---------------------------- MODULE DatagramSend ----------------------------
(***************************************************************************)
(* The V2 datagram send path: the MTU admission gate, the packet-ID        *)
(* sequencer, CheckedDatagramSender::send_checked over a QUIC connection,  *)
(* the envelope codec, and the engine's MTU events.                        *)
(*                                                                         *)
(* send_checked holds the gate and the sequencer exclusively, so nothing   *)
(* else touches them between its steps; the limit of the connection moves  *)
(* at any moment, also between the query and the transmission.             *)
(***************************************************************************)
EXTENDS Naturals, Option

CONSTANTS
  HeaderLen,          \* FIXED_HEADER_LEN
  MaxDatagram,        \* MAX_DATAGRAM_MTU
  SafeDatagram,       \* SAFE_MODE_MIN_DATAGRAM_MTU
  LastPacketId,       \* u64::MAX
  Limits,             \* what the connection may advertise
  Lens,               \* payload lengths
  BackendMtus,        \* MTUs of the TUN backend
  Headers             \* envelope headers a caller builds

\* The lengths are numbers and an absent limit is not one.
SendBounds ==
  /\ HeaderLen \in Nat /\ MaxDatagram \in Nat /\ LastPacketId \in Nat
  /\ Lens \subseteq Nat
  /\ None \notin Nat
ASSUME SendAssumption == SendBounds

VARIABLES
  state,              \* PathMtuState: "Unknown", "Available", "Reduced", "BlackHole"
  mtu,                \* its datagram MTU, None when sends are denied
  tun,                \* tun_payload_mtu
  limit,              \* max_datagram_size of the connection
  next, exhausted,    \* PacketIdSequencer
  pending,            \* the datagram between encoding and the transport's answer
  wire,               \* the datagram the transport accepted last
  least               \* the least limit reported since the last discovery

gate == <<state, mtu, tun>>
sequencer == <<next, exhausted>>
sender_vars == <<gate, limit, sequencer, pending, wire, least>>

\* PathMtuState
Sendable == {"Available", "Reduced"}

DatagramMtus == HeaderLen..MaxDatagram
Effective(m) == m - HeaderLen

-----------------------------------------------------------------------------
\* The MTU gate

Available(m) == state' = "Available" /\ mtu' = m
SendDenied == state \notin Sendable

\* A new discovery forgets earlier reports.
Discover(m) ==
  /\ pending = None
  /\ Available(m) /\ least' = m
  /\ UNCHANGED <<tun, limit, sequencer, pending, wire>>

\* Mutant: any reported value replaces the limit.
SmallerAny(m) == TRUE

\* Only a strictly smaller value replaces the limit.
Smaller(m) == m < mtu

Reported(m) == least' = IF SendDenied \/ m > least THEN least ELSE m

Reduce(m) ==
  /\ pending = None
  /\ \/ ~SendDenied /\ Smaller(m) /\ state' = "Reduced" /\ mtu' = m
     \/ ~SendDenied /\ ~Smaller(m) /\ UNCHANGED <<state, mtu>>
     \/ SendDenied /\ UNCHANGED <<state, mtu>>
  /\ Reported(m)
  /\ UNCHANGED <<tun, limit, sequencer, pending, wire>>

\* PathMtuState::blackhole: nothing is sent until a recovery.
Blackholed == ~SendDenied /\ state' = "BlackHole" /\ mtu' = None

BlackHole ==
  /\ pending = None
  /\ Blackholed /\ least' = None
  /\ UNCHANGED <<tun, limit, sequencer, pending, wire>>

\* PathMtuState::recover does nothing in any other state.
Recovers == state = "BlackHole"

Recover(m) == Recovers /\ Discover(m)

\* sync_from_transport: discover when unknown, else only ever reduce.
SyncFromTransport(m) ==
  \/ state = "Unknown" /\ Available(m) /\ least' = m
  \/ /\ state \in Sendable /\ Smaller(m)
     /\ state' = "Reduced" /\ mtu' = m /\ Reported(m)
  \/ /\ state \in Sendable /\ ~Smaller(m)
     /\ UNCHANGED <<state, mtu, least>>
  \/ state = "BlackHole" /\ UNCHANGED <<state, mtu, least>>

\* admit_envelope: the whole datagram against the limit just synchronised.
AdmitEnvelope(len) == mtu' # None /\ len > 0 /\ HeaderLen + len <= mtu'

\* can_carry_tun_payload keeps the path eligible.
CanCarryTunPayload == mtu # None /\ Effective(mtu) >= tun

-----------------------------------------------------------------------------
\* The envelope codec

ValidHeader(h) == h.class # "Control" /\ h.path_epoch # 0 /\ h.key_epoch # 0
ValidLen(len, max) == len > 0 /\ len <= max

Encodes(h, len, max) == ValidHeader(h) /\ ValidLen(len, max)

\* What the peer makes of a datagram whose payload limit is max.
Decodes(d, max) ==
  /\ d.len >= HeaderLen
  /\ ValidHeader(d.header) /\ ValidLen(d.declared, max)
  /\ d.len - HeaderLen = d.declared

-----------------------------------------------------------------------------
\* send_checked

\* max_datagram_size as a checked MTU: no fallback for an absent or bad one.
CurrentDatagramMtu == IF limit \in DatagramMtus THEN limit ELSE None

\* The single-use reservation of the head of the sequencer; an exhausted one
\* reserves nothing.
Preview == IF exhausted THEN None ELSE next

\* What the transport seam accepts: it never synthesizes a limit.
Accepts(d) == limit # None /\ d.len <= limit

Ignored == UNCHANGED <<tun, limit, sequencer, pending, wire>>

\* Steps 0 to 2: exhaustion, the absent limit, the gate.
Refuse(len) ==
  /\ pending = None
  /\ \/ Preview = None /\ UNCHANGED <<state, mtu, least>>
     \/ Preview # None /\ CurrentDatagramMtu = None /\ UNCHANGED <<state, mtu, least>>
     \/ /\ Preview # None /\ CurrentDatagramMtu # None
        /\ SyncFromTransport(CurrentDatagramMtu) /\ ~AdmitEnvelope(len)
  /\ Ignored

\* Steps 3 to 6 with an envelope of its own identifier, header and payload.
Build(len, h, id, actual) ==
  /\ pending = None /\ Preview # None /\ CurrentDatagramMtu # None
  /\ SyncFromTransport(CurrentDatagramMtu) /\ AdmitEnvelope(len)
  /\ \/ /\ id = Preview /\ Encodes(h, actual, Effective(mtu'))
        /\ pending' = [id |-> id, header |-> h, declared |-> actual,
                       len |-> HeaderLen + actual]
     \/ (id # Preview \/ ~Encodes(h, actual, Effective(mtu'))) /\ UNCHANGED pending
  /\ UNCHANGED <<tun, limit, sequencer, wire>>

\* Mutant: the last identifier is issued over and over.
CommitSaturates ==
  /\ next' = IF next = LastPacketId THEN LastPacketId ELSE next + 1
  /\ UNCHANGED exhausted

Commit ==
  \/ next = LastPacketId /\ exhausted' = TRUE /\ UNCHANGED next
  \/ next < LastPacketId /\ next' = next + 1 /\ UNCHANGED exhausted

\* Steps 7 and 8: the identifier is spent only when the transport took it.
Transmit ==
  /\ pending # None
  /\ \/ /\ Accepts(pending)
        /\ wire' = pending
        /\ Commit
     \/ UNCHANGED <<wire, sequencer>>     \* TooLarge, Disabled, Lost
  /\ pending' = None
  /\ UNCHANGED <<gate, limit, least>>

\* The future of send_checked is dropped before the transport ran.
Dropped ==
  /\ pending # None /\ pending' = None
  /\ UNCHANGED <<gate, limit, sequencer, wire, least>>

ConnectionChanges(l) ==
  /\ limit' = l
  /\ UNCHANGED <<gate, sequencer, pending, wire, least>>

-----------------------------------------------------------------------------
\* An engine on a TUN backend: an MTU out of range falls back to Safe Mode.
TunPayload(backend) ==
  IF backend + HeaderLen \in DatagramMtus THEN backend ELSE Effective(SafeDatagram)

NewAdmission(backend) ==
  state = "Unknown" /\ mtu = None /\ least = None /\ tun = TunPayload(backend)

NewSequencer(start) == next = start /\ exhausted = FALSE

\* CheckedDatagramSender::new over a connection
NewSender == limit \in Limits /\ pending = None /\ wire = None

SenderInit ==
  (\E b \in BackendMtus : NewAdmission(b)) /\ NewSequencer(0) /\ NewSender

\* on_mtu_discovered, on_mtu_reduced, on_mtu_recovered, on_mtu_blackhole
MtuEvents ==
  \/ \E m \in DatagramMtus : Discover(m) \/ Reduce(m) \/ Recover(m)
  \/ BlackHole

\* What the holder of the engine's gate and sequencer can do with them.
Sends ==
  \/ \E len \in Lens : Refuse(len)
  \/ \E len \in Lens, actual \in Lens, h \in Headers, id \in {next, 0} :
       Build(len, h, id, actual)
  \/ Transmit \/ Dropped

SenderNext ==
  \/ MtuEvents \/ Sends
  \/ \E l \in Limits : ConnectionChanges(l)

SenderSpec == SenderInit /\ [][SenderNext]_sender_vars

-----------------------------------------------------------------------------
\* The sequencer spends one identifier per accepted datagram and none on a
\* rejection, a failed build, a refused or a dropped transmission: identifiers
\* on the wire strictly increase, up to and including the last one, which is
\* never sent twice.
FreshIds ==
  [][wire' # wire =>
       /\ wire'.id = next /\ ~exhausted
       /\ wire # None => wire'.id = wire.id + 1]_sender_vars

\* Whatever order discoveries, reductions and changes of the connection come
\* in, what reaches the wire fits every limit reported since the last
\* discovery, and the peer's decoder accepts it under the same limit.
WithinReported ==
  [][/\ mtu' # None => mtu' <= least'
     /\ wire' # wire =>
          wire'.len <= least /\ Decodes(wire', Effective(least))]_sender_vars
=============================================================================
