------------------------------- MODULE V1Tunnel -------------------------------
(***************************************************************************)
(* The V1 gateway tunnel: one reader task per accepted connection, the     *)
(* sessions they share, and the downlink loop. Each lock region of a task  *)
(* is a step of its own.                                                   *)
(***************************************************************************)
EXTENDS V1Session, Sequences

CONSTANTS
  Conns,              \* accepted connections
  Sessions,           \* session prefixes on the wire
  MaxSeq              \* bound on the sequence numbers of the data packets

ASSUME NoneIsNoConn == None \notin Conns

VARIABLES
  sessions,           \* SessionManager
  reader,             \* the task of each connection
  binds,              \* the (session, path) pairs each connection bound
  flows,              \* sessions whose flows the table has learned
  downlink,           \* the frame the downlink loop has decided and not sent
  tun                 \* history: the packets written to the TUN, per session

tunnel_vars == <<sessions, reader, binds, flows, downlink, tun>>

Fresh == [pc |-> "first", sid |-> None, of |-> None, control |-> None, out |-> <<>>]
Gone == [Fresh EXCEPT !.pc = "gone"]
Controls == {"PathSelect"} \X Paths \cup {"WeightSet"} \X SUBSET Paths

\* Binds a path the session does not have yet.
Binding(c, s, p) ==
  IF p \in Bound(sessions[s]) THEN sessions[s] ELSE AddPath(sessions[s], p, c)

\* Mutant: the connection claims the path whoever bound it.
ClaimsAlways(c, s, p) == binds' = [binds EXCEPT ![c] = @ \cup {<<s, p>>}]

Claims(c, s, p) ==
  binds' = [binds EXCEPT ![c] = IF p \in Bound(sessions[s]) THEN @ ELSE @ \cup {<<s, p>>}]

-----------------------------------------------------------------------------
\* reader_loop

\* A signed Init is acknowledged and its path bound at once.
Init_(c, s, p) ==
  /\ reader[c] = Fresh
  /\ sessions' = [sessions EXCEPT ![s] = Binding(c, s, p)] /\ Claims(c, s, p)
  /\ reader' = [reader EXCEPT ![c].pc = "reading", ![c].sid = s]
  /\ UNCHANGED <<flows, downlink, tun>>

\* Any other control message, a refused ticket or a dead connection.
Refused(c) ==
  /\ reader[c] = Fresh
  /\ reader' = [reader EXCEPT ![c] = Gone]
  /\ UNCHANGED <<sessions, binds, flows, downlink, tun>>

\* A first frame that is no control message is processed like the others,
\* without a session the ticket accredits.
Fallback(c) ==
  /\ reader[c] = Fresh
  /\ reader' = [reader EXCEPT ![c].pc = "reading"]
  /\ UNCHANGED <<sessions, binds, flows, downlink, tun>>

Reading(c) == reader[c].pc = "reading"
Accredited(c, s) == reader[c].sid \in {None, s}

Data(c, s, p, seq) ==
  /\ Reading(c) /\ Accredited(c, s)
  /\ Claims(c, s, p)
  /\ LET b == sessions[s].reorder
     IN /\ sessions' =
             [sessions EXCEPT ![s] = [Binding(c, s, p) EXCEPT !.reorder = Deliver(b, seq)]]
        /\ reader' = [reader EXCEPT ![c] =
             [@ EXCEPT !.pc = IF Released(b, seq) = <<>> THEN "reading" ELSE "deliver",
                       !.of = s, !.out = Released(b, seq)]]
  /\ UNCHANGED <<flows, downlink, tun>>

\* The flow key of a payload, abstracted to the session it leads back to.
Learns(s) == flows' = flows \cup {s}

\* One payload: the flow is learned, then the TUN written.
WriteTun(c) ==
  LET r == reader[c]
  IN /\ r.pc = "deliver"
     /\ Learns(r.of)
     /\ tun' = [tun EXCEPT ![r.of] = Append(@, Head(r.out))]
     /\ reader' = [reader EXCEPT ![c] =
          [@ EXCEPT !.out = Tail(@), !.pc = IF Len(r.out) = 1 THEN "reading" ELSE @]]
     /\ UNCHANGED <<sessions, binds, downlink>>

\* Keepalive, probe, control: the path is bound before the message is looked at.
Binds(c, s, p) ==
  /\ Reading(c) /\ Accredited(c, s) /\ p \notin Bound(sessions[s])
  /\ Claims(c, s, p) /\ sessions' = [sessions EXCEPT ![s] = Binding(c, s, p)]
  /\ UNCHANGED <<reader, flows, downlink, tun>>

Control(c, s, p, msg) ==
  /\ Reading(c) /\ Accredited(c, s)
  /\ Claims(c, s, p) /\ sessions' = [sessions EXCEPT ![s] = Binding(c, s, p)]
  /\ reader' = [reader EXCEPT ![c] = [@ EXCEPT !.pc = "apply", !.of = s, !.control = msg]]
  /\ UNCHANGED <<flows, downlink, tun>>

Apply(c) ==
  LET r == reader[c]
      s == sessions[r.of]
  IN /\ r.pc = "apply"
     /\ sessions' = [sessions EXCEPT ![r.of] =
          IF r.control[1] = "PathSelect" THEN SetActive(s, r.control[2])
          ELSE AdoptWeights(s, r.control[2])]
     /\ reader' = [reader EXCEPT ![c] = [@ EXCEPT !.pc = "reading", !.control = None]]
     /\ UNCHANGED <<binds, flows, downlink, tun>>

\* The connection died, or sent an envelope of another session.
Evict(c) ==
  /\ Reading(c)
  /\ sessions' = [s \in Sessions |->
       RemovePaths(sessions[s], {p \in Paths : <<s, p>> \in binds[c]})]
  /\ binds' = [binds EXCEPT ![c] = {}]
  /\ reader' = [reader EXCEPT ![c] = Gone]
  /\ UNCHANGED <<flows, downlink, tun>>

-----------------------------------------------------------------------------
\* downlink_loop

Steers(s) ==
  /\ downlink = None /\ s \in flows
  /\ \E p \in Egress(sessions[s]) : downlink' = <<s, p>>
  /\ UNCHANGED <<sessions, reader, binds, flows, tun>>

\* The path may be gone by the time the lock is taken again.
Sends ==
  /\ downlink # None /\ downlink' = None
  /\ UNCHANGED <<sessions, reader, binds, flows, tun>>

WeightsExpire(s) ==
  /\ sessions[s].fresh
  /\ sessions' = [sessions EXCEPT ![s] = Expire(@)]
  /\ UNCHANGED <<reader, binds, flows, downlink, tun>>

NewManager == [s \in Sessions |-> NewSession]

\* accept_loop spawns a reader for each connection.
Accepted == [c \in Conns |-> Fresh]

TunnelInit ==
  /\ sessions = NewManager
  /\ reader = Accepted
  /\ binds = [c \in Conns |-> {}] /\ flows = {}
  /\ downlink = None /\ tun = [s \in Sessions |-> <<>>]

TunnelNext ==
  \/ \E c \in Conns :
       \/ \E s \in Sessions, p \in Paths :
            \/ Init_(c, s, p) \/ Binds(c, s, p)
            \/ \E seq \in 0..MaxSeq : Data(c, s, p, seq)
            \/ \E msg \in Controls : Control(c, s, p, msg)
       \/ Refused(c) \/ Fallback(c) \/ WriteTun(c) \/ Apply(c) \/ Evict(c)
  \/ \E s \in Sessions : Steers(s) \/ WeightsExpire(s)
  \/ Sends

TunnelSpec == TunnelInit /\ [][TunnelNext]_tunnel_vars

-----------------------------------------------------------------------------
\* A bound path belongs to a reader that is still there and that will evict
\* it, and a reader evicts only what it bound: a connection that dies never
\* takes a path of another connection with it, and never leaves one behind.
PathsOwned ==
  \A s \in Sessions, p \in Paths, c \in Conns :
    (sessions[s].paths[p] = c) <=> (<<s, p>> \in binds[c])

\* The downlink always has a bound path to use while the session has one: the
\* active path is bound whenever any path is, and no adopted weight outlives
\* the path it is for, however selections, weights and evictions race.
Steered ==
  \A s \in Sessions :
    /\ sessions[s].active = None <=> Bound(sessions[s]) = {}
    /\ sessions[s].active # None => sessions[s].active \in Bound(sessions[s])
    /\ sessions[s].bonds \subseteq Bound(sessions[s])
    /\ sessions[s].fresh => sessions[s].bonds # {}

\* "payloads are injected into the TUN in sequence order"
TunInOrder ==
  \A s \in Sessions : \A i \in 1..Len(tun[s]) - 1 : tun[s][i] < tun[s][i + 1]
=============================================================================
