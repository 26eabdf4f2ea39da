------------------------------ MODULE StatusPlane ------------------------------
(***************************************************************************)
(* The local status server: a challenge per connection, the remembered     *)
(* nonces that refuse a second use, the quota of snapshots; and the client *)
(* that retries opening the transport but never the handshake.             *)
(***************************************************************************)
EXTENDS Naturals, Sequences, FiniteSets, SequencesExt, Option

CONSTANTS
  Workers,            \* connection workers
  Nonces,             \* a small random source, so that nonces do collide
  MaxSeen,            \* MAX_SEEN_NONCES
  MaxSnapshots,       \* MAX_SNAPSHOTS_PER_CONNECTION
  ConnectAttempts,    \* CONNECT_ATTEMPTS
  MaxCalls            \* bound on the calls of the client

\* The server has a bounded number of workers and a ring of a fixed size.
ASSUME StatusLimits == IsFiniteSet(Workers) /\ MaxSeen \in Nat

VARIABLES
  conn,               \* the worker of each connection
  seen,               \* the ring of used nonces
  status_auth_failures,
  client,             \* attempts left of the connect in progress, or None
  calls,              \* history: connects started, up to MaxCalls
  answered            \* history: the latest nonces authenticated, MaxSeen + 1 at most

status_vars == <<conn, seen, status_auth_failures, client, calls, answered>>

Free == [pc |-> "free", nonce |-> None, served |-> 0]
Turns(c, pc) == conn' = [conn EXCEPT ![c].pc = pc]
Drops(c) == conn' = [conn EXCEPT ![c] = Free]
Latest(s) == IF Len(s) > MaxSeen + 1 THEN Tail(s) ELSE s

-----------------------------------------------------------------------------
\* StatusClient::connect, serve_tcp, serve_named_pipe

Connects ==
  /\ client = None /\ calls < MaxCalls
  /\ client' = ConnectAttempts /\ calls' = calls + 1
  /\ UNCHANGED <<conn, seen, status_auth_failures, answered>>

OpenFails ==
  /\ client # None
  /\ client' = IF client = 1 THEN None ELSE client - 1
  /\ UNCHANGED <<conn, seen, status_auth_failures, calls, answered>>

\* The worker draws a nonce and sends it.
Challenges(c, n) ==
  /\ client # None /\ conn[c] = Free
  /\ conn' = [conn EXCEPT ![c] = [pc |-> "challenged", nonce |-> n, served |-> 0]]
  /\ client' = None
  /\ UNCHANGED <<seen, status_auth_failures, calls, answered>>

\* handle_connection counts a rejected answer once and drops the connection.
Refuses(c) == Drops(c) /\ status_auth_failures' = status_auth_failures + 1

\* run_connection: the frame is malformed, echoes another nonce or is signed
\* with another token.
Rejects(c) ==
  /\ conn[c].pc = "challenged"
  /\ Refuses(c)
  /\ UNCHANGED <<seen, client, calls, answered>>

\* Mutant: the ring is cut one too short.
RememberedShort(q, n) == LET r == Append(q, n) IN IF Len(r) >= MaxSeen THEN Tail(r) ELSE r

Remembered(q, n) == LET r == Append(q, n) IN IF Len(r) > MaxSeen THEN Tail(r) ELSE r

\* The nonce is looked up and remembered under one lock.
Answers(c) ==
  LET n == conn[c].nonce
  IN /\ conn[c].pc = "challenged"
     /\ \/ /\ Contains(seen, n)
           /\ Refuses(c) /\ UNCHANGED <<seen, answered>>
        \/ /\ ~Contains(seen, n)
           /\ seen' = Remembered(seen, n) /\ answered' = Latest(Append(answered, n))
           /\ Turns(c, "serving") /\ UNCHANGED status_auth_failures
     /\ UNCHANGED <<client, calls>>

Serves(c) ==
  /\ conn[c].pc = "serving"
  /\ IF conn[c].served + 1 = MaxSnapshots THEN Drops(c)
     ELSE conn' = [conn EXCEPT ![c].served = @ + 1]
  /\ UNCHANGED <<seen, status_auth_failures, client, calls, answered>>

\* The peer leaves, or a frame cannot be read or written: no refusal.
Leaves(c) ==
  /\ conn[c].pc \in {"challenged", "serving"} /\ Drops(c)
  /\ UNCHANGED <<seen, status_auth_failures, client, calls, answered>>

StatusInit ==
  /\ conn = [c \in Workers |-> Free] /\ seen = <<>> /\ status_auth_failures = 0
  /\ client = None /\ calls = 0 /\ answered = <<>>

StatusNext ==
  \/ Connects \/ OpenFails
  \/ \E c \in Workers : \/ \E n \in Nonces : Challenges(c, n)
                      \/ Rejects(c) \/ Answers(c) \/ Serves(c) \/ Leaves(c)

StatusSpec == StatusInit /\ [][StatusNext]_status_vars

-----------------------------------------------------------------------------
\* A nonce that comes up again within MaxSeen authentications is refused,
\* whichever connections it is answered on, and one connect of a client is
\* never counted as more than one refusal.
NonceOnce ==
  /\ \A i, j \in 1..Len(answered) : i # j => answered[i] # answered[j]
  /\ status_auth_failures <= calls
=============================================================================
