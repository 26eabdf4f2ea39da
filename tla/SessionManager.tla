---------------------------- MODULE SessionManager ----------------------------
(***************************************************************************)
(* The V2 gateway's session manager (v2/session_manager.rs): the map of    *)
(* admitted sessions, admission reservations, authenticated connections    *)
(* and their path bindings.  Every method runs under one mutex, so it is   *)
(* one step here; what interleaves are the methods of different listener   *)
(* tasks, the sweep, and the cleanup hooks, which run after the mutex is   *)
(* released.                                                               *)
(*                                                                         *)
(* Tasks hold what the methods return: an AdmissionReservation between     *)
(* reserve_admission and commit or abort (grant), an AuthenticatedConnec-  *)
(* tion for as long as they like (handle), an attach reservation between   *)
(* reserve_attach and commit_attach (attach).  All are copies: the manager *)
(* may have forgotten what they stand for.                                 *)
(***************************************************************************)
EXTENDS V2Session

CONSTANTS
  Sessions,         \* session identifiers
  Tasks,            \* listener tasks that admit connections
  Expiries,         \* instants at which an admission ticket may expire
  MaxSessions,      \* maximum_sessions
  MaxPending,       \* maximum_pending_attaches
  PendingTTL,       \* pending_attach_ttl_ms, in ticks
  IdleTTL,          \* idle_ttl_ms, in ticks
  MaxTime,          \* bound on the clock
  MaxSkew,          \* bound on the age of the time a caller passes in
  MaxOwed           \* bound on the cleanups of one session that wait to run

ASSUME ManagerBounds ==
  /\ MaxSessions \in Nat \ {0} /\ MaxPending \in Nat \ {0}
  /\ PendingTTL \in Nat \ {0} /\ IdleTTL \in Nat \ {0}
  /\ MaxTime \in Nat /\ MaxSkew \in Nat /\ MaxOwed \in Nat
  /\ Expiries \subseteq Nat \ {0}
  /\ IsFiniteSet(Sessions) /\ IsFiniteSet(Conns)

\* AdmissionReservation without creates_session, which only a grant varies.
Admission == [dev : Devices, exp : Nat]
Grant == [session : Sessions, dev : Devices, exp : Nat, creates : BOOLEAN]

\* What a connection is bound to, and a binding that waits for its commit.
Binding == [session : Sessions, path : PathIds, pe : Epochs, ke : Epochs]
PendingAttach ==
  [session : Sessions, path : PathIds, pe : Epochs, ke : Epochs, exp : Nat]

ASSUME ManagerNone ==
  /\ None \notin Sessions /\ None \notin Admission /\ None \notin Grant
  /\ None \notin Binding /\ None \notin PendingAttach

VARIABLES
  now,                        \* the gateway's monotonic clock
  sessions,                   \* State.sessions
  admissions,                 \* State.admissions
  connections,                \* State.connections
  pending_connections,        \* State.pending_connections
  authenticated_connections,  \* State.authenticated_connections
  next_connection_id,         \* the source of connection identifiers
  grant,                      \* admission reservations the tasks hold
  handle,                     \* sessions of the capabilities handed out
  attach,                     \* attach reservations that wait for commit_attach
  owed                        \* removals whose cleanup hooks are still to run

bindings == <<connections, pending_connections, authenticated_connections>>
held == <<grant, handle, attach>>
vars == <<now, sessions, admissions, bindings, next_connection_id, held, owed>>

Live == {s \in Sessions : sessions[s] # None}
Reserved == {s \in Sessions : admissions[s] # None}
Bound(f) == {c \in Conns : f[c] # None}

Captured == {t \in 0 .. now : now - t <= MaxSkew}

IsIdle(x, t) == t >= x.last + IdleTTL

\* maximum_authenticated_connections
ConnectionCapacity ==
  Cardinality(Bound(authenticated_connections)) >= MaxSessions * MaxPaths

-----------------------------------------------------------------------------
\* remove_session, prune_pending_attaches

\* Mutant: the capabilities of a removed session stay valid.
RemoveKeepingHandles(S, kept, pending) ==
  /\ sessions' = [s \in Sessions |-> IF s \in S THEN None ELSE kept[s]]
  /\ connections' = [c \in Conns |->
       IF connections[c] # None /\ connections[c].session \in S
       THEN None ELSE connections[c]]
  /\ pending_connections' = [c \in Conns |->
       IF pending[c] # None /\ pending[c].session \in S
       THEN None ELSE pending[c]]
  /\ owed' = [s \in Sessions |-> owed[s] + IF s \in S THEN 1 ELSE 0]
  /\ UNCHANGED authenticated_connections

\* Removes the sessions S with every binding of theirs; kept and pending are the
\* maps the same critical section has already pruned.
Remove(S, kept, pending) ==
  /\ sessions' = [s \in Sessions |-> IF s \in S THEN None ELSE kept[s]]
  /\ connections' = [c \in Conns |->
       IF connections[c] # None /\ connections[c].session \in S
       THEN None ELSE connections[c]]
  /\ pending_connections' = [c \in Conns |->
       IF pending[c] # None /\ pending[c].session \in S
       THEN None ELSE pending[c]]
  /\ authenticated_connections' = [c \in Conns |->
       IF authenticated_connections[c] \in S
       THEN None ELSE authenticated_connections[c]]
  /\ owed' = [s \in Sessions |-> owed[s] + IF s \in S THEN 1 ELSE 0]

Overdue(t) == {c \in Bound(pending_connections) : pending_connections[c].exp <= t}

PendingAfter(t) ==
  [c \in Conns |-> IF c \in Overdue(t) THEN None ELSE pending_connections[c]]

\* Mutant: an overdue attach is forgotten and its path stays reserved.
SessionsAfterLeaking(t) == sessions

\* The sessions with the paths of the overdue attaches aborted.
SessionsAfter(t) ==
  [s \in Sessions |->
     IF sessions[s] = None THEN None
     ELSE [sessions[s] EXCEPT !.paths = [p \in PathIds |->
        IF \E c \in Overdue(t) :
             /\ pending_connections[c].session = s
             /\ pending_connections[c].path = p
             /\ IsReservation(sessions[s], c, pending_connections[c])
        THEN None ELSE sessions[s].paths[p]]]]

-----------------------------------------------------------------------------
\* Admission

GrantFor(s, dev, exp, creates) ==
  [session |-> s, dev |-> dev, exp |-> exp, creates |-> creates]

Full(removed) ==
  Cardinality(Live \ removed) + Cardinality(Reserved) >= MaxSessions

\* reserve_admission: joins the session or the reservation of the same owner,
\* or reserves; an expired session of that name goes first.
ReserveAdmission(l, s, d, exp, t) ==
  LET gone == {x \in {s} \cap Live : IsExpired(sessions[x], t)}
      there == sessions[s] # None /\ s \notin gone
  IN /\ grant[l] = None
     /\ t < exp
     /\ owed[s] < MaxOwed
     /\ Remove(gone, sessions, pending_connections)
     /\ \/ /\ there
           /\ sessions[s].dev = d
           /\ grant' = [grant EXCEPT
                ![l] = GrantFor(s, d, sessions[s].exp, FALSE)]
           /\ UNCHANGED admissions
        \/ /\ ~there /\ admissions[s] # None
           /\ admissions[s].dev = d
           /\ grant' = [grant EXCEPT ![l] = GrantFor(s, d, admissions[s].exp, TRUE)]
           /\ UNCHANGED admissions
        \/ /\ ~there /\ admissions[s] = None
           /\ Full(gone)
           /\ UNCHANGED <<admissions, grant>>
        \/ /\ ~there /\ admissions[s] = None
           /\ ~Full(gone)
           /\ admissions' = [admissions EXCEPT ![s] = [dev |-> d, exp |-> exp]]
           /\ grant' = [grant EXCEPT ![l] = GrantFor(s, d, exp, TRUE)]
     /\ UNCHANGED <<now, next_connection_id, handle, attach>>

\* A new capability: its connection identifier was never used before.
Authenticate(s) ==
  /\ next_connection_id \in Conns
  /\ authenticated_connections' =
       [authenticated_connections EXCEPT ![next_connection_id] = s]
  /\ handle' = [handle EXCEPT ![next_connection_id] = s]
  /\ next_connection_id' = next_connection_id + 1

\* bind_authenticated_connection, for a grant that joins a session.
Bind(s, t) ==
  \/ /\ s \in Live /\ IsExpired(sessions[s], t)
     /\ Remove({s}, sessions, pending_connections)
     /\ UNCHANGED <<next_connection_id, handle>>
  \/ /\ s \in Live /\ ~IsExpired(sessions[s], t)
     /\ sessions[s].state = "Active" /\ ~ConnectionCapacity
     /\ Authenticate(s)
     /\ UNCHANGED <<sessions, connections, pending_connections, owed>>
  \/ /\ \/ s \notin Live
        \/ /\ s \in Live /\ ~IsExpired(sessions[s], t)
           /\ sessions[s].state # "Active" \/ ConnectionCapacity
     /\ UNCHANGED <<sessions, bindings, next_connection_id, handle, owed>>

\* A grant still stands for the reservation the manager keeps.
Matches(g) == admissions[g.session] = [dev |-> g.dev, exp |-> g.exp]

\* commit_admission_and_bind.  The reservation goes whatever the outcome.
CommitAdmissionAndBind(l, t) ==
  LET g == grant[l]
      s == g.session
  IN /\ g # None
     /\ grant' = [grant EXCEPT ![l] = None]
     /\ \/ /\ ~g.creates
           /\ Bind(s, t)
           /\ UNCHANGED admissions
        \/ /\ g.creates
           /\ admissions' = [admissions EXCEPT ![s] = None]
           /\ \/ /\ ~Matches(g) \/ t >= g.exp
                 /\ UNCHANGED <<sessions, bindings, next_connection_id, handle,
                                owed>>
              \/ /\ Matches(g) /\ t < g.exp
                 /\ IF ConnectionCapacity
                    THEN /\ Remove({s}, sessions, pending_connections)
                         /\ UNCHANGED <<next_connection_id, handle>>
                    ELSE /\ Authenticate(s)
                         /\ sessions' = [sessions EXCEPT
                              ![s] = NewSession(g.dev, g.exp, t)]
                         /\ UNCHANGED <<connections, pending_connections, owed>>
     /\ UNCHANGED <<now, attach>>

\* abort_admission removes the reservation of that name, its own or not.
AbortAdmission(l) ==
  /\ grant[l] # None
  /\ grant' = [grant EXCEPT ![l] = None]
  /\ admissions' = IF grant[l].creates
                   THEN [admissions EXCEPT ![grant[l].session] = None]
                   ELSE admissions
  /\ UNCHANGED <<now, sessions, bindings, next_connection_id, handle, attach,
                 owed>>

-----------------------------------------------------------------------------
\* Paths

\* The listener's own calls on connection c; it is in no other call on it.
Calls(c) == handle[c] # None /\ attach[c] = None

Valid(c) == handle[c] # None /\ authenticated_connections[c] = handle[c]

\* reserve_attach.  Overdue attaches are pruned first, whatever follows.
ReserveAttach(c, pe, ke, t) ==
  LET pending == PendingAfter(t)
      base == SessionsAfter(t)
      s == handle[c]
      early == \/ ~Valid(c)
               \/ connections[c] # None \/ pending[c] # None
               \/ Cardinality(Bound(pending)) >= MaxPending
               \/ s \notin Live
      x == PrunePathTombstones(base[s], t)
  IN /\ Calls(c)
     /\ IF early
        THEN /\ sessions' = base
             /\ pending_connections' = pending
             /\ UNCHANGED attach
        ELSE \/ /\ ~MayReserve(x, c, t) \/ Allocatable(x, pe, ke) = {}
                /\ sessions' = [base EXCEPT ![s] = x]
                /\ pending_connections' = pending
                /\ UNCHANGED attach
             \/ \E p \in PathIds :
                  LET r == [session |-> s, path |-> p, pe |-> pe, ke |-> ke]
                  IN /\ MayReserve(x, c, t)
                     /\ IsAllocated(x, pe, ke, p)
                     /\ sessions' = [base EXCEPT
                          ![s] = ReservePath(x, c, p, pe, ke)]
                     /\ pending_connections' = [pending EXCEPT
                          ![c] = [session |-> s, path |-> p, pe |-> pe, ke |-> ke,
                                  exp |-> t + PendingTTL]]
                     /\ attach' = [attach EXCEPT ![c] = r]
     /\ UNCHANGED <<now, admissions, connections, authenticated_connections,
                    next_connection_id, grant, handle, owed>>

\* The pending attach is the reservation r.
IsPending(c, r) ==
  /\ pending_connections[c] # None
  /\ pending_connections[c].session = r.session
  /\ pending_connections[c].path = r.path
  /\ pending_connections[c].pe = r.pe
  /\ pending_connections[c].ke = r.ke

\* commit_attach; the pending entry goes whatever the outcome.
CommitAttach(c) ==
  LET r == attach[c]
      ok == /\ IsPending(c, r)
            /\ sessions[r.session] # None
            /\ IsReservation(sessions[r.session], c, r)
  IN /\ r # None
     /\ attach' = [attach EXCEPT ![c] = None]
     /\ pending_connections' = [pending_connections EXCEPT ![c] = None]
     /\ sessions' = IF ok THEN [sessions EXCEPT ![r.session] =
                                  CommitPath(@, r.path)]
                          ELSE sessions
     /\ connections' = IF ok THEN [connections EXCEPT ![c] = r] ELSE connections
     /\ UNCHANGED <<now, admissions, authenticated_connections,
                    next_connection_id, grant, handle, owed>>

\* detach_connection with the path and the epoch the connection is bound to;
\* any other argument changes nothing.
DetachConnection(c, t) ==
  LET b == connections[c]
  IN /\ Calls(c) /\ Valid(c)
     /\ b # None /\ b.session = handle[c]
     /\ connections' = [connections EXCEPT ![c] = None]
     /\ sessions' = IF sessions[b.session] = None THEN sessions
                    ELSE [sessions EXCEPT ![b.session] =
                            Detach(@, b.path, c, b.pe, t)]
     /\ UNCHANGED <<now, admissions, pending_connections,
                    authenticated_connections, next_connection_id, held, owed>>

\* close_connection: aborts the pending path or detaches the committed one, at
\* the time of the session's last activity.
CloseConnection(c) ==
  LET q == pending_connections[c]
      b == connections[c]
      s == IF q # None THEN q.session ELSE IF b # None THEN b.session ELSE None
  IN /\ Calls(c) /\ Valid(c)
     /\ authenticated_connections' =
          [authenticated_connections EXCEPT ![c] = None]
     /\ pending_connections' = [pending_connections EXCEPT ![c] = None]
     /\ connections' = IF q # None THEN connections
                       ELSE [connections EXCEPT ![c] = None]
     /\ sessions' = IF s \notin Live THEN sessions
                    ELSE [sessions EXCEPT ![s] =
                            IF q # None THEN AbortPath(@, c, q)
                            ELSE Detach(@, b.path, c, b.pe, @.last)]
     /\ UNCHANGED <<now, admissions, next_connection_id, held, owed>>

-----------------------------------------------------------------------------
\* Activity

\* The tail that validate_attached_path, validate_ingress and
\* record_authenticated_activity share: an expired or idle session goes, an
\* Active one is renewed.
Touch(s, t, renews) ==
  \/ /\ s \in Live
     /\ IsExpired(sessions[s], t) \/ IsIdle(sessions[s], t)
     /\ Remove({s}, sessions, pending_connections)
  \/ /\ s \in Live
     /\ ~IsExpired(sessions[s], t) /\ ~IsIdle(sessions[s], t)
     /\ sessions[s].state = "Active"
     /\ renews
     /\ sessions' = [sessions EXCEPT ![s].last = t]
     /\ UNCHANGED <<bindings, owed>>

Quiet == UNCHANGED <<now, admissions, next_connection_id, held>>

\* The path a connection is bound to is committed.
Healthy(b) ==
  /\ b.session \in Live
  /\ sessions[b.session].paths[b.path] # None
  /\ ~sessions[b.session].paths[b.path].reserved

\* The message names the connection's own binding.
ValidateIngress(c, t) ==
  LET b == connections[c]
  IN /\ Valid(c)
     /\ b # None
     /\ Touch(b.session, t, Healthy(b))
     /\ Quiet

\* The listener repeats a PathAttach it has answered before.
ValidateAttachedPath(c, t) ==
  LET b == connections[c]
  IN /\ Calls(c) /\ Valid(c)
     /\ b # None /\ b.session = handle[c]
     /\ Touch(b.session, t, Healthy(b))
     /\ Quiet

RecordAuthenticatedActivity(c, t) ==
  /\ Calls(c) /\ Valid(c)
  /\ Touch(handle[c], t, TRUE)
  /\ Quiet

-----------------------------------------------------------------------------
\* Lifecycle

BeginDraining(s) ==
  /\ s \in Live
  /\ sessions[s].state = "Active"
  /\ sessions' = [sessions EXCEPT ![s].state = "Draining"]
  /\ UNCHANGED <<bindings, owed>>
  /\ Quiet

\* close, called for a session by its name.
Close(s) ==
  /\ s \in Live
  /\ Remove({s}, sessions, pending_connections)
  /\ Quiet

\* close_session, called by the owner of a capability.
CloseSession(c) ==
  /\ Calls(c) /\ Valid(c)
  /\ handle[c] \in Live
  /\ Remove({handle[c]}, sessions, pending_connections)
  /\ Quiet

CloseAll ==
  /\ Live # {}
  /\ Remove(Live, sessions, pending_connections)
  /\ Quiet

\* sweep: expired reservations, overdue attaches, tombstones, and the expired
\* and idle sessions.
Sweep(t) ==
  LET base == SessionsAfter(t)
  IN /\ admissions' = [s \in Sessions |->
          IF admissions[s] # None /\ admissions[s].exp <= t
          THEN None ELSE admissions[s]]
     /\ Remove({s \in Live : IsExpired(sessions[s], t) \/ IsIdle(sessions[s], t)},
               [s \in Sessions |-> IF base[s] = None THEN None
                                   ELSE PrunePathTombstones(base[s], t)],
               PendingAfter(t))
     /\ UNCHANGED <<now, next_connection_id, held>>

\* The hooks of one removal, after the mutex was released.
RunCleanup(s) ==
  /\ owed[s] > 0
  /\ owed' = [owed EXCEPT ![s] = @ - 1]
  /\ UNCHANGED <<now, sessions, admissions, bindings, next_connection_id, held>>

Tick ==
  /\ now < MaxTime
  /\ now' = now + 1
  /\ UNCHANGED <<sessions, admissions, bindings, next_connection_id, held, owed>>

-----------------------------------------------------------------------------
Init ==
  /\ now = 0
  /\ sessions = [s \in Sessions |-> None]
  /\ admissions = [s \in Sessions |-> None]
  /\ connections = [c \in Conns |-> None]
  /\ pending_connections = [c \in Conns |-> None]
  /\ authenticated_connections = [c \in Conns |-> None]
  /\ next_connection_id = 1
  /\ grant = [l \in Tasks |-> None]
  /\ handle = [c \in Conns |-> None]
  /\ attach = [c \in Conns |-> None]
  /\ owed = [s \in Sessions |-> 0]

Next ==
  \/ \E t \in Captured :
       \/ \E l \in Tasks :
            \/ \E s \in Sessions, d \in Devices, exp \in Expiries :
                 ReserveAdmission(l, s, d, exp, t)
            \/ CommitAdmissionAndBind(l, t)
       \/ \E c \in Conns :
            \/ \E pe, ke \in Epochs : ReserveAttach(c, pe, ke, t)
            \/ DetachConnection(c, t)
            \/ ValidateIngress(c, t) \/ ValidateAttachedPath(c, t)
            \/ RecordAuthenticatedActivity(c, t)
       \/ Sweep(t)
  \/ \E l \in Tasks : AbortAdmission(l)
  \/ \E c \in Conns : CommitAttach(c) \/ CloseConnection(c) \/ CloseSession(c)
  \/ \E s \in Sessions : BeginDraining(s) \/ Close(s) \/ RunCleanup(s)
  \/ CloseAll
  \/ Tick

Spec == Init /\ [][Next]_vars

-----------------------------------------------------------------------------
\* Properties

\* Types of the manager's maps and of what the tasks hold.
TypeOK ==
  /\ now \in Nat
  /\ sessions \in [Sessions -> Session \cup {None}]
  /\ admissions \in [Sessions -> Admission \cup {None}]
  /\ connections \in [Conns -> Binding \cup {None}]
  /\ pending_connections \in [Conns -> PendingAttach \cup {None}]
  /\ authenticated_connections \in [Conns -> Sessions \cup {None}]
  /\ next_connection_id \in Nat
  /\ grant \in [Tasks -> Grant \cup {None}]
  /\ handle \in [Conns -> Sessions \cup {None}]
  /\ attach \in [Conns -> Binding \cup {None}]
  /\ owed \in [Sessions -> Nat]

\* Connection c owns path p of session s through an entry of one of the maps.
Owns(b, c, s, p, reserved) ==
  /\ b[c] # None /\ b[c].session = s /\ b[c].path = p
  /\ sessions[s].paths[p] =
       [conn |-> c, pe |-> b[c].pe, ke |-> b[c].ke, reserved |-> reserved]

\* The three views of a path agree after any interleaving of attach, detach,
\* close, expiry and sweep: a committed path is the binding of one authenticated
\* connection, a reserved path its pending attach, and no binding is left
\* without its path ("a connection can own at most one path", sg-session).
PathsBound ==
  /\ \A c \in Conns :
       /\ connections[c] # None =>
            /\ pending_connections[c] = None
            /\ authenticated_connections[c] = connections[c].session
            /\ connections[c].session \in Live
            /\ Owns(connections, c, connections[c].session,
                    connections[c].path, FALSE)
       /\ pending_connections[c] # None =>
            /\ authenticated_connections[c] = pending_connections[c].session
            /\ pending_connections[c].session \in Live
            /\ Owns(pending_connections, c, pending_connections[c].session,
                    pending_connections[c].path, TRUE)
  /\ \A s \in Live : \A p \in PathIds : sessions[s].paths[p] # None =>
       LET x == sessions[s].paths[p]
       IN IF x.reserved THEN Owns(pending_connections, x.conn, s, p, TRUE)
                        ELSE Owns(connections, x.conn, s, p, FALSE)

\* A capability is good only for the session it was issued for, while that very
\* session lives: never for a later session of the same name.
HandlesCurrent ==
  \A c \in Conns :
    /\ authenticated_connections[c] # None =>
         /\ authenticated_connections[c] = handle[c]
         /\ authenticated_connections[c] \in Live
    /\ handle[c] # None => c < next_connection_id

\* The tombstone queue lists exactly the quarantined identifiers, each once, and
\* none of them is a path; every path has its epochs in the history.
TombstonesQueued ==
  \A s \in Live :
    LET x == sessions[s]
    IN /\ \A i, j \in 1 .. Len(x.order) : x.order[i] = x.order[j] => i = j
       /\ {x.order[i] : i \in 1 .. Len(x.order)} = Present(x.tombs)
       /\ Present(x.tombs) \cap Present(x.paths) = {}
       /\ \A p \in Present(x.paths) : /\ x.history[p] # None
                                      /\ x.history[p].pe = x.paths[p].pe
                                      /\ x.history[p].ke = x.paths[p].ke

\* maximum_sessions counts reservations, and they never overlap with sessions;
\* the other bounds hold as well, and what the bounded quarantine evicts is what
\* its queue lists.
WithinLimits ==
  /\ Cardinality(Live) + Cardinality(Reserved) <= MaxSessions
  /\ Live \cap Reserved = {}
  /\ Cardinality(Bound(authenticated_connections)) <= MaxSessions * MaxPaths
  /\ Cardinality(Bound(pending_connections)) <= MaxPending
  /\ \A s \in Live :
       /\ Cardinality(Present(sessions[s].paths)) <= MaxPaths
       /\ Cardinality(Present(sessions[s].history)) <= MaxHistory
       /\ Cardinality(Present(sessions[s].tombs)) <= MaxTombstones
  /\ TombstonesQueued

\* Within the life of a session an identifier never comes back with an old path
\* or key epoch, and the history forgets nothing: a delayed packet of an earlier
\* path never carries the epochs of a later one.
EpochsAdvance ==
  [][\A s \in Live : sessions'[s] # None =>
       \A p \in Present(sessions[s].history) :
         /\ sessions'[s].history[p] # None
         /\ sessions'[s].history[p].pe >= sessions[s].history[p].pe
         /\ sessions'[s].history[p].ke >= sessions[s].history[p].ke
         /\ sessions[s].paths[p] = None /\ sessions'[s].paths[p] # None =>
              /\ sessions'[s].paths[p].pe > sessions[s].history[p].pe
              /\ sessions'[s].paths[p].ke > sessions[s].history[p].ke]_vars
=============================================================================
