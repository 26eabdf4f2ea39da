--------------------------- MODULE GatewayRuntime ---------------------------
(***************************************************************************)
(* The admission-only V2 gateway as it runs: the accept loop of runtime.rs *)
(* with the listener's accept_one_at inside its select!, the control task  *)
(* of every admitted connection, the two supervised sweeps, the owner      *)
(* queue of the address pool and its worker, and shutdown.                 *)
(*                                                                         *)
(* AddressPool and SessionManager model the two maps in detail; here a     *)
(* pool call is one step of the worker and the maps keep what the callers  *)
(* can tell apart: no addresses, no paths, one quarantine without bound.   *)
(* A ticket is redeemed once (TicketRedemption), so the connection it      *)
(* admits is named after it.                                               *)
(***************************************************************************)
EXTENDS Naturals, Sequences, FiniteSets

CONSTANTS
  Tickets, Sessions,
  SessionOf,        \* the session a ticket is for
  Sources,          \* peer IP addresses
  Expiry,           \* expiry of the tickets and of the sessions they admit
  Budget,           \* maximum_verification_budget_millis
  SourceCapacity,   \* source_capacity of the limiter
  SourceTTL,        \* source_ttl_millis
  MaxSessions,      \* maximum_sessions
  MaxLeases,        \* maximum_leases
  MaxConnections,   \* maximum_connections
  MaxMessages,      \* maximum_control_messages_per_connection
  QueueCapacity,    \* queue_capacity of the pool's owner
  PendingTTL,       \* pending_ttl_ms
  LeaseTTL,         \* lease_ttl_ms
  IdleTTL,          \* idle_ttl_ms
  SlowCalls,        \* the pool calls whose worker may be slower than io_timeout
  MaxTime,          \* bound on the clock
  None

Actors == {"accept", "sweeper", "stop"} \cup Tickets
Calls == {"reserve", "commit", "release", "renew", "sweep"}

Session == [exp : Nat, act : Nat, conns : SUBSET Tickets]
Source == [n : Nat, seen : Nat]

\* Times are numbers, tickets are not the names of the other actors, and an
\* absent value is none of those that may be present.
GatewayBounds ==
  /\ SessionOf \in [Tickets -> Sessions]
  /\ {Expiry, PendingTTL, LeaseTTL} \subseteq Nat
  /\ Tickets \cap {"accept", "sweeper", "stop"} = {}
  /\ None \notin Actors \cup Session \cup Source
ASSUME GatewayAssumption == GatewayBounds

VARIABLES
  now,
  sessions,     \* V2SessionManager: expiry, last activity and connections
  admissions,   \* expiry of the pending admission of each session
  owed,         \* removed sessions whose cleanup hook has not run yet
  leases,       \* AddressPool: Reserved, Active or Parked (quarantined)
  missed,       \* history: leases whose cleanup met the worker inside a call
  queue,        \* OwnerRequests, oldest first
  reply,        \* what the call an actor awaits returned
  redeemed,     \* tickets the replay cache has consumed
  sources,      \* limiter: permits and last use of each source
  in_flight,    \* limiter: global_in_flight
  acc,          \* the accept future of the loop
  tasks,        \* control tasks
  sweeper,      \* the supervised pool sweep awaits its call
  life          \* of the runtime

limiter == <<sources, in_flight>>
maps == <<sessions, admissions, owed>>
pool == <<leases, missed>>
owner == <<queue, reply>>
vars == <<now, maps, pool, owner, redeemed, limiter, acc, tasks, sweeper, life>>

NoAccept == [pc |-> "top", t |-> None, src |-> None, started |-> 0,
             arrived |-> 0, at |-> 0, creates |-> FALSE]
Sess == SessionOf[acc.t]
Blocked == {s \in Sessions : leases[s] # None /\ leases[s].st # "Parked"}
ParkedLease == [st |-> "Parked", exp |-> 0]

-----------------------------------------------------------------------------
\* The owner queue of the pool (PersistenceOwner::execute)

\* Full, Timeout and Closed: an error, or for sweeps an empty expiry.
Failed == [ok |-> FALSE, expired |-> {}]

Submit(who, call, s, at) ==
  IF Len(queue) = QueueCapacity
  THEN reply' = [reply EXCEPT ![who] = Failed] /\ UNCHANGED queue
  ELSE /\ queue' = Append(queue, [call |-> call, s |-> s, at |-> at, who |-> who])
       /\ reply' = [reply EXCEPT ![who] = None]

\* The receivers of the requests of these actors are gone; the worker runs
\* the requests all the same.
Abandoned(W) ==
  [i \in DOMAIN queue |->
     IF queue[i].who \in W THEN [queue[i] EXCEPT !.who = None] ELSE queue[i]]
Silent(W) == [a \in Actors |-> IF a \in W THEN None ELSE reply[a]]

\* Mutant: only a finished call answers.
TimeoutNever(who) == FALSE /\ UNCHANGED vars

Timeout(who) ==
  /\ \E i \in DOMAIN queue : /\ queue[i].who = who
                             /\ who = "stop" \/ queue[i].call \in SlowCalls
  /\ queue' = Abandoned({who})
  /\ reply' = [reply EXCEPT ![who] = Failed]
  /\ UNCHANGED <<now, maps, pool, redeemed, limiter, acc, tasks, sweeper, life>>

\* Of these sessions, the ones whose lease is still held after this step.
StillHeld(S) == {s \in S : leases'[s] # None /\ leases'[s].st # "Parked"}

\* reserve_at_time, commit_at_time, release and renew_at_time: the lease
\* afterwards and the result, given whether the store accepts the write.
ReserveTo(l, at, store) ==
  IF l # None /\ (l.st = "Active" \/ (l.st = "Reserved" /\ at < l.exp))
  THEN [lease |-> l, ok |-> TRUE]
  ELSE IF l # None /\ l.st = "Parked" THEN [lease |-> l, ok |-> FALSE]
  ELSE IF store /\ Cardinality(Blocked) < MaxLeases
  THEN [lease |-> [st |-> "Reserved", exp |-> at + PendingTTL], ok |-> TRUE]
  ELSE [lease |-> None, ok |-> FALSE]

CommitTo(l, at, store) ==
  IF l = None \/ l = ParkedLease THEN [lease |-> l, ok |-> FALSE]
  ELSE IF l.st = "Active" THEN [lease |-> l, ok |-> TRUE]
  ELSE IF at >= l.exp
  THEN [lease |-> IF store THEN None ELSE ParkedLease, ok |-> FALSE]
  ELSE [lease |-> IF store THEN [st |-> "Active", exp |-> at + LeaseTTL] ELSE l,
        ok |-> store]

ReleaseTo(l, store) ==
  [lease |-> IF l = None \/ store THEN None ELSE ParkedLease, ok |-> TRUE]

RenewTo(l, at, store) ==
  IF l # None /\ l.st = "Active" /\ at < l.exp /\ store
  THEN [lease |-> [l EXCEPT !.exp = at + LeaseTTL], ok |-> TRUE]
  ELSE [lease |-> l, ok |-> FALSE]

WorkCall(r) ==
  \E store \in BOOLEAN :
    LET l == leases[r.s]
        res == CASE r.call = "reserve" -> ReserveTo(l, r.at, store)
                 [] r.call = "commit" -> CommitTo(l, r.at, store)
                 [] r.call = "release" -> IF l = ParkedLease
                                          THEN [lease |-> l, ok |-> TRUE]
                                          ELSE ReleaseTo(l, store)
                 [] r.call = "renew" -> RenewTo(l, r.at, store)
    IN /\ leases' = [leases EXCEPT ![r.s] = res.lease]
       /\ missed' = StillHeld(missed)
       /\ reply' = IF r.who = None THEN reply
                   ELSE [reply EXCEPT ![r.who] = [ok |-> res.ok, expired |-> {}]]

\* sweep: every overdue lease leaves memory and is reported, those in F
\* whose delete failed into the quarantine; then the retry frees those in R.
WorkSweep(r) ==
  LET due == {s \in Blocked : leases[s].exp <= r.at}
      parked == {s \in Sessions : leases[s] = ParkedLease}
  IN \E F \in SUBSET due, R \in SUBSET parked :
       /\ leases' = [s \in Sessions |->
            IF s \in F THEN ParkedLease
            ELSE IF s \in due \cup R THEN None ELSE leases[s]]
       /\ missed' = StillHeld(missed)
       /\ reply' = IF r.who = None THEN reply
                   ELSE [reply EXCEPT ![r.who] = [ok |-> TRUE, expired |-> due]]

Worker ==
  /\ queue # <<>>
  /\ queue' = Tail(queue)
  /\ \/ Head(queue).call = "sweep" /\ WorkSweep(Head(queue))
     \/ Head(queue).call # "sweep" /\ WorkCall(Head(queue))
  /\ UNCHANGED <<now, maps, redeemed, limiter, acc, tasks, sweeper, life>>

-----------------------------------------------------------------------------
\* Removal of sessions, and the cleanup hook that runs after the map lock

Live == {s \in Sessions : sessions[s] # None}
Without(S) == [s \in Sessions |-> IF s \in S THEN None ELSE sessions[s]]

\* The session in whose call the worker may be, between two phases.
Inflight ==
  {s \in Blocked :
     /\ queue # <<>> /\ Head(queue).s = s
     /\ \/ Head(queue).call = "commit" /\ leases[s].st = "Reserved"
        \/ Head(queue).call = "renew" /\ leases[s].st = "Active"
        \/ Head(queue).call = "release"}

\* release_deferred: the lease is parked, unless a call has it in flight.
Deferred(S) ==
  \E busy \in SUBSET (S \cap Inflight) :
    /\ leases' = [s \in Sessions |->
         IF s \in (S \ busy) \cap Blocked THEN ParkedLease ELSE leases[s]]
    /\ missed' = StillHeld(missed \cup busy)

\* Mutant: only sessions without a connection are swept.
DueUnbound(at) ==
  {s \in Live : /\ sessions[s].conns = {}
                /\ (sessions[s].exp <= at \/ sessions[s].act + IdleTTL <= at)}

Due(at) ==
  {s \in Live : sessions[s].exp <= at \/ sessions[s].act + IdleTTL <= at}

PrunedAdmissions(at) ==
  [s \in Sessions |-> IF admissions[s] # None /\ admissions[s] <= at
                      THEN None ELSE admissions[s]]

\* A thread other than the accept loop removes sessions: their cleanup is
\* still to come when the loop goes on.
RemovesElsewhere(S) == sessions' = Without(S) /\ owed' = owed \cup (S \cap Live)

\* Mutant: cleanup leaves the lease to the listener.
CleanupNothing(s) ==
  /\ s \in owed
  /\ owed' = owed \ {s}
  /\ UNCHANGED <<now, sessions, admissions, pool, owner, redeemed, limiter, acc, tasks,
                 sweeper, life>>

Cleanup(s) ==
  /\ s \in owed
  /\ owed' = owed \ {s}
  /\ Deferred({s})
  /\ UNCHANGED <<now, sessions, admissions, owner, redeemed, limiter, acc, tasks,
                 sweeper, life>>

\* SupervisedSessionSweep
SessionSweep ==
  /\ life \in {"up", "sweeps"}
  /\ Due(now) # {} \/ PrunedAdmissions(now) # admissions
  /\ RemovesElsewhere(Due(now))
  /\ admissions' = PrunedAdmissions(now)
  /\ UNCHANGED <<now, pool, owner, redeemed, limiter, acc, tasks, sweeper, life>>

\* SupervisedPoolSweep: a tick, and what it does with the answer.
PoolSweepTick ==
  /\ life = "up" /\ ~sweeper
  /\ sweeper' = TRUE
  /\ Submit("sweeper", "sweep", None, now)
  /\ UNCHANGED <<now, maps, pool, redeemed, limiter, acc, tasks, life>>

PoolSweepCloses ==
  /\ sweeper /\ reply["sweeper"] # None
  /\ RemovesElsewhere(reply["sweeper"].expired)
  /\ sweeper' = FALSE
  /\ reply' = Silent({"sweeper"})
  /\ UNCHANGED <<now, admissions, pool, queue, redeemed, limiter, acc, tasks, life>>

-----------------------------------------------------------------------------
\* The handshake limiter

Fresh(at) ==
  [x \in Sources |-> IF sources[x] # None /\ sources[x].n = 0
                        /\ sources[x].seen + SourceTTL <= at
                     THEN None ELSE sources[x]]

\* acquire, once the budget is known to suffice: the entry is looked up after
\* the idle ones are forgotten; a source in use is never forgotten.
Acquires(src, at) ==
  LET fresh == Fresh(at)
      known == {x \in Sources : fresh[x] # None}
      n == IF src \in known THEN fresh[src].n ELSE 0
  IN /\ src \in known \/ Cardinality(known) < SourceCapacity
     /\ sources' = [fresh EXCEPT ![src] = [n |-> n + 1, seen |-> at]]
     /\ in_flight' = in_flight + 1

Refuses(src, at) ==
  LET known == {x \in Sources : Fresh(at)[x] # None}
  IN /\ src \notin known /\ Cardinality(known) >= SourceCapacity
     /\ sources' = Fresh(at)
     /\ UNCHANGED in_flight

\* The drop of an AdmissionPermit.
DropPermit ==
  /\ sources' = [sources EXCEPT ![acc.src].n = @ - 1]
  /\ in_flight' = in_flight - 1

HoldsPermit == acc.pc \in {"handshake", "consume"}

\* Mutant: a dropped accept future keeps its permit.
ReleaseIfHeldNever == UNCHANGED limiter

ReleaseIfHeld == IF HoldsPermit THEN DropPermit ELSE UNCHANGED limiter

-----------------------------------------------------------------------------
\* run and accept_one_at

Running == {t \in Tickets : tasks[t] # None}

\* The loop captures the time and starts an accept.
AcceptStarts ==
  /\ life = "up" /\ acc.pc = "top"
  /\ Cardinality(Running) < MaxConnections
  /\ acc' = [NoAccept EXCEPT !.pc = "listen", !.started = now]
  /\ UNCHANGED <<now, maps, pool, owner, redeemed, limiter, tasks, sweeper, life>>

\* A connection comes in and gets a permit, or is refused.
Arrives(t, src) ==
  /\ acc.pc = "listen" /\ t \notin Running
  /\ \/ /\ Acquires(src, acc.started)
        /\ acc' = [acc EXCEPT !.pc = "handshake", !.t = t, !.src = src,
                              !.arrived = now]
     \/ Refuses(src, acc.started) /\ acc' = NoAccept
  /\ UNCHANGED <<now, maps, pool, owner, redeemed, tasks, sweeper, life>>

\* The handshake ends or its deadline passes; then the peer identity, the
\* control stream and the hello, each of which may fail.
Handshake ==
  /\ acc.pc = "handshake"
  /\ DropPermit
  /\ acc' \in {NoAccept, [acc EXCEPT !.pc = "hello"]}
  /\ UNCHANGED <<now, maps, pool, owner, redeemed, tasks, sweeper, life>>

HelloFails ==
  /\ acc.pc = "hello"
  /\ acc' = NoAccept
  /\ UNCHANGED <<now, maps, pool, owner, redeemed, limiter, tasks, sweeper, life>>

\* The sweeps before an admission.
Hello ==
  /\ acc.pc = "hello"
  /\ acc' = [acc EXCEPT !.pc = "sweep", !.at = now]
  /\ sessions' = Without(Due(now))
  /\ Deferred(Due(now))
  /\ admissions' = PrunedAdmissions(now)
  /\ Submit("accept", "sweep", None, now)
  /\ UNCHANGED <<now, owed, redeemed, limiter, tasks, sweeper, life>>

InBudget == acc.at - acc.started <= Budget

\* The expired leases close their sessions; then admit_async: permit, ticket.
Admit ==
  /\ acc.pc = "sweep" /\ reply["accept"] # None
  /\ LET closed == reply["accept"].expired
     IN sessions' = Without(closed) /\ Deferred(closed \cap Live)
  /\ reply' = Silent({"accept"})
  /\ \/ /\ InBudget /\ Acquires(acc.src, acc.at)
        /\ acc' = [acc EXCEPT !.pc = "consume"]
     \/ /\ InBudget /\ Refuses(acc.src, acc.at)
        /\ acc' = NoAccept
     \/ ~InBudget /\ acc' = NoAccept /\ UNCHANGED limiter
  /\ UNCHANGED <<now, admissions, owed, queue, redeemed, tasks, sweeper, life>>

\* consume_async fails, or succeeds too late to be heard.
ConsumeFails ==
  /\ acc.pc = "consume"
  /\ redeemed' \in {redeemed, redeemed \cup {acc.t}}
  /\ DropPermit
  /\ acc' = NoAccept
  /\ UNCHANGED <<now, maps, pool, owner, tasks, sweeper, life>>

\* The ticket is consumed; reserve_admission, and the pool's reserve.
Consume ==
  LET old == Live \cap {Sess} \cap {s \in Live : sessions[s].exp <= acc.at}
      kept == Live \ old
      known == {s \in Sessions : admissions[s] # None}
      fits == \/ Sess \in kept \cup known
              \/ Cardinality(kept) + Cardinality(known) < MaxSessions
  IN /\ acc.pc = "consume" /\ acc.t \notin redeemed /\ acc.at < Expiry
     /\ redeemed' = redeemed \cup {acc.t}
     /\ DropPermit
     /\ sessions' = Without(old) /\ Deferred(old)
     /\ IF fits
        THEN /\ admissions' = IF Sess \in kept \cup known THEN admissions
                              ELSE [admissions EXCEPT ![Sess] = Expiry]
             /\ acc' = [acc EXCEPT !.pc = "reserve", !.creates = Sess \notin kept]
             /\ Submit("accept", "reserve", Sess, acc.at)
        ELSE acc' = NoAccept /\ UNCHANGED <<admissions, owner>>
     /\ UNCHANGED <<now, owed, tasks, sweeper, life>>

\* abort_admission
Aborted == IF acc.creates THEN [admissions EXCEPT ![Sess] = None] ELSE admissions

ReserveFails ==
  /\ acc.pc = "reserve" /\ reply["accept"] # None /\ ~reply["accept"].ok
  /\ admissions' = Aborted
  /\ acc' = NoAccept /\ reply' = Silent({"accept"})
  /\ UNCHANGED <<now, sessions, owed, pool, queue, redeemed, limiter, tasks,
                 sweeper, life>>

Bindable == IF acc.creates THEN admissions[Sess] # None
            ELSE sessions[Sess] # None /\ acc.at < sessions[Sess].exp

Bound == IF acc.creates
         THEN [exp |-> Expiry, act |-> acc.at, conns |-> {acc.t}]
         ELSE [sessions[Sess] EXCEPT !.conns = @ \cup {acc.t}]

\* commit_and_bind, then the pool's commit; a failure releases first.
Bind ==
  /\ acc.pc = "reserve" /\ reply["accept"] # None /\ reply["accept"].ok
  /\ \/ /\ Bindable
        /\ sessions' = [sessions EXCEPT ![Sess] = Bound]
        /\ admissions' = Aborted
        /\ acc' = [acc EXCEPT !.pc = "commit"]
        /\ Submit("accept", "commit", Sess, acc.at)
        /\ UNCHANGED pool
     \/ /\ ~Bindable
        /\ LET old == Live \cap {Sess} \cap (IF acc.creates THEN {} ELSE Sessions)
           IN sessions' = Without(old) /\ Deferred(old)
        /\ UNCHANGED admissions
        /\ acc' = [acc EXCEPT !.pc = "unbind"]
        /\ Submit("accept", "release", Sess, acc.at)
  /\ UNCHANGED <<now, owed, redeemed, limiter, tasks, sweeper, life>>

Unbind ==
  /\ acc.pc = "unbind" /\ reply["accept"] # None
  /\ admissions' = Aborted
  /\ acc' = NoAccept /\ reply' = Silent({"accept"})
  /\ UNCHANGED <<now, sessions, owed, pool, queue, redeemed, limiter, tasks,
                 sweeper, life>>

Committed == reply["accept"] # None /\ reply["accept"].ok

Commit ==
  /\ acc.pc = "commit" /\ reply["accept"] # None
  /\ IF Committed
     THEN acc' = [acc EXCEPT !.pc = "write"] /\ reply' = Silent({"accept"})
                                             /\ UNCHANGED queue
     ELSE /\ acc' = [acc EXCEPT !.pc = "unwind"]
          /\ Submit("accept", "release", Sess, acc.at)
  /\ UNCHANGED <<now, maps, pool, redeemed, limiter, tasks, sweeper, life>>

\* close_session with the listener's own connection.
Unwind ==
  LET mine == {s \in Live : acc.t \in sessions[s].conns}
  IN /\ acc.pc = "unwind" /\ reply["accept"] # None
     /\ sessions' = Without(mine) /\ Deferred(mine)
     /\ acc' = NoAccept /\ reply' = Silent({"accept"})
     /\ UNCHANGED <<now, admissions, owed, queue, redeemed, limiter, tasks,
                    sweeper, life>>

Reading(n, open) == [pc |-> "read", at |-> now, n |-> n, kind |-> None, open |-> open]

\* run spawns the control task: with one accept at a time there is room for it.
Spawned(t) == [tasks EXCEPT ![t] = Reading(0, TRUE)]

\* SessionAdmit is written and the control task spawned, or the write fails.
Write ==
  /\ acc.pc = "write"
  /\ \/ /\ acc' = NoAccept
        /\ tasks' = Spawned(acc.t)
        /\ UNCHANGED owner
     \/ /\ acc' = [acc EXCEPT !.pc = "unwind"]
        /\ Submit("accept", "release", Sess, acc.at)
        /\ UNCHANGED tasks
  /\ UNCHANGED <<now, maps, pool, redeemed, limiter, sweeper, life>>

\* The accept future is dropped where it awaits: permits go, nothing else.
DropsAccept(W) ==
  /\ acc' = NoAccept
  /\ queue' = Abandoned(W \cup {"accept"})
  /\ reply' = Silent(W \cup {"accept"})
  /\ ReleaseIfHeld

\* A control task ended: at the top of the loop it is reaped, inside select!
\* it wins against the accept in progress.
JoinTask(t) ==
  /\ life = "up" /\ tasks[t] # None /\ tasks[t].pc = "done"
  /\ tasks' = [tasks EXCEPT ![t] = None]
  /\ DropsAccept({})
  /\ UNCHANGED <<now, maps, pool, redeemed, sweeper, life>>

-----------------------------------------------------------------------------
\* drive_control_connection and handle_next_control_at_time

\* The sessions map once connection t is closed.
Detached(map, t) ==
  [s \in Sessions |-> IF map[s] # None /\ t \in map[s].conns
                      THEN [map[s] EXCEPT !.conns = @ \ {t}] ELSE map[s]]

Ended(t) == [tasks EXCEPT ![t] = [Reading(0, FALSE) EXCEPT !.pc = "done", !.at = 0]]

\* A frame was read: both sweeps run, with the time taken before the read.
TaskReads(t, kind) ==
  /\ tasks[t] # None /\ tasks[t].pc = "read"
  /\ tasks' = [tasks EXCEPT ![t].pc = "swept", ![t].kind = kind]
  /\ RemovesElsewhere(Due(tasks[t].at))
  /\ admissions' = PrunedAdmissions(tasks[t].at)
  /\ Submit(t, "sweep", None, tasks[t].at)
  /\ UNCHANGED <<now, pool, redeemed, limiter, acc, sweeper, life>>

\* The stream failed or its deadline passed, or the answer cannot be written.
TaskFails(t) ==
  /\ tasks[t] # None /\ tasks[t].pc \in {"read", "answer"}
  /\ tasks' = Ended(t)
  /\ sessions' = Detached(sessions, t)
  /\ UNCHANGED <<now, admissions, owed, pool, owner, redeemed, limiter, acc,
                 sweeper, life>>

\* record_authenticated_activity
Active(t, at) ==
  LET s == SessionOf[t]
  IN /\ sessions[s] # None /\ t \in sessions[s].conns
     /\ at < sessions[s].exp /\ at < sessions[s].act + IdleTTL

\* The sessions of the expired leases are closed; an attach or a detach then
\* records activity and renews the lease, or closes the session if it may
\* not; a close closes the session; what is not valid is rejected.
TaskSwept(t) ==
  LET s == SessionOf[t]
      at == tasks[t].at
      closed == reply[t].expired
      mine == IF s \in Live /\ t \in sessions[s].conns THEN {s} ELSE {}
      valid == tasks[t].open /\ Active(t, at) /\ s \notin closed
  IN /\ tasks[t] # None /\ tasks[t].pc = "swept" /\ reply[t] # None
     /\ \/ /\ tasks[t].kind = "renew" /\ valid
           /\ sessions' = [Without(closed) EXCEPT ![s].act = at]
           /\ owed' = owed \cup (closed \cap Live)
           /\ tasks' = [tasks EXCEPT ![t].pc = "renew"]
           /\ Submit(t, "renew", s, at)
        \/ /\ tasks[t].kind = "renew" /\ ~valid
           /\ RemovesElsewhere(closed \cup IF tasks[t].open THEN {s} ELSE {})
           /\ tasks' = Ended(t)
           /\ reply' = Silent({t}) /\ UNCHANGED queue
        \/ /\ tasks[t].kind = "close"
           /\ RemovesElsewhere(closed \cup IF tasks[t].open THEN mine ELSE {})
           /\ tasks' = [tasks EXCEPT ![t].pc = "answer", ![t].open = FALSE]
           /\ reply' = Silent({t}) /\ UNCHANGED queue
        \/ /\ tasks[t].kind = "other"
           /\ RemovesElsewhere(closed)
           /\ tasks' = [tasks EXCEPT ![t].pc = "answer"]
           /\ reply' = Silent({t}) /\ UNCHANGED queue
     /\ UNCHANGED <<now, admissions, pool, redeemed, limiter, acc, sweeper, life>>

\* A renewed lease lets the request through; a refusal closes the session.
TaskRenewed(t) ==
  /\ tasks[t] # None /\ tasks[t].pc = "renew" /\ reply[t] # None
  /\ IF reply[t].ok
     THEN tasks' = [tasks EXCEPT ![t].pc = "answer"] /\ UNCHANGED maps
     ELSE /\ tasks' = Ended(t)
          /\ RemovesElsewhere({SessionOf[t]})
          /\ UNCHANGED admissions
  /\ reply' = Silent({t})
  /\ UNCHANGED <<now, pool, queue, redeemed, limiter, acc, sweeper, life>>

\* The answer is written; after the last allowed message the task ends.
TaskAnswers(t) ==
  /\ tasks[t] # None /\ tasks[t].pc = "answer"
  /\ IF tasks[t].n + 1 = MaxMessages
     THEN tasks' = Ended(t) /\ sessions' = Detached(sessions, t)
     ELSE /\ tasks' = [tasks EXCEPT ![t] = Reading(tasks[t].n + 1, tasks[t].open)]
          /\ UNCHANGED sessions
  /\ UNCHANGED <<now, admissions, owed, pool, owner, redeemed, limiter, acc,
                 sweeper, life>>

-----------------------------------------------------------------------------
\* V2GatewayRuntime::stop


\* run has ended; the control tasks are aborted and their handles dropped.
BeginStop ==
  /\ life = "up"
  /\ life' = "sweeps"
  /\ tasks' = [t \in Tickets |-> None]
  /\ sessions' = [s \in Sessions |->
       IF s \in Live THEN [sessions[s] EXCEPT !.conns = @ \ Running] ELSE None]
  /\ DropsAccept(Tickets)
  /\ UNCHANGED <<now, admissions, owed, pool, redeemed, sweeper>>

\* Both sweeps are joined, or aborted where they await their call.
StopSweeps ==
  /\ life = "sweeps" /\ owed = {}
  /\ life' = "closing"
  /\ sweeper' = FALSE
  /\ queue' = Abandoned({"sweeper"}) /\ reply' = Silent({"sweeper"})
  /\ UNCHANGED <<now, maps, pool, redeemed, limiter, acc, tasks>>

\* close_all, and the last sweep is submitted.
StopCloseAll ==
  /\ life = "closing"
  /\ life' = "flushing"
  /\ sessions' = Without(Live) /\ Deferred(Live)
  /\ Submit("stop", "sweep", None, now)
  /\ UNCHANGED <<now, admissions, owed, redeemed, limiter, acc, tasks, sweeper>>

StopFlush ==
  /\ life = "flushing" /\ reply["stop"] # None
  /\ life' = "draining"
  /\ reply' = Silent({"stop"})
  /\ UNCHANGED <<now, maps, pool, queue, redeemed, limiter, acc, tasks, sweeper>>

\* The worker drained its queue, or shutdown_timeout passed.
StopDrain ==
  /\ life = "draining"
  /\ life' = "stopped"
  /\ UNCHANGED <<now, maps, pool, owner, redeemed, limiter, acc, tasks, sweeper>>

Tick ==
  /\ now < MaxTime
  /\ now' = now + 1
  /\ UNCHANGED <<maps, pool, owner, redeemed, limiter, acc, tasks, sweeper, life>>

-----------------------------------------------------------------------------
\* V2GatewaySetup::start: both sweeps, on one clock.
SweepsStarted == now = 0 /\ sweeper = FALSE

Init ==
  /\ SweepsStarted
  /\ sessions = [s \in Sessions |-> None]
  /\ admissions = [s \in Sessions |-> None]
  /\ owed = {} /\ redeemed = {}
  /\ leases = [s \in Sessions |-> None] /\ missed = {}
  /\ queue = <<>> /\ reply = [a \in Actors |-> None]
  /\ sources = [x \in Sources |-> None] /\ in_flight = 0
  /\ acc = NoAccept /\ tasks = [t \in Tickets |-> None]
  /\ life = "up"

Accepting ==
  \/ AcceptStarts \/ Handshake \/ HelloFails \/ Hello \/ Admit \/ ConsumeFails
  \/ Consume \/ ReserveFails \/ Bind \/ Unbind \/ Commit \/ Unwind \/ Write
  \/ \E t \in Tickets, src \in Sources : Arrives(t, src)

Controlling ==
  \E t \in Tickets :
    \/ \E kind \in {"renew", "close", "other"} : TaskReads(t, kind)
    \/ TaskFails(t) \/ TaskSwept(t) \/ TaskRenewed(t) \/ TaskAnswers(t) \/ JoinTask(t)

Sweeping ==
  SessionSweep \/ PoolSweepTick \/ PoolSweepCloses \/ \E s \in Sessions : Cleanup(s)

Stopping == BeginStop \/ StopSweeps \/ StopCloseAll \/ StopFlush \/ StopDrain

Next ==
  \/ Accepting \/ Controlling \/ Sweeping \/ Stopping \/ Worker \/ Tick
  \/ \E a \in Actors : Timeout(a)

Spec == Init /\ [][Next]_vars

\* The clock, the interval timers of the sweeps and the synchronous cleanup
\* hooks go on; stop, once called, runs to its end because each of its waits
\* has a deadline. Nothing is assumed of the peers, of the worker or of the
\* store.
FairSpec ==
  /\ Spec
  /\ WF_vars(Tick) /\ WF_vars(SessionSweep)
  /\ \A s \in Sessions : WF_vars(Cleanup(s))
  /\ WF_vars(StopSweeps) /\ WF_vars(StopCloseAll) /\ WF_vars(StopFlush)
  /\ WF_vars(StopDrain) /\ WF_vars(Timeout("stop"))

-----------------------------------------------------------------------------
\* The limiter's global and per-source counts are the permits that exist:
\* one while a handshake or a ticket verification is in progress, none
\* otherwise, however the accept future ends (answered, timed out, dropped by
\* the select! of run or by stop).
PermitsBalance ==
  LET held == IF HoldsPermit THEN 1 ELSE 0
  IN /\ in_flight = held
     /\ \A x \in Sources :
          IF HoldsPermit /\ x = acc.src THEN sources[x] # None /\ sources[x].n = 1
          ELSE sources[x] # None => sources[x].n = 0

\* An Active lease belongs to somebody who gives it back: its session lives,
\* the cleanup of its removal is about to run, or its release is queued.
\* Of all the orders of time-outs, late commits, sweeps and cancelled accepts
\* only one leaves an Active lease without an owner until it expires: the
\* cleanup hook meets the worker inside a call of the same session, and
\* release_deferred returns without doing anything.
ActiveOwned ==
  \A s \in Sessions :
    leases[s] # None /\ leases[s].st = "Active" =>
      \/ s \in Live \cup owed \cup missed
      \/ \E i \in DOMAIN queue : queue[i].call = "release" /\ queue[i].s = s

\* Every session ends, whatever its connections, the accept loop and the pool
\* do: also one whose accept future was dropped half way.
SessionsEnd == \A s \in Sessions : s \in Live ~> s \notin Live

\* stop "never hangs indefinitely", with a worker that never runs again.
StopCompletes == life = "sweeps" ~> life = "stopped"

-----------------------------------------------------------------------------
\* "Failures all land here without allocating a session (the listener
\* unwinds)": a connection bound to a session is the accept's own or has a
\* control task.
NoOrphan ==
  life = "up" =>
    \A s \in Live : sessions[s].conns \subseteq Running \cup {acc.t}

\* "No session is ever advertised without a unique durable lease": while
\* SessionAdmit is written, the session if it is still there has an Active
\* lease.
AdvertisedLeased ==
  acc.pc = "write" /\ Sess \in Live =>
    leases[Sess] # None /\ leases[Sess].st = "Active"
=============================================================================
