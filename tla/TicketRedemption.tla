--------------------------- MODULE TicketRedemption ---------------------------
(***************************************************************************)
(* Redemption of admission tickets: the durable replay cache (ReplayCache  *)
(* in v2/admission.rs, its journal in v2/replay.rs) behind the supervised  *)
(* persistence owner (v2/persistence.rs), a bounded queue with one worker  *)
(* thread.                                                                 *)
(*                                                                         *)
(* A listener task reads the wall clock, sweeps the address pool, checks   *)
(* the ticket against the time it read, queues its consumption with that   *)
(* time, and waits with a timeout.  The worker may run it later, after the *)
(* task gave up, when other tasks have already expired entries with later  *)
(* times.  The clock's grain is a second, io_timeout is half of one.       *)
(***************************************************************************)
EXTENDS Naturals, FiniteSets, Sequences

CONSTANTS
  Tickets,        \* ticket identifiers
  Expiry,         \* expiry of each ticket (exp claim, seconds)
  Tasks,          \* listener tasks
  Capacity,       \* capacity of the replay cache
  QueueCapacity,  \* queue_capacity of the owner
  Skew,           \* REPLAY_EXPIRY_SKEW_SECONDS
  ReplyWithin,    \* bound on the time from reading the clock to giving up
  TornWrites,     \* TRUE: a journal write may fail after its rename
  MaxTime,        \* bound on the wall clock
  None            \* absence of an entry, of a request or of a caller

ASSUME TicketAssumption ==
  IsFiniteSet(Tickets) /\ Expiry \in [Tickets -> Nat \ {0}]
ASSUME RedemptionBounds ==
  /\ Capacity \in Nat \ {0} /\ QueueCapacity \in Nat \ {0}
  /\ Skew \in Nat /\ ReplyWithin \in Nat /\ MaxTime \in Nat
  /\ TornWrites \in BOOLEAN
\* The address pool's sweep and the consume wait half a second each, and
\* advance_admission_time drops a fraction of a second: three seconds at most,
\* against the thirty of REPLAY_EXPIRY_SKEW_SECONDS.
ASSUME ReplyBelowSkew == ReplyWithin <= Skew

\* One queued consume call: at is the time its caller read; task is None once
\* the caller no longer waits for the reply.
Request == [ticket : Tickets, at : Nat, task : Tasks \cup {None}]

ASSUME RedemptionNone ==
  None \notin Nat /\ None \notin Tasks /\ None \notin Request

VARIABLES
  now,       \* wall clock
  up,        \* the gateway runs
  open,      \* the owner still accepts work
  queue,     \* requests waiting for the worker
  working,   \* the request whose journal write is under way
  entries,   \* ReplayCache.entries: retained-until of redeemed tickets
  file,      \* the journal: the expiry of redeemed tickets
  waiting,   \* the time a task that waits for its reply had read, or None
  admitted   \* how often each ticket was accepted

vars == <<now, up, open, queue, working, entries, file, waiting, admitted>>

Redeemed(m) == {k \in Tickets : m[k] # None}
NoEntries == [k \in Tickets |-> None]

\* Mutant: entries are kept until the ticket expires and no longer.
RetainedUntilExpiry(k) == Expiry[k]

RetainedUntil(k) == Expiry[k] + Skew

\* The entries still retained at time t.
Retained(m, t) ==
  [k \in Tickets |-> IF m[k] # None /\ m[k] > t THEN m[k] ELSE None]

\* rewrite_replay_journal stores the expiry, without the skew.
Encoded(m) == [k \in Tickets |-> IF m[k] = None THEN None ELSE m[k] - Skew]

\* read_replay_journal adds the skew again and leaves out what is expired.
Loaded(f, t) ==
  [k \in Tickets |-> IF f[k] # None /\ f[k] + Skew > t THEN f[k] + Skew ELSE None]

-----------------------------------------------------------------------------
\* consume_async and PersistenceOwner::execute

\* The ticket is valid at the time t the task read; a full queue refuses it at
\* once.
Submit(w, k, t) ==
  /\ up /\ open
  /\ waiting[w] = None
  /\ t <= now /\ now <= t + ReplyWithin
  /\ t < Expiry[k]
  /\ Len(queue) < QueueCapacity
  /\ queue' = Append(queue, [ticket |-> k, at |-> t, task |-> w])
  /\ waiting' = [waiting EXCEPT ![w] = t]
  /\ UNCHANGED <<now, up, open, working, entries, file, admitted>>

Abandon(r, w) == IF r.task = w THEN [r EXCEPT !.task = None] ELSE r

\* io_timeout, within the same second or the next: the task gives up; its
\* request stays where it is.
Timeout(w) ==
  /\ up
  /\ waiting[w] # None
  /\ waiting' = [waiting EXCEPT ![w] = None]
  /\ queue' = [i \in DOMAIN queue |-> Abandon(queue[i], w)]
  /\ working' = IF working = None THEN None ELSE Abandon(working, w)
  /\ UNCHANGED <<now, up, open, entries, file, admitted>>

\* The oneshot reply reaches the caller that still waits.
Reply(r, ok) ==
  /\ waiting' = IF r.task = None THEN waiting
                ELSE [waiting EXCEPT ![r.task] = None]
  /\ admitted' = IF ok /\ r.task # None
                 THEN [admitted EXCEPT ![r.ticket] = @ + 1]
                 ELSE admitted

\* Mutant: the cache takes one entry more than its capacity.
ConsumeOverfull(r) ==
  LET kept == Retained(entries, r.at)
  IN IF kept[r.ticket] # None \/ Cardinality(Redeemed(kept)) > Capacity
     THEN /\ entries' = kept
          /\ working' = None
          /\ Reply(r, FALSE)
     ELSE /\ entries' = [kept EXCEPT ![r.ticket] = RetainedUntil(r.ticket)]
          /\ working' = r
          /\ UNCHANGED <<waiting, admitted>>

\* consume up to its journal write: drop expired entries, refuse a redeemed
\* ticket or a full cache, otherwise insert.
Consume(r) ==
  LET kept == Retained(entries, r.at)
  IN IF kept[r.ticket] # None \/ Cardinality(Redeemed(kept)) >= Capacity
     THEN /\ entries' = kept
          /\ working' = None
          /\ Reply(r, FALSE)
     ELSE /\ entries' = [kept EXCEPT ![r.ticket] = RetainedUntil(r.ticket)]
          /\ working' = r
          /\ UNCHANGED <<waiting, admitted>>

\* Mutant: the worker exits as soon as the owner is closed.
WorkUntilStopped ==
  /\ up /\ open
  /\ working = None
  /\ queue # <<>>
  /\ queue' = Tail(queue)
  /\ Consume(Head(queue))
  /\ UNCHANGED <<now, up, open, file>>

\* The worker takes the next request; it holds the entries lock until the
\* write is over.
Work ==
  /\ up
  /\ working = None
  /\ queue # <<>>
  /\ queue' = Tail(queue)
  /\ Consume(Head(queue))
  /\ UNCHANGED <<now, up, open, file>>

\* Mutant: the caller is told before the journal holds its ticket.
WriteOptimistic ==
  /\ up
  /\ working # None
  /\ working' = None
  /\ file' \in {file, Encoded(entries)}
  /\ Reply(working, TRUE)
  /\ UNCHANGED <<now, up, open, queue, entries>>

\* rewrite_replay_journal: the whole map.  A failure takes the ticket out of
\* memory again; when it came after the rename the file already has it.
Write ==
  /\ up
  /\ working # None
  /\ working' = None
  /\ \/ /\ file' = Encoded(entries)
        /\ Reply(working, TRUE)
        /\ UNCHANGED entries
     \/ /\ file' \in {file} \cup (IF TornWrites THEN {Encoded(entries)} ELSE {})
        /\ entries' = [entries EXCEPT ![working.ticket] = None]
        /\ Reply(working, FALSE)
  /\ UNCHANGED <<now, up, open, queue>>

\* PersistenceOwner::stop: no new work; the worker drains the queue.
Stop ==
  /\ up /\ open
  /\ open' = FALSE
  /\ UNCHANGED <<now, up, queue, working, entries, file, waiting, admitted>>

-----------------------------------------------------------------------------
\* Crash and open_durable

Crash ==
  /\ up
  /\ up' = FALSE /\ open' = FALSE
  /\ queue' = <<>> /\ working' = None
  /\ entries' = NoEntries
  /\ waiting' = [w \in Tasks |-> None]
  /\ UNCHANGED <<now, file, admitted>>

\* The journal without its expired entries becomes the cache and is written
\* back; when that fails the gateway does not start.
Open ==
  LET loaded == Loaded(file, now)
  IN /\ ~up
     /\ Cardinality(Redeemed(loaded)) <= Capacity
     /\ \/ /\ up' = TRUE /\ open' = TRUE
           /\ entries' = loaded
           /\ file' = Encoded(loaded)
        \/ /\ TornWrites
           /\ file' = Encoded(loaded)
           /\ UNCHANGED <<up, open, entries>>
     /\ UNCHANGED <<now, queue, working, waiting, admitted>>

\* The timer of a waiting task fires before it is overdue.
Tick ==
  /\ now < MaxTime
  /\ \A w \in Tasks : waiting[w] # None => now < waiting[w] + ReplyWithin
  /\ now' = now + 1
  /\ UNCHANGED <<up, open, queue, working, entries, file, waiting, admitted>>

-----------------------------------------------------------------------------
Init ==
  /\ now = 0
  /\ up = FALSE /\ open = FALSE
  /\ queue = <<>> /\ working = None
  /\ entries = NoEntries /\ file = NoEntries
  /\ waiting = [w \in Tasks |-> None]
  /\ admitted = [k \in Tickets |-> 0]

Next ==
  \/ \E w \in Tasks :
       \/ Timeout(w)
       \/ \E k \in Tickets, t \in 0 .. now : Submit(w, k, t)
  \/ Work
  \/ Write
  \/ Stop
  \/ Crash
  \/ Open
  \/ Tick

Spec == Init /\ [][Next]_vars

\* The worker thread keeps running and timers fire.
FairSpec ==
  Spec /\ WF_vars(Work) /\ WF_vars(Write) /\ \A w \in Tasks : WF_vars(Timeout(w))

-----------------------------------------------------------------------------
\* Properties

\* Types of the owner, the cache and its journal.
TypeOK ==
  /\ now \in Nat /\ up \in BOOLEAN /\ open \in BOOLEAN
  /\ queue \in Seq(Request)
  /\ working \in Request \cup {None}
  /\ entries \in [Tickets -> Nat \cup {None}]
  /\ file \in [Tickets -> Nat \cup {None}]
  /\ waiting \in [Tasks -> Nat \cup {None}]
  /\ admitted \in [Tickets -> Nat]

\* No ticket is accepted twice: not by two tasks, not by a request that ran
\* late, not after a failed write, a crash or a restart.
AdmittedOnce == \A k \in Tickets : admitted[k] <= 1

\* A ticket that was accepted is in the journal for as long as anyone could
\* still present it: "no SessionAdmit is ever written without a durable
\* redemption" (admission.rs).
DurableRedemption ==
  \A k \in Tickets :
    admitted[k] > 0 => file[k] # None \/ now >= Expiry[k] + Skew

\* The replay cache never exceeds its capacity, nor does the journal, so a
\* restart never finds more than it accepts.
CacheBounded ==
  /\ Cardinality(Redeemed(entries)) <= Capacity
  /\ Cardinality(Redeemed(file)) <= Capacity

\* Entries and records carry the deadline of their ticket, and what was accepted is still
\* known in memory; a request carries a time at which its ticket was valid, and
\* one whose caller waits carries the time that caller had read.
EntriesOK ==
  /\ \A k \in Tickets :
       /\ entries[k] # None => entries[k] = Expiry[k] + Skew
       /\ file[k] # None => file[k] = Expiry[k]
       /\ up /\ admitted[k] > 0 =>
            entries[k] # None \/ now >= Expiry[k] + Skew
  /\ \A w \in Tasks : waiting[w] # None =>
       waiting[w] <= now /\ now <= waiting[w] + ReplyWithin
RequestOK(r) ==
  /\ r.at <= now
  /\ r.at < Expiry[r.ticket]
  /\ r.task # None => waiting[r.task] = r.at
RequestsOK ==
  /\ \A i \in 1 .. Len(queue) : RequestOK(queue[i])
  /\ working # None =>
       /\ RequestOK(working)
       /\ entries[working.ticket] # None
       /\ up
       /\ working.task # None => admitted[working.ticket] = 0
       /\ admitted[working.ticket] > 0 =>
            now >= Expiry[working.ticket] + Skew

\* A task waits for one request at a time.
OneRequestEach ==
  /\ \A i, j \in 1 .. Len(queue) :
       i # j /\ queue[i].task # None => queue[i].task # queue[j].task
  /\ working # None /\ working.task # None =>
       \A i \in 1 .. Len(queue) : queue[i].task # working.task

\* The inductive invariant behind the theorems of TicketRedemptionProofs.
IndInv ==
  TypeOK /\ EntriesOK /\ RequestsOK /\ OneRequestEach
    /\ DurableRedemption /\ AdmittedOnce

\* After stop the worker drains what was queued and comes to rest, however many
\* callers have given up ("the worker drains queued work then exits").
StopDrains == ~open ~> (queue = <<>> /\ working = None)
=============================================================================
