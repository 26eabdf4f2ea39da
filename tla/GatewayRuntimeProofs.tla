------------------------ MODULE GatewayRuntimeProofs ------------------------
(***************************************************************************)
(* Proofs about the gateway runtime, for any tickets, sessions and sources *)
(* and any capacities and times: the permits of the limiter balance, and   *)
(* an Active lease has an owner.                                           *)
(*                                                                         *)
(* A lease becomes Active when the worker executes a commit, at a time     *)
(* when the accept that submitted it may be long gone.  The invariant says *)
(* who owns a reserved lease with a commit in the queue, and that a commit *)
(* never stands behind a reserve: the commit that meets a reserved lease   *)
(* was submitted for it, not for a lease the session had before.           *)
(***************************************************************************)
EXTENDS GatewayRuntime, SequenceTheorems, TLAPS

Request ==
  [call : Calls, s : Sessions \cup {None}, at : Nat, who : Actors \cup {None}]
Reply == [ok : BOOLEAN, expired : SUBSET Sessions]
Accept ==
  [pc : {"top", "listen", "handshake", "hello", "sweep", "consume", "reserve",
         "commit", "unbind", "unwind", "write"},
   t : Tickets \cup {None}, src : Sources \cup {None}, started : Nat,
   arrived : Nat, at : Nat, creates : BOOLEAN]
Task ==
  [pc : {"read", "swept", "renew", "answer", "done"}, at : Nat, n : Nat,
   kind : {None, "renew", "close", "other"}, open : BOOLEAN]

\* A lease that is reserved or active, and the one of the quarantine.
Lease == [st : {"Reserved", "Active"}, exp : Nat] \cup {ParkedLease}

MapsType ==
  /\ sessions \in [Sessions -> Session \cup {None}]
  /\ admissions \in [Sessions -> Nat \cup {None}]
  /\ owed \subseteq Sessions

PoolType ==
  /\ leases \in [Sessions -> Lease \cup {None}]
  /\ missed \subseteq Sessions

OwnerType ==
  /\ queue \in Seq(Request)
  /\ \A i \in 1 .. Len(queue) : queue[i].call # "sweep" => queue[i].s \in Sessions
  /\ reply \in [Actors -> Reply \cup {None}]

LimiterType ==
  /\ sources \in [Sources -> Source \cup {None}]
  /\ in_flight \in Nat

AcceptType ==
  /\ acc \in Accept
  /\ acc.pc \notin {"top", "listen"} => acc.t \in Tickets /\ acc.src \in Sources

TypeOK ==
  /\ now \in Nat
  /\ MapsType /\ PoolType /\ OwnerType /\ LimiterType /\ AcceptType
  /\ redeemed \subseteq Tickets
  /\ tasks \in [Tickets -> Task \cup {None}]
  /\ sweeper \in BOOLEAN
  /\ life \in {"up", "sweeps", "closing", "flushing", "draining", "stopped"}

\* The accept future awaits a call of the pool at these places.
Awaiting == {"sweep", "reserve", "commit", "unbind", "unwind"}

\* No reserve of the accept loop is queued behind call i.
LastReserve(i) == \A j \in i + 1 .. Len(queue) : queue[j].call # "reserve"

\* The accept awaits at most one call and has no answer yet; a reserve that
\* has its answer was the last one; and no commit was submitted while a reserve
\* was queued.
AcceptOK ==
  /\ \A i, j \in 1 .. Len(queue) :
       queue[i].who = "accept" /\ queue[j].who = "accept" => i = j
  /\ \A i \in 1 .. Len(queue) : queue[i].who = "accept" =>
       /\ reply["accept"] = None
       /\ acc.pc \in Awaiting
       /\ acc.pc = "reserve" => LastReserve(i)
  /\ acc.pc = "reserve" /\ reply["accept"] # None /\ reply["accept"].ok =>
       \A i \in 1 .. Len(queue) : queue[i].call # "reserve"
  /\ \A i, j \in 1 .. Len(queue) :
       i < j /\ queue[i].call = "reserve" => queue[j].call # "commit"

\* Somebody will give the lease of s back.
Queued(call, s) == \E i \in DOMAIN queue : queue[i].call = call /\ queue[i].s = s
Owned(s) == s \in Live \cup owed \cup missed \/ Queued("release", s)

\* A lease that is Active, or Reserved and about to be, is owned.
OwnedOK ==
  \A s \in Sessions :
    leases[s] # None =>
      /\ leases[s].st = "Active" => Owned(s)
      /\ leases[s].st = "Reserved" /\ Queued("commit", s) => Owned(s)

RuntimeInv == TypeOK /\ PermitsBalance /\ AcceptOK /\ OwnedOK

-----------------------------------------------------------------------------
\* The owner's queue

\* An answer that no caller mistakes for another.
LEMMA FailedReply == Failed \in Reply /\ Failed.ok = FALSE
BY DEF Failed, Reply

\* The actors besides the tickets.
LEMMA ActorNames ==
  ASSUME GatewayBounds
  PROVE  /\ "accept" \in Actors /\ "sweeper" \in Actors /\ "stop" \in Actors
         /\ \A t \in Tickets : t \in Actors /\ t # "accept"
         /\ None \notin Actors
BY DEF GatewayBounds, Actors

\* A call that is queued stands last; one that is not has failed.
LEMMA SubmitShape ==
  ASSUME OwnerType, NEW who \in Actors, NEW call \in Calls, NEW at \in Nat,
         NEW s \in Sessions \cup {None}, call # "sweep" => s \in Sessions,
         Submit(who, call, s, at)
  PROVE  /\ OwnerType'
         /\ \A a \in Actors : a # who => reply'[a] = reply[a]
         /\ \/ queue' = queue /\ reply'[who] = Failed
            \/ /\ reply'[who] = None /\ Len(queue') = Len(queue) + 1
               /\ \A i \in 1 .. Len(queue) : queue'[i] = queue[i]
               /\ queue'[Len(queue) + 1] = [call |-> call, s |-> s, at |-> at, who |-> who]
<1> DEFINE r == [call |-> call, s |-> s, at |-> at, who |-> who]
<1>1. r \in Request /\ r.call = call /\ r.s = s
  BY DEF Request
<1>2. /\ queue \in Seq(Request) /\ Len(queue) \in Nat
      /\ reply \in [Actors -> Reply \cup {None}]
      /\ \A i \in 1 .. Len(queue) : queue[i].call # "sweep" => queue[i].s \in Sessions
  BY DEF OwnerType
<1>3. CASE queue' = queue /\ reply' = [reply EXCEPT ![who] = Failed]
  BY <1>2, <1>3, FailedReply DEF OwnerType
<1>4. CASE queue' = Append(queue, r) /\ reply' = [reply EXCEPT ![who] = None]
  <2> HIDE DEF r
  <2>1. /\ queue' \in Seq(Request) /\ Len(queue') = Len(queue) + 1
        /\ \A i \in 1 .. Len(queue) : queue'[i] = queue[i]
        /\ queue'[Len(queue) + 1] = r
    BY <1>1, <1>2, <1>4
  <2>2. ASSUME NEW i \in 1 .. Len(queue'), queue'[i].call # "sweep"
        PROVE  queue'[i].s \in Sessions
    BY <1>1, <1>2, <2>1, <2>2
  <2>3. /\ reply' \in [Actors -> Reply \cup {None}] /\ reply'[who] = None
        /\ \A a \in Actors : a # who => reply'[a] = reply[a]
    BY <1>2, <1>4
  <2> QED BY <2>1, <2>2, <2>3 DEF OwnerType, r
<1> HIDE DEF r
<1> QED BY <1>3, <1>4 DEF Submit, r

\* The queue holds the same calls, of fewer callers.
SameCalls ==
  /\ Len(queue') = Len(queue)
  /\ \A i \in 1 .. Len(queue) :
       /\ queue'[i].call = queue[i].call /\ queue'[i].s = queue[i].s
       /\ queue'[i].who \in {queue[i].who, None}

\* The receivers of W are gone.
LEMMA AbandonedShape ==
  ASSUME OwnerType, NEW W, queue' = Abandoned(W)
  PROVE  /\ queue' \in Seq(Request) /\ SameCalls
         /\ \A i \in 1 .. Len(queue) : queue'[i].who = IF queue[i].who \in W THEN None
                                                       ELSE queue[i].who
         /\ \A i \in 1 .. Len(queue') : queue'[i].call # "sweep" => queue'[i].s \in Sessions
<1>1. queue \in Seq(Request) /\ DOMAIN queue = 1 .. Len(queue) /\ Len(queue) \in Nat
  BY DEF OwnerType
<1>2. ASSUME NEW i \in 1 .. Len(queue)
      PROVE  /\ queue'[i] \in Request
             /\ queue'[i].call = queue[i].call /\ queue'[i].s = queue[i].s
             /\ queue'[i].who = IF queue[i].who \in W THEN None ELSE queue[i].who
  <2>1. queue[i] \in Request
    BY <1>1
  <2>2. queue'[i] = IF queue[i].who \in W THEN [queue[i] EXCEPT !.who = None] ELSE queue[i]
    BY <1>1 DEF Abandoned
  <2> QED BY <2>1, <2>2 DEF Request
<1>3. queue' = [i \in 1 .. Len(queue) |-> queue'[i]]
  BY <1>1 DEF Abandoned
<1>4. queue' \in Seq(Request) /\ Len(queue') = Len(queue)
  BY <1>1, <1>2, <1>3
<1> QED BY <1>1, <1>2, <1>4 DEF OwnerType, SameCalls

\* Answers that nobody is there to read.
LEMMA SilentShape ==
  ASSUME OwnerType, NEW W, reply' = Silent(W)
  PROVE  /\ reply' \in [Actors -> Reply \cup {None}]
         /\ \A a \in Actors : reply'[a] = IF a \in W THEN None ELSE reply[a]
BY DEF OwnerType, Silent

-----------------------------------------------------------------------------
\* What the accept loop awaits

\* No call of the accept loop is queued.
Idle == \A i \in 1 .. Len(queue) : queue[i].who # "accept"

\* An accept that awaits nothing, or has its answer, has no call queued.
LEMMA IdleAccept ==
  ASSUME AcceptOK, reply["accept"] # None \/ acc.pc \notin Awaiting
  PROVE  Idle
BY DEF AcceptOK, Idle

\* The queue holds the same calls, and the accept loop is where it was.
LEMMA AcceptWaits ==
  ASSUME GatewayBounds, OwnerType, AcceptOK, SameCalls,
         reply'["accept"] = reply["accept"], acc'.pc = acc.pc
  PROVE  AcceptOK'
<1>1. Len(queue) \in Nat
  BY DEF OwnerType
<1>2. /\ \A i \in 1 .. Len(queue') : queue'[i].who = "accept" => queue[i].who = "accept"
      /\ \A i \in 1 .. Len(queue') : queue'[i].call = queue[i].call
      /\ Len(queue') = Len(queue)
  BY ActorNames DEF SameCalls
<1>3. \A i \in 1 .. Len(queue) : LastReserve(i) => LastReserve(i)'
  BY <1>1, <1>2 DEF LastReserve
<1> HIDE DEF LastReserve
<1> QED BY <1>1, <1>2, <1>3 DEF AcceptOK

\* The accept loop moves on, with no call queued and no lease reserved.
LEMMA AcceptMoves ==
  ASSUME OwnerType, AcceptOK, SameCalls, Idle',
         acc'.pc # "reserve" \/ reply'["accept"] = None \/ ~reply'["accept"].ok
  PROVE  AcceptOK'
<1>1. Len(queue) \in Nat
  BY DEF OwnerType
<1> QED BY <1>1 DEF AcceptOK, SameCalls, Idle

\* The accept loop submits its next call.
LEMMA AcceptSubmits ==
  ASSUME GatewayBounds, OwnerType, AcceptOK, Idle,
         NEW call \in Calls, NEW at \in Nat,
         NEW s \in Sessions \cup {None}, call # "sweep" => s \in Sessions,
         Submit("accept", call, s, at), acc'.pc \in Awaiting,
         call = "commit" => \A i \in 1 .. Len(queue) : queue[i].call # "reserve"
  PROVE  AcceptOK'
<1>1. Len(queue) \in Nat /\ "accept" \in Actors
  BY ActorNames DEF OwnerType
<1>2. CASE queue' = queue /\ reply'["accept"] = Failed
  BY <1>1, <1>2, FailedReply DEF AcceptOK, Idle
<1>3. CASE /\ reply'["accept"] = None /\ Len(queue') = Len(queue) + 1
           /\ \A i \in 1 .. Len(queue) : queue'[i] = queue[i]
           /\ queue'[Len(queue) + 1] = [call |-> call, s |-> s, at |-> at, who |-> "accept"]
  <2>1. \A i \in 1 .. Len(queue') : queue'[i].who = "accept" => i = Len(queue')
    BY <1>1, <1>3 DEF Idle
  <2>2. \A i \in 1 .. Len(queue') : i = Len(queue') => LastReserve(i)'
    BY <1>1, <1>3 DEF LastReserve
  <2>3. ASSUME NEW i \in 1 .. Len(queue'), NEW j \in 1 .. Len(queue'),
               i < j, queue'[i].call = "reserve", queue'[j].call = "commit"
        PROVE  FALSE
    <3>1. i \in 1 .. Len(queue)
      BY <1>1, <1>3, <2>3
    <3>2. CASE j \in 1 .. Len(queue)
      BY <1>1, <1>3, <2>3, <3>1, <3>2 DEF AcceptOK
    <3>3. CASE j = Len(queue) + 1
      BY <1>1, <1>3, <2>3, <3>1, <3>3
    <3> QED BY <1>1, <1>3, <3>2, <3>3
  <2> QED BY <1>3, <2>1, <2>2, <2>3 DEF AcceptOK
<1> QED BY <1>1, <1>2, <1>3, SubmitShape

\* Another actor submits a call that is neither a reserve nor a commit.
LEMMA OtherSubmits ==
  ASSUME GatewayBounds, OwnerType, AcceptOK, NEW who \in Actors, who # "accept",
         NEW call \in Calls \ {"reserve", "commit"}, NEW at \in Nat,
         NEW s \in Sessions \cup {None}, call # "sweep" => s \in Sessions,
         Submit(who, call, s, at), acc'.pc = acc.pc
  PROVE  AcceptOK'
<1>1. Len(queue) \in Nat /\ "accept" \in Actors
  BY ActorNames DEF OwnerType
<1>2. reply'["accept"] = reply["accept"]
  BY <1>1, SubmitShape
<1>3. CASE queue' = queue
  BY <1>2, <1>3 DEF AcceptOK, LastReserve
<1>4. CASE /\ Len(queue') = Len(queue) + 1
           /\ \A i \in 1 .. Len(queue) : queue'[i] = queue[i]
           /\ queue'[Len(queue) + 1] = [call |-> call, s |-> s, at |-> at, who |-> who]
  <2>1. /\ queue'[Len(queue')].who # "accept"
        /\ queue'[Len(queue')].call \notin {"reserve", "commit"}
    BY <1>4
  <2>2. \A i \in 1 .. Len(queue') : i \in 1 .. Len(queue) \/ i = Len(queue')
    BY <1>1, <1>4
  <2>3. \A i \in 1 .. Len(queue) : LastReserve(i) => LastReserve(i)'
    BY <1>1, <1>4, <2>1, <2>2 DEF LastReserve
  <2> QED BY <1>1, <1>2, <1>4, <2>1, <2>2, <2>3 DEF AcceptOK
<1> QED BY <1>1, <1>3, <1>4, SubmitShape

\* The worker takes the oldest call.
LEMMA OldestTaken ==
  ASSUME OwnerType, queue # <<>>, queue' = Tail(queue)
  PROVE  /\ Len(queue) \in Nat \ {0} /\ Len(queue') = Len(queue) - 1
         /\ queue' \in Seq(Request)
         /\ \A i \in 1 .. Len(queue') : i + 1 \in 1 .. Len(queue) /\ queue'[i] = queue[i + 1]
         /\ Head(queue) = queue[1] /\ 1 \in 1 .. Len(queue) /\ Head(queue) \in Request
         /\ Head(queue).call # "sweep" => Head(queue).s \in Sessions
         /\ \A i \in 1 .. Len(queue') : queue'[i].call # "sweep" => queue'[i].s \in Sessions
<1>1. queue \in Seq(Request) /\ Len(queue) \in Nat \ {0}
  BY DEF OwnerType
<1>2. /\ Len(queue') = Len(queue) - 1 /\ queue' \in Seq(Request)
      /\ \A i \in 1 .. Len(queue') : i + 1 \in 1 .. Len(queue) /\ queue'[i] = queue[i + 1]
  BY <1>1
<1>3. Head(queue) = queue[1] /\ 1 \in 1 .. Len(queue) /\ queue[1] \in Request
  BY <1>1
<1> QED BY <1>1, <1>2, <1>3 DEF OwnerType

\* The answer to a call.
Answers(r) ==
  \E v \in Reply : reply' = IF r.who = None THEN reply ELSE [reply EXCEPT ![r.who] = v]

\* An answered call was the only one the accept loop awaits.
LEMMA WorkerAnswers ==
  ASSUME GatewayBounds, OwnerType, AcceptOK, queue # <<>>, queue' = Tail(queue),
         Answers(Head(queue)), acc'.pc = acc.pc
  PROVE  OwnerType' /\ AcceptOK'
<1> DEFINE r == Head(queue)
<1>1. /\ Len(queue) \in Nat \ {0} /\ Len(queue') = Len(queue) - 1
      /\ queue' \in Seq(Request)
      /\ \A i \in 1 .. Len(queue') : i + 1 \in 1 .. Len(queue) /\ queue'[i] = queue[i + 1]
      /\ r = queue[1] /\ 1 \in 1 .. Len(queue) /\ r \in Request
      /\ \A i \in 1 .. Len(queue') : queue'[i].call # "sweep" => queue'[i].s \in Sessions
  BY OldestTaken
<1>2. PICK v \in Reply :
        reply' = IF r.who = None THEN reply ELSE [reply EXCEPT ![r.who] = v]
  BY DEF Answers
<1> HIDE DEF r
<1>3. r.who \in Actors \cup {None} /\ reply \in [Actors -> Reply \cup {None}]
  BY <1>1 DEF Request, OwnerType
<1>4. reply' \in [Actors -> Reply \cup {None}]
  BY <1>2, <1>3
<1>5. OwnerType'
  BY <1>1, <1>4 DEF OwnerType
<1>6. \A i \in 1 .. Len(queue') : LastReserve(i + 1) => LastReserve(i)'
  <2> SUFFICES ASSUME NEW i \in 1 .. Len(queue'), LastReserve(i + 1),
                      NEW j \in i + 1 .. Len(queue')
               PROVE  queue'[j].call # "reserve"
    BY <1>1 DEF LastReserve
  <2>1. i \in Nat /\ j \in 1 .. Len(queue') /\ j + 1 \in (i + 1) + 1 .. Len(queue)
    BY <1>1
  <2>2. queue'[j] = queue[j + 1]
    BY <1>1, <2>1
  <2> QED BY <2>1, <2>2 DEF LastReserve
<1>7. \A i \in 1 .. Len(queue'), j \in 1 .. Len(queue') :
        i < j /\ queue'[i].call = "reserve" => queue'[j].call # "commit"
  <2> SUFFICES ASSUME NEW i \in 1 .. Len(queue'), NEW j \in 1 .. Len(queue'), i < j,
                      queue'[i].call = "reserve"
               PROVE  queue'[j].call # "commit"
    OBVIOUS
  <2>1. /\ i + 1 \in 1 .. Len(queue) /\ j + 1 \in 1 .. Len(queue) /\ i + 1 < j + 1
        /\ queue'[i] = queue[i + 1] /\ queue'[j] = queue[j + 1]
    BY <1>1
  <2> QED BY <2>1 DEF AcceptOK
<1>8. CASE r.who = "accept"
  <2>1. acc.pc = "reserve" => LastReserve(1)
    BY <1>1, <1>8 DEF AcceptOK
  <2>2. ASSUME acc.pc = "reserve", NEW i \in 1 .. Len(queue')
        PROVE  queue'[i].call # "reserve"
    <3>1. i + 1 \in 1 + 1 .. Len(queue) /\ queue'[i] = queue[i + 1]
      BY <1>1
    <3> QED BY <2>1, <2>2, <3>1 DEF LastReserve
  <2>3. ASSUME NEW i \in 1 .. Len(queue')
        PROVE  queue'[i].who # "accept"
    <3>1. i + 1 \in 1 .. Len(queue) /\ i + 1 # 1 /\ queue'[i] = queue[i + 1]
      BY <1>1
    <3> QED BY <1>1, <1>8, <3>1 DEF AcceptOK
  <2> QED BY <1>5, <1>7, <2>2, <2>3 DEF AcceptOK
<1>9. CASE r.who # "accept"
  <2>1. reply'["accept"] = reply["accept"]
    <3>1. "accept" \in Actors
      BY ActorNames
    <3>2. CASE r.who = None
      BY <1>2, <3>2
    <3>3. CASE r.who # None
      BY <1>2, <1>3, <1>9, <3>1, <3>3
    <3> QED BY <3>2, <3>3
  <2>2. ASSUME NEW i \in 1 .. Len(queue'), NEW j \in 1 .. Len(queue'),
               queue'[i].who = "accept", queue'[j].who = "accept"
        PROVE  i = j
    <3>1. /\ i \in Nat /\ j \in Nat
          /\ i + 1 \in 1 .. Len(queue) /\ j + 1 \in 1 .. Len(queue)
          /\ queue'[i] = queue[i + 1] /\ queue'[j] = queue[j + 1]
      BY <1>1
    <3>2. i + 1 = j + 1
      BY <2>2, <3>1 DEF AcceptOK
    <3> QED BY <3>1, <3>2
  <2>3. ASSUME NEW i \in 1 .. Len(queue'), queue'[i].who = "accept"
        PROVE  /\ reply'["accept"] = None /\ acc'.pc \in Awaiting
               /\ acc'.pc = "reserve" => LastReserve(i)'
    <3>1. i + 1 \in 1 .. Len(queue) /\ queue'[i] = queue[i + 1]
      BY <1>1
    <3>2. /\ reply["accept"] = None /\ acc.pc \in Awaiting
          /\ acc.pc = "reserve" => LastReserve(i + 1)
      BY <2>3, <3>1 DEF AcceptOK
    <3>3. acc.pc = "reserve" => LastReserve(i)'
      BY <1>6, <3>2
    <3> QED BY <2>1, <3>2, <3>3
  <2>4. acc.pc = "reserve" /\ reply["accept"] # None /\ reply["accept"].ok =>
          \A i \in 1 .. Len(queue') : queue'[i].call # "reserve"
    BY <1>1 DEF AcceptOK
  <2> QED BY <1>5, <1>7, <2>1, <2>2, <2>3, <2>4 DEF AcceptOK
<1> QED BY <1>8, <1>9

-----------------------------------------------------------------------------
\* Who owns a lease

\* Session s has a lease that is reserved or active, as before the step, and
\* whoever gave it back by living, by cleanup or in the history still does.
StillMinded(s) ==
  leases'[s] # None /\ leases'[s].st # "Parked" =>
    /\ leases'[s] = leases[s]
    /\ s \in Live \cup owed \cup missed => s \in Live' \cup owed' \cup missed'

\* A step that queues no commit, takes no release from the queue and minds
\* every lease keeps the owners.
LEMMA OwnersKept ==
  ASSUME OwnedOK,
         \A s \in Sessions : Queued("release", s) => Queued("release", s)',
         \A s \in Sessions : Queued("commit", s)' => Queued("commit", s) \/ s \in Live',
         \A s \in Sessions : StillMinded(s)
  PROVE  OwnedOK'
<1> SUFFICES ASSUME NEW s \in Sessions, leases'[s] # None
             PROVE  /\ leases'[s].st = "Active" => Owned(s)'
                    /\ leases'[s].st = "Reserved" /\ Queued("commit", s)' => Owned(s)'
  BY DEF OwnedOK
<1>1. /\ Queued("release", s) => Queued("release", s)'
      /\ Queued("commit", s)' => Queued("commit", s) \/ s \in Live'
      /\ StillMinded(s)
  OBVIOUS
<1>2. Owned(s)' <=> s \in Live' \cup owed' \cup missed' \/ Queued("release", s)'
  BY DEF Owned
<1>3. ASSUME leases'[s].st = "Active" \/ leases'[s].st = "Reserved"
      PROVE  /\ leases'[s] = leases[s]
             /\ Owned(s) => Owned(s)'
  BY <1>1, <1>2, <1>3 DEF StillMinded, Owned
<1> HIDE DEF Owned, Queued, StillMinded
<1>4. CASE leases'[s].st = "Active"
  BY <1>3, <1>4 DEF OwnedOK
<1>5. CASE leases'[s].st = "Reserved"
  <2>1. leases'[s] = leases[s] /\ (Owned(s) => Owned(s)')
    BY <1>3, <1>5
  <2>2. Queued("commit", s) => Owned(s)
    BY <1>5, <2>1 DEF OwnedOK
  <2> QED BY <1>1, <1>2, <1>5, <2>1, <2>2
<1> QED BY <1>4, <1>5

\* The same calls are queued after a caller gave up.
LEMMA SameQueued ==
  ASSUME OwnerType, SameCalls, queue' \in Seq(Request), NEW call, NEW s
  PROVE  Queued(call, s)' <=> Queued(call, s)
<1>1. DOMAIN queue = 1 .. Len(queue) /\ DOMAIN queue' = 1 .. Len(queue)
  BY DEF OwnerType, SameCalls
<1> QED BY <1>1 DEF SameCalls, Queued

\* A submitted call joins the ones that are queued, or is refused.
LEMMA SubmitQueued ==
  ASSUME OwnerType, NEW who \in Actors, NEW call \in Calls, NEW at \in Nat,
         NEW s \in Sessions \cup {None}, call # "sweep" => s \in Sessions,
         Submit(who, call, s, at), NEW c, NEW x
  PROVE  /\ Queued(c, x) => Queued(c, x)'
         /\ Queued(c, x)' => Queued(c, x) \/ (c = call /\ x = s)
<1>1. OwnerType'
  BY SubmitShape
<1>2. /\ Len(queue) \in Nat /\ DOMAIN queue = 1 .. Len(queue)
      /\ DOMAIN queue' = 1 .. Len(queue')
  BY <1>1 DEF OwnerType
<1>3. CASE queue' = queue
  BY <1>3 DEF Queued
<1>4. CASE /\ Len(queue') = Len(queue) + 1
           /\ \A i \in 1 .. Len(queue) : queue'[i] = queue[i]
           /\ queue'[Len(queue) + 1] = [call |-> call, s |-> s, at |-> at, who |-> who]
  BY <1>2, <1>4 DEF Queued
<1> QED BY <1>3, <1>4, SubmitShape

\* Nothing happens to the maps and the pool, or only sessions come.
LEMMA MindedSame ==
  ASSUME UNCHANGED pool, owed' = owed, Live \subseteq Live'
  PROVE  \A s \in Sessions : StillMinded(s)
BY DEF pool, StillMinded

\* The synchronous cleanup hook parks the lease of a removed session, or the
\* history says that it did not.
LEMMA DeferredShape ==
  ASSUME PoolType, NEW S \in SUBSET Sessions, Deferred(S)
  PROVE  /\ PoolType'
         /\ \A s \in Sessions : leases'[s] # None /\ leases'[s].st # "Parked" =>
              /\ leases'[s] = leases[s]
              /\ s \in missed \cup S => s \in missed'
<1>1. PICK busy \in SUBSET (S \cap Inflight) :
        /\ leases' = [s \in Sessions |->
             IF s \in (S \ busy) \cap Blocked THEN ParkedLease ELSE leases[s]]
        /\ missed' = StillHeld(missed \cup busy)
  BY DEF Deferred
<1>2. ParkedLease \in Lease /\ ParkedLease.st = "Parked"
  BY DEF Lease, ParkedLease
<1>3. leases \in [Sessions -> Lease \cup {None}] /\ missed \subseteq Sessions
  BY DEF PoolType
<1>4. leases' \in [Sessions -> Lease \cup {None}]
  BY <1>1, <1>2, <1>3
<1>5. missed' \subseteq Sessions
  BY <1>1, <1>3 DEF StillHeld
<1>6. ASSUME NEW s \in Sessions, leases'[s] # None, leases'[s].st # "Parked"
      PROVE  leases'[s] = leases[s] /\ (s \in missed \cup S => s \in missed')
  <2>1. leases'[s] = IF s \in (S \ busy) \cap Blocked THEN ParkedLease ELSE leases[s]
    BY <1>1
  <2>2. leases'[s] = leases[s] /\ s \notin (S \ busy) \cap Blocked
    BY <1>2, <1>6, <2>1
  <2>3. s \in Blocked
    BY <1>6, <2>2 DEF Blocked
  <2>4. s \in missed \cup S => s \in missed \cup busy
    BY <2>2, <2>3
  <2> QED BY <1>1, <1>6, <2>2, <2>4 DEF StillHeld
<1> QED BY <1>4, <1>5, <1>6 DEF PoolType

\* Sessions are removed, and their cleanup hook runs.
LEMMA MindedRemoved ==
  ASSUME PoolType, MapsType, NEW R, NEW S \in SUBSET Sessions, R \cap Live \subseteq S,
         sessions' = Without(R), owed' = owed, Deferred(S)
  PROVE  /\ PoolType' /\ sessions' \in [Sessions -> Session \cup {None}]
         /\ \A s \in Sessions : StillMinded(s)
<1>1. \A s \in Sessions : sessions'[s] = IF s \in R THEN None ELSE sessions[s]
  BY DEF Without
<1>2. sessions' \in [Sessions -> Session \cup {None}]
  BY DEF Without, MapsType
<1>3. \A s \in Live : s \in Live' \/ s \in S
  BY <1>1 DEF Live
<1> QED BY <1>2, <1>3, DeferredShape DEF StillMinded, MapsType

\* Sessions are removed elsewhere, and their cleanup is to come.
LEMMA MindedElsewhere ==
  ASSUME MapsType, UNCHANGED pool, NEW R, RemovesElsewhere(R)
  PROVE  /\ sessions' \in [Sessions -> Session \cup {None}] /\ owed' \subseteq Sessions
         /\ \A s \in Sessions : StillMinded(s)
<1>1. \A s \in Sessions : sessions'[s] = IF s \in R THEN None ELSE sessions[s]
  BY DEF Without, RemovesElsewhere
<1>2. sessions' \in [Sessions -> Session \cup {None}]
  BY DEF Without, MapsType, RemovesElsewhere
<1>3. \A s \in Live : s \in Live' \/ s \in owed'
  BY <1>1 DEF Live, RemovesElsewhere
<1>4. owed' \subseteq Sessions /\ owed \subseteq owed'
  BY DEF RemovesElsewhere, MapsType, Live
<1> QED BY <1>2, <1>3, <1>4 DEF StillMinded, pool

-----------------------------------------------------------------------------
\* The permits of the limiter

\* A step of someone who neither takes nor gives a permit.
LEMMA PermitKept ==
  ASSUME LimiterType, PermitsBalance, UNCHANGED limiter,
         HoldsPermit' <=> HoldsPermit, HoldsPermit => acc'.src = acc.src
  PROVE  LimiterType' /\ PermitsBalance'
<1>1. UNCHANGED <<sources, in_flight>>
  BY DEF limiter
<1>2. LimiterType'
  BY <1>1 DEF LimiterType
<1> HIDE DEF HoldsPermit
<1>3. CASE HoldsPermit
  BY <1>1, <1>2, <1>3 DEF PermitsBalance
<1>4. CASE ~HoldsPermit
  BY <1>1, <1>2, <1>4 DEF PermitsBalance
<1> QED BY <1>3, <1>4

\* The permit of the accept is dropped.
LEMMA PermitDropped ==
  ASSUME LimiterType, AcceptType, PermitsBalance, HoldsPermit, DropPermit, ~HoldsPermit'
  PROVE  LimiterType' /\ PermitsBalance'
<1>1. acc.src \in Sources
  BY DEF AcceptType, HoldsPermit
<1>2. /\ in_flight = 1
      /\ sources[acc.src] # None /\ sources[acc.src].n = 1
      /\ \A x \in Sources : x # acc.src /\ sources[x] # None => sources[x].n = 0
  BY <1>1 DEF PermitsBalance
<1>3. /\ sources \in [Sources -> Source \cup {None}]
      /\ sources[acc.src] \in Source
  BY <1>1, <1>2 DEF LimiterType
<1>4. in_flight' = 0
  BY <1>2 DEF DropPermit
<1>5. /\ sources' \in [Sources -> Source \cup {None}]
      /\ sources'[acc.src].n = 0
      /\ \A x \in Sources : x # acc.src => sources'[x] = sources[x]
  BY <1>1, <1>2, <1>3 DEF DropPermit, Source
<1>6. \A x \in Sources : sources'[x] # None => sources'[x].n = 0
  BY <1>2, <1>5
<1> QED BY <1>4, <1>5, <1>6 DEF LimiterType, PermitsBalance

\* Idle entries are forgotten.
LEMMA IdleForgotten ==
  ASSUME LimiterType, NEW at
  PROVE  /\ Fresh(at) \in [Sources -> Source \cup {None}]
         /\ \A x \in Sources : Fresh(at)[x] # None => Fresh(at)[x] = sources[x]
BY DEF LimiterType, Fresh

\* A permit is taken for a source.
LEMMA PermitTaken ==
  ASSUME GatewayBounds, LimiterType, PermitsBalance, ~HoldsPermit, NEW src \in Sources,
         NEW at \in Nat, Acquires(src, at), HoldsPermit', acc'.src = src
  PROVE  LimiterType' /\ PermitsBalance'
<1> DEFINE fresh == Fresh(at)
           n == IF fresh[src] # None THEN fresh[src].n ELSE 0
<1>1. in_flight = 0 /\ \A x \in Sources : sources[x] # None => sources[x].n = 0
  BY DEF PermitsBalance
<1>2. /\ fresh \in [Sources -> Source \cup {None}]
      /\ \A x \in Sources : fresh[x] # None => fresh[x] = sources[x]
  BY IdleForgotten
<1>3. /\ sources' = [fresh EXCEPT ![src] = [n |-> n + 1, seen |-> at]]
      /\ in_flight' = in_flight + 1
  BY DEF Acquires
<1> HIDE DEF fresh
<1>4. n = 0
  BY <1>1, <1>2
<1> HIDE DEF n
<1>5. [n |-> 1, seen |-> at] \in Source /\ [n |-> 1, seen |-> at] # None
  BY DEF Source, GatewayBounds
<1>6. /\ sources' \in [Sources -> Source \cup {None}]
      /\ sources'[src] = [n |-> 1, seen |-> at]
      /\ \A x \in Sources : x # src => sources'[x] = fresh[x]
  BY <1>2, <1>3, <1>4, <1>5
<1>7. in_flight' = 1
  BY <1>1, <1>3
<1>8. \A x \in Sources : x # src /\ sources'[x] # None => sources'[x].n = 0
  BY <1>1, <1>2, <1>6
<1>9. sources'[src] # None /\ sources'[src].n = 1
  BY <1>5, <1>6
<1> QED BY <1>6, <1>7, <1>8, <1>9 DEF LimiterType, PermitsBalance

\* A source without a place is refused.
LEMMA PermitRefused ==
  ASSUME LimiterType, PermitsBalance, ~HoldsPermit, NEW src \in Sources, NEW at,
         Refuses(src, at), ~HoldsPermit'
  PROVE  LimiterType' /\ PermitsBalance'
<1>1. sources' = Fresh(at) /\ in_flight' = in_flight
  BY DEF Refuses
<1>2. /\ sources' \in [Sources -> Source \cup {None}]
      /\ \A x \in Sources : sources'[x] # None => sources'[x] = sources[x]
  BY <1>1, IdleForgotten
<1> QED BY <1>1, <1>2 DEF LimiterType, PermitsBalance

\* The accept future is dropped, with the permit it may hold.
LEMMA PermitReleased ==
  ASSUME LimiterType, AcceptType, PermitsBalance, ReleaseIfHeld, ~HoldsPermit'
  PROVE  LimiterType' /\ PermitsBalance'
<1>1. CASE HoldsPermit
  BY <1>1, PermitDropped DEF ReleaseIfHeld
<1>2. CASE ~HoldsPermit
  BY <1>2, PermitKept DEF ReleaseIfHeld
<1> QED BY <1>1, <1>2

-----------------------------------------------------------------------------
\* Steps of the accept loop that touch neither the maps nor the pool

\* The maps, the pool and its queue are as they were.
LEMMA PoolUntouched ==
  ASSUME TypeOK, OwnedOK, UNCHANGED <<maps, pool, owner>>
  PROVE  /\ MapsType' /\ PoolType' /\ OwnerType' /\ OwnedOK'
         /\ SameCalls /\ reply' = reply /\ (Idle => Idle')
<1>1. UNCHANGED <<sessions, admissions, owed, leases, missed, queue, reply>>
  BY DEF maps, pool, owner
<1>2. MapsType' /\ PoolType' /\ OwnerType'
  BY <1>1 DEF TypeOK, MapsType, PoolType, OwnerType
<1>3. SameCalls /\ (Idle => Idle')
  BY <1>1 DEF SameCalls, Idle
<1>4. \A s \in Sessions : Owned(s)' <=> Owned(s)
  BY <1>1 DEF Owned, Queued, Live
<1>5. \A s \in Sessions : Queued("commit", s)' <=> Queued("commit", s)
  BY <1>1 DEF Queued
<1> HIDE DEF Owned, Queued
<1>6. OwnedOK'
  BY <1>1, <1>4, <1>5 DEF OwnedOK
<1> QED BY <1>1, <1>2, <1>3, <1>6

\* No accept is in progress.
LEMMA NoAcceptShape ==
  ASSUME acc' = NoAccept
  PROVE  AcceptType' /\ ~HoldsPermit' /\ acc'.pc = "top"
BY DEF AcceptType, Accept, HoldsPermit, NoAccept

\* The accept is at another place.
LEMMA AcceptGoes ==
  ASSUME AcceptType, acc.pc \notin {"top", "listen"},
         NEW pc \in {"hello", "sweep", "consume", "reserve", "commit", "unbind",
                     "unwind", "write"},
         acc' = [acc EXCEPT !.pc = pc]
  PROVE  AcceptType' /\ acc'.pc = pc /\ acc'.src = acc.src /\ acc'.t = acc.t
BY DEF AcceptType, Accept

LEMMA AcceptStartsKeeps ==
  ASSUME GatewayBounds, RuntimeInv, AcceptStarts
  PROVE  RuntimeInv'
<1>1. /\ acc.pc = "top" /\ acc' = [NoAccept EXCEPT !.pc = "listen", !.started = now]
      /\ UNCHANGED <<maps, pool, owner>> /\ UNCHANGED limiter
      /\ UNCHANGED <<now, redeemed, tasks, sweeper, life>>
  BY DEF AcceptStarts
<1>2. AcceptType' /\ acc'.pc = "listen"
  BY <1>1 DEF AcceptType, Accept, NoAccept, RuntimeInv, TypeOK
<1>3. ~HoldsPermit /\ ~HoldsPermit' /\ Idle
  BY <1>1, <1>2, IdleAccept DEF HoldsPermit, Awaiting, RuntimeInv
<1>4. LimiterType' /\ PermitsBalance'
  BY <1>1, <1>3, PermitKept DEF RuntimeInv, TypeOK
<1>5. MapsType' /\ PoolType' /\ OwnerType' /\ OwnedOK' /\ SameCalls /\ Idle'
  BY <1>1, <1>3, PoolUntouched DEF RuntimeInv
<1>6. AcceptOK'
  BY <1>2, <1>5, AcceptMoves DEF RuntimeInv, TypeOK
<1> QED BY <1>1, <1>2, <1>4, <1>5, <1>6 DEF RuntimeInv, TypeOK

LEMMA ArrivesKeeps ==
  ASSUME GatewayBounds, RuntimeInv, NEW t \in Tickets, NEW src \in Sources, Arrives(t, src)
  PROVE  RuntimeInv'
<1>1. /\ acc.pc = "listen" /\ acc.started \in Nat /\ now \in Nat
      /\ UNCHANGED <<maps, pool, owner>>
      /\ UNCHANGED <<now, redeemed, tasks, sweeper, life>>
  BY DEF Arrives, RuntimeInv, TypeOK, AcceptType, Accept
<1>2. ~HoldsPermit /\ Idle
  BY <1>1, IdleAccept DEF HoldsPermit, Awaiting, RuntimeInv
<1>3. AcceptType' /\ acc'.pc # "reserve" /\ LimiterType' /\ PermitsBalance'
  <2>1. CASE /\ Acquires(src, acc.started)
             /\ acc' = [acc EXCEPT !.pc = "handshake", !.t = t, !.src = src, !.arrived = now]
    <3>1. AcceptType' /\ acc'.pc = "handshake" /\ acc'.src = src
      BY <1>1, <2>1 DEF AcceptType, Accept, RuntimeInv, TypeOK
    <3>2. HoldsPermit'
      BY <3>1 DEF HoldsPermit
    <3> QED BY <1>1, <1>2, <2>1, <3>1, <3>2, PermitTaken DEF RuntimeInv, TypeOK
  <2>2. CASE Refuses(src, acc.started) /\ acc' = NoAccept
    BY <1>1, <1>2, <2>2, PermitRefused, NoAcceptShape DEF RuntimeInv, TypeOK
  <2> QED BY <2>1, <2>2 DEF Arrives
<1>4. MapsType' /\ PoolType' /\ OwnerType' /\ OwnedOK' /\ SameCalls /\ Idle'
  BY <1>1, <1>2, PoolUntouched DEF RuntimeInv
<1>5. AcceptOK'
  BY <1>3, <1>4, AcceptMoves DEF RuntimeInv, TypeOK
<1> QED BY <1>1, <1>3, <1>4, <1>5 DEF RuntimeInv, TypeOK

LEMMA HandshakeKeeps ==
  ASSUME GatewayBounds, RuntimeInv, Handshake
  PROVE  RuntimeInv'
<1>1. /\ acc.pc = "handshake" /\ DropPermit
      /\ UNCHANGED <<maps, pool, owner>>
      /\ UNCHANGED <<now, redeemed, tasks, sweeper, life>>
  BY DEF Handshake
<1>2. HoldsPermit /\ Idle
  BY <1>1, IdleAccept DEF HoldsPermit, Awaiting, RuntimeInv
<1>3. AcceptType' /\ acc'.pc \in {"top", "hello"}
  <2>1. CASE acc' = NoAccept
    BY <2>1, NoAcceptShape
  <2>2. CASE acc' = [acc EXCEPT !.pc = "hello"]
    BY <1>1, <2>2, AcceptGoes DEF RuntimeInv, TypeOK
  <2> QED BY <2>1, <2>2 DEF Handshake
<1>4. ~HoldsPermit'
  BY <1>3 DEF HoldsPermit
<1>5. LimiterType' /\ PermitsBalance'
  BY <1>1, <1>2, <1>4, PermitDropped DEF RuntimeInv, TypeOK
<1>6. MapsType' /\ PoolType' /\ OwnerType' /\ OwnedOK' /\ SameCalls /\ Idle'
  BY <1>1, <1>2, PoolUntouched DEF RuntimeInv
<1>7. AcceptOK'
  BY <1>3, <1>6, AcceptMoves DEF RuntimeInv, TypeOK
<1> QED BY <1>1, <1>3, <1>5, <1>6, <1>7 DEF RuntimeInv, TypeOK

LEMMA HelloFailsKeeps ==
  ASSUME GatewayBounds, RuntimeInv, HelloFails
  PROVE  RuntimeInv'
<1>1. /\ acc.pc = "hello" /\ acc' = NoAccept
      /\ UNCHANGED <<maps, pool, owner>> /\ UNCHANGED limiter
      /\ UNCHANGED <<now, redeemed, tasks, sweeper, life>>
  BY DEF HelloFails
<1>2. AcceptType' /\ acc'.pc = "top" /\ ~HoldsPermit /\ ~HoldsPermit' /\ Idle
  BY <1>1, NoAcceptShape, IdleAccept DEF HoldsPermit, Awaiting, RuntimeInv
<1>3. LimiterType' /\ PermitsBalance'
  BY <1>1, <1>2, PermitKept DEF RuntimeInv, TypeOK
<1>4. MapsType' /\ PoolType' /\ OwnerType' /\ OwnedOK' /\ SameCalls /\ Idle'
  BY <1>1, <1>2, PoolUntouched DEF RuntimeInv
<1>5. AcceptOK'
  BY <1>2, <1>4, AcceptMoves DEF RuntimeInv, TypeOK
<1> QED BY <1>1, <1>2, <1>3, <1>4, <1>5 DEF RuntimeInv, TypeOK

LEMMA ConsumeFailsKeeps ==
  ASSUME GatewayBounds, RuntimeInv, ConsumeFails
  PROVE  RuntimeInv'
<1>1. /\ acc.pc = "consume" /\ DropPermit /\ acc' = NoAccept
      /\ UNCHANGED <<maps, pool, owner>>
      /\ UNCHANGED <<now, tasks, sweeper, life>>
  BY DEF ConsumeFails
<1>2. redeemed' \subseteq Tickets
  BY <1>1 DEF ConsumeFails, RuntimeInv, TypeOK, AcceptType
<1>3. AcceptType' /\ acc'.pc = "top" /\ HoldsPermit /\ ~HoldsPermit' /\ Idle
  BY <1>1, NoAcceptShape, IdleAccept DEF HoldsPermit, Awaiting, RuntimeInv
<1>4. LimiterType' /\ PermitsBalance'
  BY <1>1, <1>3, PermitDropped DEF RuntimeInv, TypeOK
<1>5. MapsType' /\ PoolType' /\ OwnerType' /\ OwnedOK' /\ SameCalls /\ Idle'
  BY <1>1, <1>3, PoolUntouched DEF RuntimeInv
<1>6. AcceptOK'
  BY <1>3, <1>5, AcceptMoves DEF RuntimeInv, TypeOK
<1> QED BY <1>1, <1>2, <1>3, <1>4, <1>5, <1>6 DEF RuntimeInv, TypeOK

-----------------------------------------------------------------------------
\* Steps of the accept loop that wait for the pool

\* No commit is queued and no lease changes.
LEMMA OwnersQuiet ==
  ASSUME OwnerType, OwnerType', OwnedOK, SameCalls, \A s \in Sessions : StillMinded(s)
  PROVE  OwnedOK'
<1>1. queue' \in Seq(Request)
  BY DEF OwnerType
<1>2. \A s \in Sessions : /\ Queued("release", s)' <=> Queued("release", s)
                          /\ Queued("commit", s)' <=> Queued("commit", s)
  BY <1>1, SameQueued
<1> QED BY <1>2, OwnersKept

\* A call is submitted; a commit, for a session that lives.
LEMMA OwnersSubmit ==
  ASSUME OwnerType, OwnedOK, NEW who \in Actors, NEW call \in Calls, NEW at \in Nat,
         NEW x \in Sessions \cup {None}, call # "sweep" => x \in Sessions,
         Submit(who, call, x, at), call = "commit" => x \in Live',
         \A s \in Sessions : StillMinded(s)
  PROVE  OwnedOK'
<1>1. \A s \in Sessions : /\ Queued("release", s) => Queued("release", s)'
                          /\ Queued("commit", s)' => Queued("commit", s) \/ s \in Live'
  BY SubmitQueued
<1> QED BY <1>1, OwnersKept

\* An answer has been read, or is not awaited any more.
LEMMA ReplyRead ==
  ASSUME GatewayBounds, OwnerType, UNCHANGED queue, NEW W, reply' = Silent(W)
  PROVE  /\ OwnerType' /\ SameCalls /\ (Idle => Idle')
         /\ reply'["accept"] = IF "accept" \in W THEN None ELSE reply["accept"]
<1>1. reply' \in [Actors -> Reply \cup {None}]
  BY SilentShape
<1>2. reply'["accept"] = IF "accept" \in W THEN None ELSE reply["accept"]
  BY SilentShape, ActorNames
<1> QED BY <1>1, <1>2 DEF OwnerType, SameCalls, Idle

\* Callers are gone, and their answers with them.
LEMMA CallersGone ==
  ASSUME GatewayBounds, OwnerType, NEW W, NEW V, queue' = Abandoned(W),
         reply' = Silent(V), "accept" \in W <=> "accept" \in V
  PROVE  /\ OwnerType' /\ SameCalls
         /\ "accept" \in W => Idle' /\ reply'["accept"] = None
         /\ "accept" \notin W => reply'["accept"] = reply["accept"]
<1>1. /\ queue' \in Seq(Request) /\ SameCalls
      /\ \A i \in 1 .. Len(queue) : queue'[i].who = IF queue[i].who \in W THEN None
                                                    ELSE queue[i].who
      /\ \A i \in 1 .. Len(queue') : queue'[i].call # "sweep" => queue'[i].s \in Sessions
  BY AbandonedShape
<1>2. /\ reply' \in [Actors -> Reply \cup {None}]
      /\ reply'["accept"] = IF "accept" \in V THEN None ELSE reply["accept"]
  BY SilentShape, ActorNames
<1>3. "accept" \in W => Idle'
  <2>1. None # "accept"
    BY ActorNames
  <2> QED BY <1>1, <2>1 DEF Idle, SameCalls
<1> QED BY <1>1, <1>2, <1>3 DEF OwnerType

\* Pruned and aborted admissions.
LEMMA AdmissionsShape ==
  ASSUME MapsType
  PROVE  /\ \A at : PrunedAdmissions(at) \in [Sessions -> Nat \cup {None}]
         /\ Sess \in Sessions => Aborted \in [Sessions -> Nat \cup {None}]
BY DEF MapsType, PrunedAdmissions, Aborted

\* The session of the accept in progress.
LEMMA SessShape ==
  ASSUME GatewayBounds, AcceptType, acc.pc \notin {"top", "listen"}
  PROVE  /\ Sess \in Sessions /\ acc.t \in Tickets /\ acc.src \in Sources
         /\ acc.at \in Nat /\ "accept" \in Actors
         /\ \A t \in Tickets : SessionOf[t] \in Sessions
BY ActorNames DEF GatewayBounds, AcceptType, Accept, Sess

LEMMA HelloKeeps ==
  ASSUME GatewayBounds, RuntimeInv, Hello
  PROVE  RuntimeInv'
<1>1. /\ acc.pc = "hello" /\ acc' = [acc EXCEPT !.pc = "sweep", !.at = now]
      /\ sessions' = Without(Due(now)) /\ Deferred(Due(now))
      /\ admissions' = PrunedAdmissions(now)
      /\ Submit("accept", "sweep", None, now)
      /\ UNCHANGED <<now, owed, redeemed, tasks, sweeper, life>> /\ UNCHANGED limiter
  BY DEF Hello
<1>2. TypeOK /\ MapsType /\ PoolType /\ OwnerType /\ AcceptType /\ AcceptOK /\ OwnedOK
      /\ LimiterType /\ PermitsBalance /\ now \in Nat
  BY DEF RuntimeInv, TypeOK
<1>3. AcceptType' /\ acc'.pc = "sweep"
  BY <1>1, <1>2 DEF AcceptType, Accept
<1>4. "accept" \in Actors /\ Due(now) \in SUBSET Sessions /\ Idle
  BY <1>1, <1>2, ActorNames, IdleAccept DEF Awaiting, Due, Live
<1>5. LimiterType' /\ PermitsBalance'
  <2>1. ~HoldsPermit /\ ~HoldsPermit'
    BY <1>1, <1>3 DEF HoldsPermit
  <2> QED BY <1>1, <1>2, <2>1, PermitKept
<1>6. /\ PoolType' /\ sessions' \in [Sessions -> Session \cup {None}]
      /\ \A s \in Sessions : StillMinded(s)
  BY <1>1, <1>2, <1>4, MindedRemoved
<1>7. MapsType'
  BY <1>1, <1>2, <1>6, AdmissionsShape DEF MapsType
<1>8. OwnerType' /\ OwnedOK'
  BY <1>1, <1>2, <1>4, <1>6, SubmitShape, OwnersSubmit DEF Calls
<1>9. AcceptOK'
  BY <1>1, <1>2, <1>3, <1>4, AcceptSubmits DEF Calls, Awaiting
<1> QED BY <1>1, <1>2, <1>3, <1>5, <1>6, <1>7, <1>8, <1>9 DEF RuntimeInv, TypeOK

LEMMA AdmitKeeps ==
  ASSUME GatewayBounds, RuntimeInv, Admit
  PROVE  RuntimeInv'
<1> DEFINE closed == reply["accept"].expired
<1>1. /\ acc.pc = "sweep" /\ reply["accept"] # None
      /\ sessions' = Without(closed) /\ Deferred(closed \cap Live)
      /\ reply' = Silent({"accept"})
      /\ UNCHANGED <<now, admissions, owed, queue, redeemed, tasks, sweeper, life>>
  BY DEF Admit
<1> HIDE DEF closed
<1>2. TypeOK /\ MapsType /\ PoolType /\ OwnerType /\ AcceptType /\ AcceptOK /\ OwnedOK
      /\ LimiterType /\ PermitsBalance
  BY DEF RuntimeInv, TypeOK
<1>3. acc.src \in Sources /\ acc.at \in Nat /\ ~HoldsPermit /\ Idle
  BY <1>1, <1>2, SessShape, IdleAccept DEF HoldsPermit
<1>4. /\ LimiterType' /\ PermitsBalance' /\ AcceptType' /\ acc'.pc # "reserve"
  <2>1. CASE Acquires(acc.src, acc.at) /\ acc' = [acc EXCEPT !.pc = "consume"]
    <3>1. AcceptType' /\ acc'.pc = "consume" /\ acc'.src = acc.src
      BY <1>1, <1>2, <2>1, AcceptGoes
    <3>2. HoldsPermit'
      BY <3>1 DEF HoldsPermit
    <3> QED BY <1>2, <1>3, <2>1, <3>1, <3>2, PermitTaken
  <2>2. CASE Refuses(acc.src, acc.at) /\ acc' = NoAccept
    BY <1>2, <1>3, <2>2, NoAcceptShape, PermitRefused
  <2>3. CASE acc' = NoAccept /\ UNCHANGED limiter
    BY <1>2, <1>3, <2>3, NoAcceptShape, PermitKept
  <2> QED BY <2>1, <2>2, <2>3 DEF Admit
<1>5. /\ PoolType' /\ sessions' \in [Sessions -> Session \cup {None}]
      /\ \A s \in Sessions : StillMinded(s)
  <2>1. closed \cap Live \in SUBSET Sessions
    BY DEF Live
  <2> QED BY <1>1, <1>2, <2>1, MindedRemoved
<1>6. MapsType'
  BY <1>1, <1>2, <1>5 DEF MapsType
<1>7. OwnerType' /\ SameCalls /\ Idle'
  BY <1>1, <1>2, <1>3, ReplyRead
<1>8. OwnedOK' /\ AcceptOK'
  BY <1>2, <1>4, <1>5, <1>7, OwnersQuiet, AcceptMoves
<1> QED BY <1>1, <1>2, <1>4, <1>5, <1>6, <1>7, <1>8 DEF RuntimeInv, TypeOK

LEMMA ConsumeKeeps ==
  ASSUME GatewayBounds, RuntimeInv, Consume
  PROVE  RuntimeInv'
<1> DEFINE old == Live \cap {Sess} \cap {s \in Live : sessions[s].exp <= acc.at}
           kept == Live \ old
           known == {s \in Sessions : admissions[s] # None}
<1>1. /\ acc.pc = "consume" /\ redeemed' = redeemed \cup {acc.t} /\ DropPermit
      /\ sessions' = Without(old) /\ Deferred(old)
      /\ UNCHANGED <<now, owed, tasks, sweeper, life>>
  BY DEF Consume
<1>2. \/ /\ admissions' = IF Sess \in kept \cup known THEN admissions
                          ELSE [admissions EXCEPT ![Sess] = Expiry]
         /\ acc' = [acc EXCEPT !.pc = "reserve", !.creates = Sess \notin kept]
         /\ Submit("accept", "reserve", Sess, acc.at)
      \/ acc' = NoAccept /\ UNCHANGED admissions /\ UNCHANGED owner
  BY DEF Consume
<1>3. TypeOK /\ MapsType /\ PoolType /\ OwnerType /\ AcceptType /\ AcceptOK /\ OwnedOK
      /\ LimiterType /\ PermitsBalance
  BY DEF RuntimeInv, TypeOK
<1>4. /\ Sess \in Sessions /\ acc.t \in Tickets /\ acc.at \in Nat /\ "accept" \in Actors
      /\ HoldsPermit /\ Idle /\ old \in SUBSET Sessions /\ Expiry \in Nat
  BY <1>1, <1>3, SessShape, IdleAccept DEF HoldsPermit, Awaiting, Live, GatewayBounds
<1> HIDE DEF old, known
<1>5. redeemed' \subseteq Tickets
  BY <1>1, <1>3, <1>4 DEF TypeOK
<1>6. /\ PoolType' /\ sessions' \in [Sessions -> Session \cup {None}]
      /\ \A s \in Sessions : StillMinded(s)
  <2>1. old \cap Live \subseteq old
    OBVIOUS
  <2> QED BY <1>1, <1>3, <1>4, <2>1, MindedRemoved
<1>7. /\ MapsType' /\ OwnerType' /\ OwnedOK' /\ AcceptOK' /\ AcceptType' /\ ~HoldsPermit'
  <2>1. CASE /\ admissions' = IF Sess \in kept \cup known THEN admissions
                              ELSE [admissions EXCEPT ![Sess] = Expiry]
             /\ acc' = [acc EXCEPT !.pc = "reserve", !.creates = Sess \notin kept]
             /\ Submit("accept", "reserve", Sess, acc.at)
    <3> DEFINE creates == Sess \notin kept
    <3>1. creates \in BOOLEAN /\ acc' = [acc EXCEPT !.pc = "reserve", !.creates = creates]
      BY <2>1
    <3> HIDE DEF kept, creates
    <3>2. AcceptType' /\ acc'.pc = "reserve"
      BY <1>1, <1>3, <3>1 DEF AcceptType, Accept
    <3>3. MapsType'
      BY <1>1, <1>3, <1>4, <1>6, <2>1 DEF MapsType
    <3>4. OwnerType' /\ OwnedOK'
      BY <1>3, <1>4, <1>6, <2>1, SubmitShape, OwnersSubmit DEF Calls
    <3>5. AcceptOK'
      BY <1>3, <1>4, <2>1, <3>2, AcceptSubmits DEF Calls, Awaiting
    <3>6. ~HoldsPermit'
      BY <3>2 DEF HoldsPermit
    <3> QED BY <3>2, <3>3, <3>4, <3>5, <3>6
  <2>2. CASE acc' = NoAccept /\ UNCHANGED admissions /\ UNCHANGED owner
    <3>1. MapsType'
      BY <1>1, <1>3, <1>6, <2>2 DEF MapsType
    <3>2. OwnerType' /\ SameCalls /\ Idle'
      BY <1>3, <1>4, <2>2 DEF owner, OwnerType, SameCalls, Idle
    <3>3. AcceptType' /\ acc'.pc = "top" /\ ~HoldsPermit'
      BY <2>2, NoAcceptShape
    <3> QED BY <1>3, <1>6, <3>1, <3>2, <3>3, OwnersQuiet, AcceptMoves
  <2> QED BY <1>2, <2>1, <2>2
<1>8. LimiterType' /\ PermitsBalance'
  BY <1>1, <1>3, <1>4, <1>7, PermitDropped
<1> QED BY <1>1, <1>3, <1>5, <1>6, <1>7, <1>8 DEF RuntimeInv, TypeOK

\* The accept ends with its answer read, the sessions as they were.
LEMMA AcceptEnds ==
  ASSUME GatewayBounds, RuntimeInv, acc.pc \in Awaiting, reply["accept"] # None,
         acc' = NoAccept \/ (\E pc \in {"hello", "write"} : acc' = [acc EXCEPT !.pc = pc]),
         reply' = Silent({"accept"}), UNCHANGED queue,
         MapsType', PoolType', \A s \in Sessions : StillMinded(s),
         UNCHANGED <<now, redeemed, limiter, tasks, sweeper, life>>
  PROVE  RuntimeInv'
<1>1. TypeOK /\ OwnerType /\ AcceptType /\ AcceptOK /\ OwnedOK
      /\ LimiterType /\ PermitsBalance
  BY DEF RuntimeInv, TypeOK
<1>2. ~HoldsPermit /\ Idle /\ acc.pc \notin {"top", "listen"}
  BY <1>1, IdleAccept DEF HoldsPermit, Awaiting
<1>3. AcceptType' /\ acc'.pc \in {"top", "hello", "write"}
  BY <1>1, <1>2, NoAcceptShape, AcceptGoes
<1>4. ~HoldsPermit'
  BY <1>3 DEF HoldsPermit
<1>5. LimiterType' /\ PermitsBalance'
  BY <1>1, <1>2, <1>4, PermitKept
<1>6. OwnerType' /\ SameCalls /\ Idle'
  BY <1>1, <1>2, ReplyRead
<1>7. OwnedOK' /\ AcceptOK'
  BY <1>1, <1>3, <1>6, OwnersQuiet, AcceptMoves
<1> QED BY <1>1, <1>3, <1>5, <1>6, <1>7 DEF RuntimeInv, TypeOK

LEMMA ReserveFailsKeeps ==
  ASSUME GatewayBounds, RuntimeInv, ReserveFails \/ Unbind
  PROVE  RuntimeInv'
<1>1. /\ acc.pc \in {"reserve", "unbind"} /\ reply["accept"] # None
      /\ admissions' = Aborted /\ acc' = NoAccept /\ reply' = Silent({"accept"})
      /\ UNCHANGED <<now, sessions, owed, queue, redeemed, limiter, tasks, sweeper, life>>
      /\ UNCHANGED pool
  BY DEF ReserveFails, Unbind
<1>2. MapsType /\ PoolType /\ AcceptType
  BY DEF RuntimeInv, TypeOK
<1>3. MapsType' /\ PoolType'
  <2>1. Sess \in Sessions
    BY <1>1, <1>2, SessShape
  <2> QED BY <1>1, <1>2, <2>1, AdmissionsShape DEF MapsType, PoolType, pool
<1>4. \A s \in Sessions : StillMinded(s)
  BY <1>1, MindedSame DEF Live
<1>5. acc.pc \in Awaiting
  BY <1>1 DEF Awaiting
<1> QED BY <1>1, <1>3, <1>4, <1>5, AcceptEnds

LEMMA UnwindKeeps ==
  ASSUME GatewayBounds, RuntimeInv, Unwind
  PROVE  RuntimeInv'
<1> DEFINE mine == {s \in Live : acc.t \in sessions[s].conns}
<1>1. /\ acc.pc = "unwind" /\ reply["accept"] # None
      /\ sessions' = Without(mine) /\ Deferred(mine)
      /\ acc' = NoAccept /\ reply' = Silent({"accept"})
      /\ UNCHANGED <<now, admissions, owed, queue, redeemed, limiter, tasks, sweeper, life>>
  BY DEF Unwind
<1>2. MapsType /\ PoolType /\ mine \in SUBSET Sessions
  BY DEF RuntimeInv, TypeOK, Live
<1> HIDE DEF mine
<1>3. /\ PoolType' /\ sessions' \in [Sessions -> Session \cup {None}]
      /\ \A s \in Sessions : StillMinded(s)
  <2>1. mine \cap Live \subseteq mine
    OBVIOUS
  <2> QED BY <1>1, <1>2, <2>1, MindedRemoved
<1>4. MapsType'
  BY <1>1, <1>2, <1>3 DEF MapsType
<1>5. acc.pc \in Awaiting
  BY <1>1 DEF Awaiting
<1> QED BY <1>1, <1>3, <1>4, <1>5, AcceptEnds

\* The accept submits its next call, with no permit and no answer pending.
LEMMA AcceptCalls ==
  ASSUME GatewayBounds, RuntimeInv, Idle, acc.pc \in Awaiting \cup {"write"},
         NEW pc \in {"commit", "unbind", "unwind"}, acc' = [acc EXCEPT !.pc = pc],
         NEW call \in {"commit", "release"}, Submit("accept", call, Sess, acc.at),
         call = "commit" => /\ Sess \in Live'
                            /\ \A i \in 1 .. Len(queue) : queue[i].call # "reserve",
         MapsType', PoolType', \A s \in Sessions : StillMinded(s),
         UNCHANGED <<now, redeemed, limiter, tasks, sweeper, life>>
  PROVE  RuntimeInv'
<1>1. TypeOK /\ OwnerType /\ AcceptType /\ AcceptOK /\ OwnedOK
      /\ LimiterType /\ PermitsBalance
  BY DEF RuntimeInv, TypeOK
<1>2. ~HoldsPermit /\ acc.pc \notin {"top", "listen"}
  BY DEF HoldsPermit, Awaiting
<1>3. AcceptType' /\ acc'.pc = pc
  BY <1>1, <1>2, AcceptGoes
<1>4. ~HoldsPermit' /\ acc'.pc \in Awaiting
  BY <1>3 DEF HoldsPermit, Awaiting
<1>5. LimiterType' /\ PermitsBalance'
  BY <1>1, <1>2, <1>4, PermitKept
<1>6. Sess \in Sessions /\ acc.at \in Nat /\ "accept" \in Actors /\ call \in Calls
      /\ call # "sweep"
  BY <1>1, <1>2, SessShape DEF Calls
<1>7. OwnerType' /\ OwnedOK'
  BY <1>1, <1>6, SubmitShape, OwnersSubmit
<1>8. AcceptOK'
  BY <1>1, <1>4, <1>6, AcceptSubmits
<1> QED BY <1>1, <1>3, <1>5, <1>7, <1>8 DEF RuntimeInv, TypeOK

LEMMA BindKeeps ==
  ASSUME GatewayBounds, RuntimeInv, Bind
  PROVE  RuntimeInv'
<1> DEFINE old == Live \cap {Sess} \cap (IF acc.creates THEN {} ELSE Sessions)
<1>1. /\ acc.pc = "reserve" /\ reply["accept"] # None /\ reply["accept"].ok
      /\ UNCHANGED <<now, owed, redeemed, tasks, sweeper, life>> /\ UNCHANGED limiter
  BY DEF Bind
<1>2. \/ /\ Bindable
         /\ sessions' = [sessions EXCEPT ![Sess] = Bound]
         /\ admissions' = Aborted
         /\ acc' = [acc EXCEPT !.pc = "commit"]
         /\ Submit("accept", "commit", Sess, acc.at)
         /\ UNCHANGED pool
      \/ /\ sessions' = Without(old) /\ Deferred(old)
         /\ UNCHANGED admissions
         /\ acc' = [acc EXCEPT !.pc = "unbind"]
         /\ Submit("accept", "release", Sess, acc.at)
  BY DEF Bind
<1>3. MapsType /\ PoolType /\ AcceptType /\ AcceptOK
  BY DEF RuntimeInv, TypeOK
<1>4. /\ Sess \in Sessions /\ acc.t \in Tickets /\ acc.at \in Nat /\ Idle
      /\ acc.pc \in Awaiting /\ old \in SUBSET Sessions
      /\ \A i \in 1 .. Len(queue) : queue[i].call # "reserve"
  <2>1. Idle /\ \A i \in 1 .. Len(queue) : queue[i].call # "reserve"
    BY <1>1, <1>3, IdleAccept DEF AcceptOK
  <2> QED BY <1>1, <1>3, <2>1, SessShape DEF Awaiting, Live
<1> HIDE DEF old
<1>5. CASE /\ Bindable
           /\ sessions' = [sessions EXCEPT ![Sess] = Bound]
           /\ admissions' = Aborted
           /\ acc' = [acc EXCEPT !.pc = "commit"]
           /\ Submit("accept", "commit", Sess, acc.at)
           /\ UNCHANGED pool
  <2>1. Bound \in Session /\ Bound # None
    <3>1. CASE acc.creates
      BY <1>4, <3>1 DEF Bound, Session, GatewayBounds
    <3>2. CASE ~acc.creates
      <4>1. sessions[Sess] \in Session
        BY <1>3, <1>4, <1>5, <3>2 DEF Bindable, MapsType
      <4>2. Bound \in Session
        BY <1>4, <3>2, <4>1 DEF Bound, Session
      <4> QED BY <4>2 DEF GatewayBounds
    <3> QED BY <3>1, <3>2
  <2>2. MapsType' /\ Sess \in Live' /\ Live \subseteq Live' /\ PoolType'
    <3>1. /\ sessions' \in [Sessions -> Session \cup {None}] /\ sessions'[Sess] = Bound
          /\ \A s \in Sessions : s # Sess => sessions'[s] = sessions[s]
      BY <1>3, <1>4, <1>5, <2>1 DEF MapsType
    <3>2. admissions' \in [Sessions -> Nat \cup {None}]
      BY <1>3, <1>4, <1>5, AdmissionsShape
    <3>3. Sess \in Live' /\ Live \subseteq Live'
      BY <1>4, <2>1, <3>1 DEF Live
    <3> QED BY <1>1, <1>3, <1>5, <3>1, <3>2, <3>3 DEF MapsType, PoolType, pool
  <2>3. \A s \in Sessions : StillMinded(s)
    BY <1>1, <1>5, <2>2, MindedSame
  <2> QED BY <1>1, <1>4, <1>5, <2>2, <2>3, AcceptCalls
<1>6. CASE /\ sessions' = Without(old) /\ Deferred(old)
           /\ UNCHANGED admissions
           /\ acc' = [acc EXCEPT !.pc = "unbind"]
           /\ Submit("accept", "release", Sess, acc.at)
  <2>1. /\ PoolType' /\ sessions' \in [Sessions -> Session \cup {None}]
        /\ \A s \in Sessions : StillMinded(s)
    <3>1. old \cap Live \subseteq old
      OBVIOUS
    <3> QED BY <1>1, <1>3, <1>4, <1>6, <3>1, MindedRemoved
  <2>2. MapsType'
    BY <1>1, <1>3, <1>6, <2>1 DEF MapsType
  <2> QED BY <1>1, <1>4, <1>6, <2>1, <2>2, AcceptCalls
<1> QED BY <1>2, <1>5, <1>6

\* The maps and the pool are as they were.
LEMMA MapsSame ==
  ASSUME RuntimeInv, UNCHANGED maps, UNCHANGED pool
  PROVE  MapsType' /\ PoolType' /\ \A s \in Sessions : StillMinded(s)
<1>1. UNCHANGED <<sessions, admissions, owed, leases, missed>>
  BY DEF maps, pool
<1>2. Live' = Live
  BY <1>1 DEF Live
<1>3. \A s \in Sessions : StillMinded(s)
  BY <1>1, <1>2, MindedSame
<1> QED BY <1>1, <1>3 DEF RuntimeInv, TypeOK, MapsType, PoolType

LEMMA CommitKeeps ==
  ASSUME GatewayBounds, RuntimeInv, Commit
  PROVE  RuntimeInv'
<1>1. /\ acc.pc = "commit" /\ reply["accept"] # None
      /\ \/ acc' = [acc EXCEPT !.pc = "write"] /\ reply' = Silent({"accept"})
                                              /\ UNCHANGED queue
         \/ /\ acc' = [acc EXCEPT !.pc = "unwind"]
            /\ Submit("accept", "release", Sess, acc.at)
      /\ UNCHANGED <<now, redeemed, limiter, tasks, sweeper, life>>
      /\ UNCHANGED maps /\ UNCHANGED pool
  BY DEF Commit
<1>2. acc.pc \in Awaiting /\ Idle
  BY <1>1, IdleAccept DEF Awaiting, RuntimeInv
<1>3. MapsType' /\ PoolType' /\ \A s \in Sessions : StillMinded(s)
  BY <1>1, MapsSame
<1>4. CASE acc' = [acc EXCEPT !.pc = "write"] /\ reply' = Silent({"accept"})
                                              /\ UNCHANGED queue
  BY <1>1, <1>2, <1>3, <1>4, AcceptEnds
<1>5. CASE /\ acc' = [acc EXCEPT !.pc = "unwind"]
           /\ Submit("accept", "release", Sess, acc.at)
  BY <1>1, <1>2, <1>3, <1>5, AcceptCalls
<1> QED BY <1>1, <1>4, <1>5

\* A control task that reads.
LEMMA ReadingShape ==
  ASSUME now \in Nat, NEW n \in Nat, NEW open \in BOOLEAN
  PROVE  Reading(n, open) \in Task /\ [Reading(n, open) EXCEPT !.pc = "done", !.at = 0] \in Task
BY DEF Reading, Task

LEMMA WriteKeeps ==
  ASSUME GatewayBounds, RuntimeInv, Write
  PROVE  RuntimeInv'
<1>1. /\ acc.pc = "write" /\ UNCHANGED <<now, redeemed, sweeper, life>>
      /\ UNCHANGED limiter /\ UNCHANGED maps /\ UNCHANGED pool
      /\ \/ acc' = NoAccept /\ tasks' = Spawned(acc.t) /\ UNCHANGED owner
         \/ /\ acc' = [acc EXCEPT !.pc = "unwind"]
            /\ Submit("accept", "release", Sess, acc.at) /\ UNCHANGED tasks
  BY DEF Write
<1>2. TypeOK /\ LimiterType /\ AcceptType /\ PermitsBalance /\ AcceptOK /\ OwnedOK
      /\ OwnerType /\ now \in Nat /\ tasks \in [Tickets -> Task \cup {None}]
  BY DEF RuntimeInv, TypeOK
<1>3. acc.t \in Tickets /\ Idle /\ ~HoldsPermit
  BY <1>1, <1>2, SessShape, IdleAccept DEF Awaiting, HoldsPermit
<1>4. CASE acc' = NoAccept /\ tasks' = Spawned(acc.t) /\ UNCHANGED owner
  <2>1. tasks' \in [Tickets -> Task \cup {None}]
    <3>1. Reading(0, TRUE) \in Task
      BY <1>2, ReadingShape
    <3> QED BY <1>2, <1>3, <1>4, <3>1 DEF Spawned
  <2>2. AcceptType' /\ ~HoldsPermit' /\ acc'.pc = "top"
    BY <1>4, NoAcceptShape
  <2>3. LimiterType' /\ PermitsBalance'
    BY <1>1, <1>2, <1>3, <2>2, PermitKept
  <2>4. MapsType' /\ PoolType' /\ OwnerType' /\ OwnedOK' /\ SameCalls /\ Idle'
    BY <1>1, <1>2, <1>3, <1>4, PoolUntouched
  <2>5. AcceptOK'
    BY <1>2, <2>2, <2>4, AcceptMoves
  <2> QED BY <1>1, <1>2, <2>1, <2>2, <2>3, <2>4, <2>5 DEF RuntimeInv, TypeOK
<1>5. CASE /\ acc' = [acc EXCEPT !.pc = "unwind"]
           /\ Submit("accept", "release", Sess, acc.at) /\ UNCHANGED tasks
  <2>1. MapsType' /\ PoolType' /\ \A s \in Sessions : StillMinded(s)
    BY <1>1, MapsSame
  <2> QED BY <1>1, <1>3, <1>5, <2>1, AcceptCalls
<1> QED BY <1>1, <1>4, <1>5

-----------------------------------------------------------------------------
\* Steps of the control tasks, the sweeps and stop

\* The types of what these steps may change besides the maps, pool and queue.
OtherType ==
  /\ now \in Nat
  /\ tasks \in [Tickets -> Task \cup {None}]
  /\ sweeper \in BOOLEAN
  /\ life \in {"up", "sweeps", "closing", "flushing", "draining", "stopped"}

\* Somebody else moves; the queue holds the same calls.
LEMMA OtherQuiet ==
  ASSUME GatewayBounds, RuntimeInv, UNCHANGED <<acc, redeemed>>, UNCHANGED limiter,
         OtherType', MapsType', PoolType', \A s \in Sessions : StillMinded(s),
         OwnerType', SameCalls, reply'["accept"] = reply["accept"]
  PROVE  RuntimeInv'
<1>1. /\ OwnerType /\ AcceptType /\ AcceptOK /\ OwnedOK /\ LimiterType
      /\ PermitsBalance /\ redeemed \subseteq Tickets
  BY DEF RuntimeInv, TypeOK
<1>2. AcceptType' /\ (HoldsPermit' <=> HoldsPermit) /\ acc'.src = acc.src
  BY <1>1 DEF AcceptType, HoldsPermit
<1>3. LimiterType' /\ PermitsBalance'
  BY <1>1, <1>2, PermitKept
<1>4. AcceptOK' /\ OwnedOK'
  BY <1>1, AcceptWaits, OwnersQuiet
<1> QED BY <1>1, <1>2, <1>3, <1>4 DEF RuntimeInv, TypeOK, OtherType

\* Somebody else submits a call.
LEMMA OtherCalls ==
  ASSUME GatewayBounds, RuntimeInv, UNCHANGED <<acc, redeemed>>, UNCHANGED limiter,
         OtherType', MapsType', PoolType', \A s \in Sessions : StillMinded(s),
         NEW who \in Actors, who # "accept", NEW call \in {"sweep", "renew"},
         NEW at \in Nat, NEW x \in Sessions \cup {None},
         call # "sweep" => x \in Sessions, Submit(who, call, x, at)
  PROVE  RuntimeInv'
<1>1. /\ OwnerType /\ AcceptType /\ AcceptOK /\ OwnedOK /\ LimiterType
      /\ PermitsBalance /\ redeemed \subseteq Tickets
  BY DEF RuntimeInv, TypeOK
<1>2. AcceptType' /\ (HoldsPermit' <=> HoldsPermit) /\ acc'.src = acc.src
  BY <1>1 DEF AcceptType, HoldsPermit
<1>3. LimiterType' /\ PermitsBalance'
  BY <1>1, <1>2, PermitKept
<1>4. call \in Calls /\ call \in Calls \ {"reserve", "commit"} /\ call # "commit"
  BY DEF Calls
<1>5. AcceptOK' /\ OwnedOK' /\ OwnerType'
  BY <1>1, <1>4, OtherSubmits, OwnersSubmit, SubmitShape
<1> QED BY <1>1, <1>2, <1>3, <1>5 DEF RuntimeInv, TypeOK, OtherType

\* The accept future is dropped.
LEMMA AcceptDropped ==
  ASSUME GatewayBounds, RuntimeInv, UNCHANGED redeemed, NEW W, DropsAccept(W),
         OtherType', MapsType', PoolType', \A s \in Sessions : StillMinded(s)
  PROVE  RuntimeInv'
<1>1. /\ OwnerType /\ AcceptType /\ AcceptOK /\ OwnedOK /\ LimiterType
      /\ PermitsBalance /\ redeemed \subseteq Tickets
  BY DEF RuntimeInv, TypeOK
<1>2. /\ acc' = NoAccept /\ queue' = Abandoned(W \cup {"accept"})
      /\ reply' = Silent(W \cup {"accept"}) /\ ReleaseIfHeld
  BY DEF DropsAccept
<1>3. AcceptType' /\ ~HoldsPermit' /\ acc'.pc = "top"
  BY <1>2, NoAcceptShape
<1>4. LimiterType' /\ PermitsBalance'
  BY <1>1, <1>2, <1>3, PermitReleased
<1>5. OwnerType' /\ SameCalls /\ Idle'
  BY <1>1, <1>2, CallersGone
<1>6. AcceptOK' /\ OwnedOK'
  BY <1>1, <1>3, <1>5, AcceptMoves, OwnersQuiet
<1> QED BY <1>1, <1>3, <1>4, <1>5, <1>6 DEF RuntimeInv, TypeOK, OtherType

\* Connections leave their sessions.
LEMMA DetachedShape ==
  ASSUME GatewayBounds, MapsType, NEW T,
         \A s \in Sessions : sessions[s] # None =>
           sessions'[s] = sessions[s] \/ sessions'[s] = [sessions[s] EXCEPT !.conns = @ \ T],
         \A s \in Sessions : sessions[s] = None => sessions'[s] = None,
         sessions' = [s \in Sessions |-> sessions'[s]]
  PROVE  sessions' \in [Sessions -> Session \cup {None}] /\ Live' = Live
<1>1. ASSUME NEW s \in Sessions, sessions[s] # None
      PROVE  sessions'[s] \in Session /\ sessions'[s] # None
  <2>1. sessions[s] \in Session
    BY <1>1 DEF MapsType
  <2>2. [sessions[s] EXCEPT !.conns = @ \ T] \in Session
    BY <2>1 DEF Session
  <2>3. sessions'[s] \in Session
    BY <1>1, <2>1, <2>2
  <2> QED BY <2>3 DEF GatewayBounds
<1>2. \A s \in Sessions : sessions'[s] \in Session \cup {None}
  BY <1>1
<1>3. sessions' \in [Sessions -> Session \cup {None}]
  BY <1>2
<1> QED BY <1>1, <1>3 DEF Live

LEMMA DetachedOne ==
  ASSUME GatewayBounds, MapsType, NEW t, sessions' = Detached(sessions, t)
  PROVE  sessions' \in [Sessions -> Session \cup {None}] /\ Live' = Live
<1>1. \A s \in Sessions : sessions'[s] =
        IF sessions[s] # None /\ t \in sessions[s].conns
        THEN [sessions[s] EXCEPT !.conns = @ \ {t}] ELSE sessions[s]
  BY DEF Detached
<1>2. sessions' = [s \in Sessions |-> sessions'[s]]
  BY DEF Detached
<1> QED BY <1>1, <1>2, DetachedShape

\* Tickets are not the accept loop.
LEMMA TaskActor ==
  ASSUME GatewayBounds, RuntimeInv, NEW t \in Tickets, tasks[t] # None
  PROVE  /\ t \in Actors /\ t # "accept" /\ tasks[t] \in Task
         /\ tasks[t].at \in Nat /\ tasks[t].n \in Nat /\ tasks[t].open \in BOOLEAN
         /\ SessionOf[t] \in Sessions /\ now \in Nat /\ OtherType
         /\ Ended(t) \in [Tickets -> Task \cup {None}]
<1>1. /\ now \in Nat /\ OtherType /\ tasks \in [Tickets -> Task \cup {None}]
  BY DEF RuntimeInv, TypeOK, OtherType
<1>2. tasks[t] \in Task
  BY <1>1
<1>3. Ended(t) \in [Tickets -> Task \cup {None}]
  <2>1. [Reading(0, FALSE) EXCEPT !.pc = "done", !.at = 0] \in Task
    BY <1>1, ReadingShape
  <2> QED BY <1>1, <2>1 DEF Ended
<1> QED BY <1>1, <1>2, <1>3, ActorNames DEF Task, GatewayBounds

LEMMA JoinTaskKeeps ==
  ASSUME GatewayBounds, RuntimeInv, NEW t \in Tickets, JoinTask(t)
  PROVE  RuntimeInv'
<1>1. /\ tasks' = [tasks EXCEPT ![t] = None] /\ DropsAccept({})
      /\ UNCHANGED <<now, redeemed, sweeper, life>>
      /\ UNCHANGED maps /\ UNCHANGED pool
  BY DEF JoinTask
<1>2. MapsType' /\ PoolType' /\ \A s \in Sessions : StillMinded(s)
  BY <1>1, MapsSame
<1>3. OtherType'
  BY <1>1 DEF OtherType, RuntimeInv, TypeOK
<1> QED BY <1>1, <1>2, <1>3, AcceptDropped

LEMMA TaskReadsKeeps ==
  ASSUME GatewayBounds, RuntimeInv, NEW t \in Tickets,
         NEW kind \in {"renew", "close", "other"}, TaskReads(t, kind)
  PROVE  RuntimeInv'
<1>1. /\ tasks[t] # None /\ tasks' = [tasks EXCEPT ![t].pc = "swept", ![t].kind = kind]
      /\ RemovesElsewhere(Due(tasks[t].at))
      /\ admissions' = PrunedAdmissions(tasks[t].at)
      /\ Submit(t, "sweep", None, tasks[t].at)
      /\ UNCHANGED <<now, redeemed, acc, sweeper, life>>
      /\ UNCHANGED pool /\ UNCHANGED limiter
  BY DEF TaskReads
<1>2. MapsType /\ PoolType
  BY DEF RuntimeInv, TypeOK
<1>3. /\ t \in Actors /\ t # "accept" /\ tasks[t] \in Task /\ tasks[t].at \in Nat
      /\ OtherType
  BY <1>1, TaskActor
<1>4. OtherType'
  <2>1. [tasks[t] EXCEPT !.pc = "swept", !.kind = kind] \in Task
    BY <1>3 DEF Task
  <2> QED BY <1>1, <1>3, <2>1 DEF OtherType
<1>5. /\ sessions' \in [Sessions -> Session \cup {None}] /\ owed' \subseteq Sessions
      /\ \A s \in Sessions : StillMinded(s)
  BY <1>1, <1>2, MindedElsewhere
<1>6. MapsType' /\ PoolType'
  BY <1>1, <1>2, <1>5, AdmissionsShape DEF MapsType, PoolType, pool
<1> QED BY <1>1, <1>3, <1>4, <1>5, <1>6, OtherCalls

LEMMA TaskFailsKeeps ==
  ASSUME GatewayBounds, RuntimeInv, NEW t \in Tickets, TaskFails(t)
  PROVE  RuntimeInv'
<1>1. /\ tasks[t] # None /\ tasks' = Ended(t) /\ sessions' = Detached(sessions, t)
      /\ UNCHANGED <<now, admissions, owed, redeemed, acc, sweeper, life>>
      /\ UNCHANGED pool /\ UNCHANGED limiter /\ UNCHANGED owner
  BY DEF TaskFails
<1>2. MapsType /\ PoolType /\ OwnerType
  BY DEF RuntimeInv, TypeOK
<1>3. OtherType'
  BY <1>1, TaskActor DEF OtherType
<1>4. sessions' \in [Sessions -> Session \cup {None}] /\ Live' = Live
  BY <1>1, <1>2, DetachedOne
<1>5. MapsType' /\ PoolType' /\ \A s \in Sessions : StillMinded(s)
  BY <1>1, <1>2, <1>4, MindedSame DEF MapsType, PoolType, pool
<1>6. OwnerType' /\ SameCalls /\ reply' = reply
  BY <1>1, <1>2 DEF owner, OwnerType, SameCalls
<1> QED BY <1>1, <1>3, <1>5, <1>6, OtherQuiet

LEMMA TaskAnswersKeeps ==
  ASSUME GatewayBounds, RuntimeInv, NEW t \in Tickets, TaskAnswers(t)
  PROVE  RuntimeInv'
<1>1. /\ tasks[t] # None
      /\ \/ tasks' = Ended(t) /\ sessions' = Detached(sessions, t)
         \/ /\ tasks' = [tasks EXCEPT ![t] = Reading(tasks[t].n + 1, tasks[t].open)]
            /\ UNCHANGED sessions
      /\ UNCHANGED <<now, admissions, owed, redeemed, acc, sweeper, life>>
      /\ UNCHANGED pool /\ UNCHANGED limiter /\ UNCHANGED owner
  BY DEF TaskAnswers
<1>2. MapsType /\ PoolType /\ OwnerType
  BY DEF RuntimeInv, TypeOK
<1>3. /\ tasks[t].n + 1 \in Nat /\ tasks[t].open \in BOOLEAN /\ OtherType
      /\ Ended(t) \in [Tickets -> Task \cup {None}] /\ now \in Nat
  BY <1>1, TaskActor
<1>4. Reading(tasks[t].n + 1, tasks[t].open) \in Task
  BY <1>3, ReadingShape
<1>5. OtherType'
  BY <1>1, <1>3, <1>4 DEF OtherType
<1>6. sessions' \in [Sessions -> Session \cup {None}] /\ Live' = Live
  <2>1. CASE sessions' = Detached(sessions, t)
    BY <1>2, <2>1, DetachedOne
  <2>2. CASE UNCHANGED sessions
    BY <1>2, <2>2 DEF MapsType, Live
  <2> QED BY <1>1, <2>1, <2>2
<1>7. MapsType' /\ PoolType' /\ \A s \in Sessions : StillMinded(s)
  BY <1>1, <1>2, <1>6, MindedSame DEF MapsType, PoolType, pool
<1>8. OwnerType' /\ SameCalls /\ reply' = reply
  BY <1>1, <1>2 DEF owner, OwnerType, SameCalls
<1> QED BY <1>1, <1>5, <1>7, <1>8, OtherQuiet

\* A control task reads its answer; sessions may be removed elsewhere.
LEMMA TaskGoes ==
  ASSUME GatewayBounds, RuntimeInv, NEW t \in Tickets, tasks[t] # None,
         OtherType', MapsType', PoolType', \A s \in Sessions : StillMinded(s),
         UNCHANGED <<acc, redeemed>>, UNCHANGED limiter,
         reply' = Silent({t}), UNCHANGED queue
  PROVE  RuntimeInv'
<1>1. t # "accept" /\ OwnerType
  BY TaskActor DEF RuntimeInv, TypeOK
<1>2. OwnerType' /\ SameCalls /\ reply'["accept"] = reply["accept"]
  BY <1>1, ReplyRead
<1> QED BY <1>2, OtherQuiet

\* Sessions are removed elsewhere and no admission is.
LEMMA ElsewhereShape ==
  ASSUME RuntimeInv, NEW R, RemovesElsewhere(R), UNCHANGED admissions, UNCHANGED pool
  PROVE  MapsType' /\ PoolType' /\ \A s \in Sessions : StillMinded(s)
<1>1. MapsType /\ PoolType
  BY DEF RuntimeInv, TypeOK
<1>2. /\ sessions' \in [Sessions -> Session \cup {None}] /\ owed' \subseteq Sessions
      /\ \A s \in Sessions : StillMinded(s)
  BY <1>1, MindedElsewhere
<1> QED BY <1>1, <1>2 DEF MapsType, PoolType, pool

LEMMA TaskSweptKeeps ==
  ASSUME GatewayBounds, RuntimeInv, NEW t \in Tickets, TaskSwept(t)
  PROVE  RuntimeInv'
<1> DEFINE s == SessionOf[t]
           closed == reply[t].expired
           at == tasks[t].at
           mine == IF s \in Live /\ t \in sessions[s].conns THEN {s} ELSE {}
<1>1. /\ tasks[t] # None /\ tasks[t].pc = "swept" /\ reply[t] # None
      /\ UNCHANGED <<now, admissions, redeemed, acc, sweeper, life>>
      /\ UNCHANGED pool /\ UNCHANGED limiter
  BY DEF TaskSwept
<1>2. MapsType /\ PoolType /\ OwnerType
  BY DEF RuntimeInv, TypeOK
<1>3. /\ t \in Actors /\ t # "accept" /\ tasks[t] \in Task /\ at \in Nat
      /\ s \in Sessions /\ OtherType /\ Ended(t) \in [Tickets -> Task \cup {None}]
  BY <1>1, TaskActor
<1>4. \/ /\ Active(t, at) /\ s \notin closed
         /\ sessions' = [Without(closed) EXCEPT ![s].act = at]
         /\ owed' = owed \cup (closed \cap Live)
         /\ tasks' = [tasks EXCEPT ![t].pc = "renew"]
         /\ Submit(t, "renew", s, at)
      \/ /\ \E R : RemovesElsewhere(R)
         /\ \/ tasks' = Ended(t)
            \/ tasks' = [tasks EXCEPT ![t].pc = "answer", ![t].open = FALSE]
            \/ tasks' = [tasks EXCEPT ![t].pc = "answer"]
         /\ reply' = Silent({t}) /\ UNCHANGED queue
  BY DEF TaskSwept
<1> HIDE DEF closed, at
<1>5. CASE /\ Active(t, at) /\ s \notin closed
           /\ sessions' = [Without(closed) EXCEPT ![s].act = at]
           /\ owed' = owed \cup (closed \cap Live)
           /\ tasks' = [tasks EXCEPT ![t].pc = "renew"]
           /\ Submit(t, "renew", s, at)
  <2>1. sessions[s] \in Session
    BY <1>2, <1>3, <1>5 DEF Active, MapsType
  <2> HIDE DEF s
  <2>2. [sessions[s] EXCEPT !.act = at] \in Session /\ Without(closed)[s] = sessions[s]
    BY <1>3, <1>5, <2>1 DEF Session, Without
  <2>3. Without(closed) \in [Sessions -> Session \cup {None}]
    BY <1>2 DEF Without, MapsType
  <2>4. /\ sessions' \in [Sessions -> Session \cup {None}]
        /\ sessions'[s] = [sessions[s] EXCEPT !.act = at]
        /\ \A x \in Sessions : x # s => sessions'[x] = Without(closed)[x]
    BY <1>3, <1>5, <2>2, <2>3
  <2>5. sessions'[s] # None
    BY <2>2, <2>4 DEF GatewayBounds
  <2>6. ASSUME NEW x \in Sessions
        PROVE  x \in Live => x \in Live' \/ x \in owed'
    <3>1. CASE x = s
      BY <2>5, <3>1 DEF Live
    <3>2. CASE x # s /\ x \in closed
      BY <1>5, <3>2
    <3>3. CASE x # s /\ x \notin closed
      BY <2>4, <3>3 DEF Live, Without
    <3> QED BY <3>1, <3>2, <3>3
  <2>7. owed \subseteq owed' /\ owed' \subseteq Sessions
    BY <1>2, <1>5 DEF Live, MapsType
  <2>8. \A x \in Sessions : StillMinded(x)
    BY <1>1, <2>6, <2>7 DEF StillMinded, pool
  <2>9. MapsType' /\ PoolType'
    BY <1>1, <1>2, <2>4, <2>7 DEF MapsType, PoolType, pool
  <2>10. OtherType'
    <3>1. [tasks[t] EXCEPT !.pc = "renew"] \in Task
      BY <1>3 DEF Task
    <3> QED BY <1>1, <1>3, <1>5, <3>1 DEF OtherType
  <2> QED BY <1>1, <1>3, <1>5, <2>8, <2>9, <2>10, OtherCalls
<1>6. CASE /\ \E R : RemovesElsewhere(R)
           /\ \/ tasks' = Ended(t)
              \/ tasks' = [tasks EXCEPT ![t].pc = "answer", ![t].open = FALSE]
              \/ tasks' = [tasks EXCEPT ![t].pc = "answer"]
           /\ reply' = Silent({t}) /\ UNCHANGED queue
  <2>1. PICK R : RemovesElsewhere(R)
    BY <1>6
  <2>2. MapsType' /\ PoolType' /\ \A x \in Sessions : StillMinded(x)
    BY <1>1, <2>1, ElsewhereShape
  <2>3. OtherType'
    <3>1. /\ [tasks[t] EXCEPT !.pc = "answer", !.open = FALSE] \in Task
          /\ [tasks[t] EXCEPT !.pc = "answer"] \in Task
      BY <1>3 DEF Task
    <3> QED BY <1>1, <1>3, <1>6, <3>1 DEF OtherType
  <2> QED BY <1>1, <1>6, <2>2, <2>3, TaskGoes
<1> QED BY <1>4, <1>5, <1>6

LEMMA TaskRenewedKeeps ==
  ASSUME GatewayBounds, RuntimeInv, NEW t \in Tickets, TaskRenewed(t)
  PROVE  RuntimeInv'
<1>1. /\ tasks[t] # None /\ reply' = Silent({t})
      /\ \/ tasks' = [tasks EXCEPT ![t].pc = "answer"] /\ UNCHANGED maps
         \/ /\ tasks' = Ended(t) /\ RemovesElsewhere({SessionOf[t]})
            /\ UNCHANGED admissions
      /\ UNCHANGED <<now, queue, redeemed, acc, sweeper, life>>
      /\ UNCHANGED pool /\ UNCHANGED limiter
  BY DEF TaskRenewed
<1>2. /\ tasks[t] \in Task /\ OtherType /\ Ended(t) \in [Tickets -> Task \cup {None}]
  BY <1>1, TaskActor
<1>3. OtherType'
  <2>1. [tasks[t] EXCEPT !.pc = "answer"] \in Task
    BY <1>2 DEF Task
  <2> QED BY <1>1, <1>2, <2>1 DEF OtherType
<1>4. MapsType' /\ PoolType' /\ \A x \in Sessions : StillMinded(x)
  BY <1>1, MapsSame, ElsewhereShape
<1> QED BY <1>1, <1>3, <1>4, TaskGoes

LEMMA SweepingKeeps ==
  ASSUME GatewayBounds, RuntimeInv, Sweeping
  PROVE  RuntimeInv'
<1>1. /\ MapsType /\ PoolType /\ OwnerType /\ OtherType /\ now \in Nat
      /\ "sweeper" \in Actors /\ "sweeper" # "accept"
  BY ActorNames DEF RuntimeInv, TypeOK, OtherType
<1>2. CASE SessionSweep
  <2>1. /\ RemovesElsewhere(Due(now)) /\ admissions' = PrunedAdmissions(now)
        /\ UNCHANGED pool /\ UNCHANGED owner /\ UNCHANGED limiter
        /\ UNCHANGED <<now, redeemed, acc, tasks, sweeper, life>>
    BY <1>2 DEF SessionSweep
  <2>2. /\ sessions' \in [Sessions -> Session \cup {None}] /\ owed' \subseteq Sessions
        /\ \A s \in Sessions : StillMinded(s)
    BY <1>1, <2>1, MindedElsewhere
  <2>3. MapsType' /\ PoolType' /\ OtherType'
    BY <1>1, <2>1, <2>2, AdmissionsShape DEF MapsType, PoolType, pool, OtherType
  <2>4. OwnerType' /\ SameCalls /\ reply' = reply
    BY <1>1, <2>1 DEF owner, OwnerType, SameCalls
  <2> QED BY <2>1, <2>2, <2>3, <2>4, OtherQuiet
<1>3. CASE PoolSweepTick
  <2>1. /\ sweeper' = TRUE /\ Submit("sweeper", "sweep", None, now)
        /\ UNCHANGED maps /\ UNCHANGED pool /\ UNCHANGED limiter
        /\ UNCHANGED <<now, redeemed, acc, tasks, life>>
    BY <1>3 DEF PoolSweepTick
  <2>2. MapsType' /\ PoolType' /\ \A s \in Sessions : StillMinded(s)
    BY <2>1, MapsSame
  <2>3. OtherType'
    BY <1>1, <2>1 DEF OtherType
  <2> QED BY <1>1, <2>1, <2>2, <2>3, OtherCalls
<1>4. CASE PoolSweepCloses
  <2>1. /\ RemovesElsewhere(reply["sweeper"].expired) /\ sweeper' = FALSE
        /\ reply' = Silent({"sweeper"}) /\ UNCHANGED queue
        /\ UNCHANGED admissions /\ UNCHANGED pool /\ UNCHANGED limiter
        /\ UNCHANGED <<now, redeemed, acc, tasks, life>>
    BY <1>4 DEF PoolSweepCloses
  <2>2. MapsType' /\ PoolType' /\ \A s \in Sessions : StillMinded(s)
    BY <2>1, ElsewhereShape
  <2>3. OtherType'
    BY <1>1, <2>1 DEF OtherType
  <2>4. OwnerType' /\ SameCalls /\ reply'["accept"] = reply["accept"]
    BY <1>1, <2>1, ReplyRead
  <2> QED BY <2>1, <2>2, <2>3, <2>4, OtherQuiet
<1>5. CASE \E s \in Sessions : Cleanup(s)
  <2>1. PICK s \in Sessions : Cleanup(s)
    BY <1>5
  <2>2. /\ owed' = owed \ {s} /\ Deferred({s})
        /\ UNCHANGED <<sessions, admissions>> /\ UNCHANGED owner /\ UNCHANGED limiter
        /\ UNCHANGED <<now, redeemed, acc, tasks, sweeper, life>>
    BY <2>1 DEF Cleanup
  <2>3. /\ PoolType'
        /\ \A x \in Sessions : leases'[x] # None /\ leases'[x].st # "Parked" =>
             leases'[x] = leases[x] /\ (x \in missed \cup {s} => x \in missed')
    <3>1. {s} \in SUBSET Sessions
      OBVIOUS
    <3> QED BY <1>1, <2>2, <3>1, DeferredShape
  <2>4. \A x \in Sessions : StillMinded(x)
    BY <2>2, <2>3 DEF StillMinded, Live
  <2>5. MapsType' /\ OtherType'
    BY <1>1, <2>2 DEF MapsType, OtherType
  <2>6. OwnerType' /\ SameCalls /\ reply' = reply
    BY <1>1, <2>2 DEF owner, OwnerType, SameCalls
  <2> QED BY <2>2, <2>3, <2>4, <2>5, <2>6, OtherQuiet
<1> QED BY <1>2, <1>3, <1>4, <1>5 DEF Sweeping

LEMMA StoppingKeeps ==
  ASSUME GatewayBounds, RuntimeInv, Stopping
  PROVE  RuntimeInv'
<1>1. /\ MapsType /\ PoolType /\ OwnerType /\ OtherType /\ now \in Nat
      /\ "sweeper" # "accept" /\ "stop" \in Actors /\ "stop" # "accept"
  BY ActorNames DEF RuntimeInv, TypeOK, OtherType
<1>2. CASE BeginStop
  <2>1. /\ life' = "sweeps" /\ tasks' = [t \in Tickets |-> None]
        /\ sessions' = [s \in Sessions |->
             IF s \in Live THEN [sessions[s] EXCEPT !.conns = @ \ Running] ELSE None]
        /\ DropsAccept(Tickets)
        /\ UNCHANGED <<now, admissions, owed, redeemed, sweeper>> /\ UNCHANGED pool
    BY <1>2 DEF BeginStop
  <2>2. sessions' \in [Sessions -> Session \cup {None}] /\ Live' = Live
    <3>1. \A s \in Sessions : sessions'[s] =
            IF s \in Live THEN [sessions[s] EXCEPT !.conns = @ \ Running] ELSE None
      BY <2>1
    <3>2. sessions' = [s \in Sessions |-> sessions'[s]]
      BY <2>1
    <3>3. \A s \in Sessions : s \in Live <=> sessions[s] # None
      BY DEF Live
    <3> HIDE DEF Live, Running
    <3> QED BY <1>1, <3>1, <3>2, <3>3, DetachedShape
  <2>3. MapsType' /\ PoolType' /\ OtherType' /\ \A s \in Sessions : StillMinded(s)
    BY <1>1, <2>1, <2>2, MindedSame DEF MapsType, PoolType, OtherType, pool
  <2> QED BY <2>1, <2>3, AcceptDropped
<1>3. CASE StopSweeps
  <2>1. /\ life' = "closing" /\ sweeper' = FALSE
        /\ queue' = Abandoned({"sweeper"}) /\ reply' = Silent({"sweeper"})
        /\ UNCHANGED <<now, redeemed, acc, tasks>>
        /\ UNCHANGED maps /\ UNCHANGED pool /\ UNCHANGED limiter
    BY <1>3 DEF StopSweeps
  <2>2. MapsType' /\ PoolType' /\ \A s \in Sessions : StillMinded(s)
    BY <2>1, MapsSame
  <2>3. OtherType'
    BY <1>1, <2>1 DEF OtherType
  <2>4. OwnerType' /\ SameCalls /\ reply'["accept"] = reply["accept"]
    BY <1>1, <2>1, CallersGone
  <2> QED BY <2>1, <2>2, <2>3, <2>4, OtherQuiet
<1>4. CASE StopCloseAll
  <2>1. /\ life' = "flushing" /\ sessions' = Without(Live) /\ Deferred(Live)
        /\ Submit("stop", "sweep", None, now)
        /\ UNCHANGED <<now, admissions, owed, redeemed, acc, tasks, sweeper>>
        /\ UNCHANGED limiter
    BY <1>4 DEF StopCloseAll
  <2>2. /\ PoolType' /\ sessions' \in [Sessions -> Session \cup {None}]
        /\ \A s \in Sessions : StillMinded(s)
    <3>1. Live \in SUBSET Sessions
      BY DEF Live
    <3> QED BY <1>1, <2>1, <3>1, MindedRemoved
  <2>3. MapsType' /\ OtherType'
    BY <1>1, <2>1, <2>2 DEF MapsType, OtherType
  <2> QED BY <1>1, <2>1, <2>2, <2>3, OtherCalls
<1>5. CASE StopFlush
  <2>1. /\ life' = "draining" /\ reply' = Silent({"stop"}) /\ UNCHANGED queue
        /\ UNCHANGED <<now, redeemed, acc, tasks, sweeper>>
        /\ UNCHANGED maps /\ UNCHANGED pool /\ UNCHANGED limiter
    BY <1>5 DEF StopFlush
  <2>2. MapsType' /\ PoolType' /\ \A s \in Sessions : StillMinded(s)
    BY <2>1, MapsSame
  <2>3. OtherType'
    BY <1>1, <2>1 DEF OtherType
  <2>4. OwnerType' /\ SameCalls /\ reply'["accept"] = reply["accept"]
    BY <1>1, <2>1, ReplyRead
  <2> QED BY <2>1, <2>2, <2>3, <2>4, OtherQuiet
<1>6. CASE StopDrain
  <2>1. /\ life' = "stopped" /\ UNCHANGED owner
        /\ UNCHANGED <<now, redeemed, acc, tasks, sweeper>>
        /\ UNCHANGED maps /\ UNCHANGED pool /\ UNCHANGED limiter
    BY <1>6 DEF StopDrain
  <2>2. MapsType' /\ PoolType' /\ \A s \in Sessions : StillMinded(s)
    BY <2>1, MapsSame
  <2>3. OtherType'
    BY <1>1, <2>1 DEF OtherType
  <2>4. OwnerType' /\ SameCalls /\ reply' = reply
    BY <1>1, <2>1 DEF owner, OwnerType, SameCalls
  <2> QED BY <2>1, <2>2, <2>3, <2>4, OtherQuiet
<1> QED BY <1>2, <1>3, <1>4, <1>5, <1>6 DEF Stopping

LEMMA TickKeeps ==
  ASSUME GatewayBounds, RuntimeInv, Tick
  PROVE  RuntimeInv'
<1>1. /\ now' = now + 1 /\ UNCHANGED owner
      /\ UNCHANGED <<redeemed, acc, tasks, sweeper, life>>
      /\ UNCHANGED maps /\ UNCHANGED pool /\ UNCHANGED limiter
  BY DEF Tick
<1>2. MapsType' /\ PoolType' /\ \A s \in Sessions : StillMinded(s)
  BY <1>1, MapsSame
<1>3. OtherType'
  BY <1>1 DEF OtherType, RuntimeInv, TypeOK
<1>4. OwnerType' /\ SameCalls /\ reply' = reply
  BY <1>1 DEF owner, OwnerType, SameCalls, RuntimeInv, TypeOK
<1> QED BY <1>1, <1>2, <1>3, <1>4, OtherQuiet

\* A step that changes no variable.
LEMMA StutterKeeps ==
  ASSUME GatewayBounds, RuntimeInv, UNCHANGED vars
  PROVE  RuntimeInv'
<1>1. /\ UNCHANGED owner /\ UNCHANGED <<now, redeemed, acc, tasks, sweeper, life>>
      /\ UNCHANGED maps /\ UNCHANGED pool /\ UNCHANGED limiter
  BY DEF vars
<1>2. MapsType' /\ PoolType' /\ \A s \in Sessions : StillMinded(s)
  BY <1>1, MapsSame
<1>3. OtherType'
  BY <1>1 DEF OtherType, RuntimeInv, TypeOK
<1>4. OwnerType' /\ SameCalls /\ reply' = reply
  BY <1>1 DEF owner, OwnerType, SameCalls, RuntimeInv, TypeOK
<1> QED BY <1>1, <1>2, <1>3, <1>4, OtherQuiet

LEMMA TimeoutKeeps ==
  ASSUME GatewayBounds, RuntimeInv, NEW who \in Actors, Timeout(who)
  PROVE  RuntimeInv'
<1>1. /\ queue' = Abandoned({who}) /\ reply' = [reply EXCEPT ![who] = Failed]
      /\ UNCHANGED <<now, redeemed, acc, tasks, sweeper, life>>
      /\ UNCHANGED maps /\ UNCHANGED pool /\ UNCHANGED limiter
  BY DEF Timeout
<1>2. /\ TypeOK /\ OwnerType /\ AcceptType /\ AcceptOK /\ OwnedOK /\ LimiterType
      /\ PermitsBalance /\ "accept" \in Actors
  BY ActorNames DEF RuntimeInv, TypeOK
<1>3. MapsType' /\ PoolType' /\ \A s \in Sessions : StillMinded(s)
  BY <1>1, MapsSame
<1>4. OtherType'
  BY <1>1, <1>2 DEF OtherType, TypeOK
<1>5. /\ queue' \in Seq(Request) /\ SameCalls
      /\ \A i \in 1 .. Len(queue) : queue'[i].who = IF queue[i].who = who THEN None
                                                    ELSE queue[i].who
      /\ \A i \in 1 .. Len(queue') : queue'[i].call # "sweep" => queue'[i].s \in Sessions
  BY <1>1, <1>2, AbandonedShape
<1>6. OwnerType'
  <2>1. reply' \in [Actors -> Reply \cup {None}]
    BY <1>1, <1>2, FailedReply DEF OwnerType
  <2> QED BY <1>5, <2>1 DEF OwnerType
<1>7. CASE who # "accept"
  <2>1. reply'["accept"] = reply["accept"]
    BY <1>1, <1>2, <1>7 DEF OwnerType
  <2> QED BY <1>1, <1>3, <1>4, <1>5, <1>6, <2>1, OtherQuiet
<1>8. CASE who = "accept"
  <2>1. reply'["accept"] = Failed /\ ~reply'["accept"].ok
    BY <1>1, <1>2, <1>8, FailedReply DEF OwnerType
  <2>2. Idle'
    <3>1. None # "accept"
      BY ActorNames
    <3> QED BY <1>5, <1>8, <3>1 DEF Idle, SameCalls
  <2>3. AcceptOK' /\ OwnedOK'
    BY <1>2, <1>3, <1>5, <1>6, <2>1, <2>2, AcceptMoves, OwnersQuiet
  <2>4. AcceptType' /\ LimiterType' /\ PermitsBalance'
    <3>1. AcceptType' /\ (HoldsPermit' <=> HoldsPermit) /\ acc'.src = acc.src
      BY <1>1, <1>2 DEF AcceptType, HoldsPermit
    <3> QED BY <1>1, <1>2, <3>1, PermitKept
  <2> QED BY <1>1, <1>2, <1>3, <1>4, <1>6, <2>3, <2>4 DEF RuntimeInv, TypeOK, OtherType
<1> QED BY <1>7, <1>8

-----------------------------------------------------------------------------
\* The worker

\* What a call makes of a lease: only a commit activates it, only a reserve
\* reserves it, and a release leaves nothing to give back.
LEMMA CallShape ==
  ASSUME GatewayBounds, NEW l \in Lease \cup {None}, NEW at \in Nat, NEW store \in BOOLEAN
  PROVE  /\ ReserveTo(l, at, store).lease \in Lease \cup {None}
         /\ CommitTo(l, at, store).lease \in Lease \cup {None}
         /\ ReleaseTo(l, store).lease \in Lease \cup {None}
         /\ RenewTo(l, at, store).lease \in Lease \cup {None}
         /\ ReserveTo(l, at, store).ok \in BOOLEAN /\ CommitTo(l, at, store).ok \in BOOLEAN
         /\ ReleaseTo(l, store).ok \in BOOLEAN /\ RenewTo(l, at, store).ok \in BOOLEAN
         /\ LET m == ReserveTo(l, at, store).lease
            IN m # None /\ m.st = "Active" => m = l
         /\ LET m == CommitTo(l, at, store).lease
            IN m # None /\ m.st # "Parked" =>
                 m = l \/ (l # None /\ l.st = "Reserved" /\ m.st = "Active")
         /\ LET m == ReleaseTo(l, store).lease IN m # None => m.st = "Parked"
<1>1. PendingTTL \in Nat /\ LeaseTTL \in Nat
  BY DEF GatewayBounds
<1>2. /\ ParkedLease \in Lease /\ ParkedLease.st = "Parked"
      /\ \A e \in Nat : /\ [st |-> "Reserved", exp |-> e] \in Lease
                        /\ [st |-> "Active", exp |-> e] \in Lease
      /\ \A m \in Lease : /\ m.st \in {"Reserved", "Active", "Parked"} /\ m.exp \in Nat
                          /\ m.st = "Parked" => m = ParkedLease
      /\ \A m \in Lease, e \in Nat : m.st = "Active" =>
           [m EXCEPT !.exp = e] \in Lease /\ [m EXCEPT !.exp = e].st = m.st
      /\ at + PendingTTL \in Nat /\ at + LeaseTTL \in Nat
  BY <1>1 DEF ParkedLease, Lease
<1> HIDE DEF Lease, ParkedLease
<1>3. LET m == ReserveTo(l, at, store).lease
      IN /\ m \in Lease \cup {None} /\ ReserveTo(l, at, store).ok \in BOOLEAN
         /\ m # None /\ m.st = "Active" => m = l
  BY <1>2 DEF ReserveTo
<1>4. LET m == CommitTo(l, at, store).lease
      IN /\ m \in Lease \cup {None} /\ CommitTo(l, at, store).ok \in BOOLEAN
         /\ m # None /\ m.st # "Parked" =>
              m = l \/ (l # None /\ l.st = "Reserved" /\ m.st = "Active")
  <2>1. /\ l \in Lease => l.exp \in Nat
        /\ l # None /\ l # ParkedLease /\ l.st # "Active" => l.st = "Reserved"
    BY <1>2
  <2>2. CASE l = None \/ l = ParkedLease
    BY <1>2, <2>2 DEF CommitTo
  <2>3. CASE l # None /\ l # ParkedLease /\ l.st = "Active"
    BY <1>2, <2>3 DEF CommitTo
  <2>4. CASE l # None /\ l # ParkedLease /\ l.st # "Active" /\ at >= l.exp
    BY <1>2, <2>1, <2>4 DEF CommitTo
  <2>5. CASE l # None /\ l # ParkedLease /\ l.st # "Active" /\ ~(at >= l.exp)
    BY <1>2, <2>1, <2>5 DEF CommitTo
  <2> QED BY <2>2, <2>3, <2>4, <2>5
<1>5. LET m == ReleaseTo(l, store).lease
      IN /\ m \in Lease \cup {None} /\ ReleaseTo(l, store).ok \in BOOLEAN
         /\ m # None => m.st = "Parked"
  BY <1>2 DEF ReleaseTo
<1>6. LET m == RenewTo(l, at, store).lease
      IN /\ m \in Lease \cup {None} /\ RenewTo(l, at, store).ok \in BOOLEAN
  BY <1>2 DEF RenewTo
<1> QED BY <1>3, <1>4, <1>5, <1>6

\* The calls that stay queued when the oldest is taken.
LEMMA OldestGone ==
  ASSUME OwnerType, queue # <<>>, queue' = Tail(queue), NEW c, NEW x
  PROVE  /\ Queued(c, x)' => Queued(c, x)
         /\ Queued(c, x) => Queued(c, x)' \/ (Head(queue).call = c /\ Head(queue).s = x)
<1>1. /\ Len(queue) \in Nat \ {0} /\ Len(queue') = Len(queue) - 1
      /\ \A i \in 1 .. Len(queue') : i + 1 \in 1 .. Len(queue) /\ queue'[i] = queue[i + 1]
      /\ Head(queue) = queue[1] /\ queue' \in Seq(Request)
  BY OldestTaken
<1>2. DOMAIN queue = 1 .. Len(queue) /\ DOMAIN queue' = 1 .. Len(queue')
  BY <1>1 DEF OwnerType
<1>3. Queued(c, x)' => Queued(c, x)
  <2> SUFFICES ASSUME NEW i \in 1 .. Len(queue'), queue'[i].call = c, queue'[i].s = x
               PROVE  Queued(c, x)
    BY <1>2 DEF Queued
  <2> QED BY <1>1, <1>2 DEF Queued
<1>4. ASSUME NEW i \in 1 .. Len(queue), i # 1, queue[i].call = c, queue[i].s = x
      PROVE  Queued(c, x)'
  <2>1. i - 1 \in 1 .. Len(queue') /\ (i - 1) + 1 = i
    BY <1>1, <1>4
  <2>2. queue'[i - 1] = queue[i]
    BY <1>1, <2>1
  <2> QED BY <1>2, <1>4, <2>1, <2>2 DEF Queued
<1>5. Queued(c, x) => Queued(c, x)' \/ (Head(queue).call = c /\ Head(queue).s = x)
  <2> SUFFICES ASSUME NEW i \in 1 .. Len(queue), queue[i].call = c, queue[i].s = x
               PROVE  Queued(c, x)' \/ (Head(queue).call = c /\ Head(queue).s = x)
    BY <1>2 DEF Queued
  <2> QED BY <1>1, <1>4
<1> QED BY <1>3, <1>5

\* A sweep of the pool releases or parks, and reports what it took.
LEMMA WorkSweepShape ==
  ASSUME PoolType, NEW r, WorkSweep(r)
  PROVE  /\ PoolType' /\ Answers(r)
         /\ \A s \in Sessions : leases'[s] # None /\ leases'[s].st # "Parked" =>
              leases'[s] = leases[s] /\ (s \in missed => s \in missed')
<1> DEFINE due == {s \in Blocked : leases[s].exp <= r.at}
           parked == {s \in Sessions : leases[s] = ParkedLease}
<1>1. PICK F \in SUBSET due, R \in SUBSET parked :
        /\ leases' = [s \in Sessions |->
             IF s \in F THEN ParkedLease
             ELSE IF s \in due \cup R THEN None ELSE leases[s]]
        /\ missed' = StillHeld(missed)
        /\ reply' = IF r.who = None THEN reply
                    ELSE [reply EXCEPT ![r.who] = [ok |-> TRUE, expired |-> due]]
  BY DEF WorkSweep
<1>2. due \in SUBSET Sessions
  BY DEF Blocked
<1> HIDE DEF due, parked
<1>3. ParkedLease \in Lease /\ ParkedLease.st = "Parked"
  BY DEF Lease, ParkedLease
<1>4. leases \in [Sessions -> Lease \cup {None}] /\ missed \subseteq Sessions
  BY DEF PoolType
<1>5. leases' \in [Sessions -> Lease \cup {None}]
  BY <1>1, <1>3, <1>4
<1>6. missed' \subseteq Sessions
  BY <1>1, <1>4 DEF StillHeld
<1>7. [ok |-> TRUE, expired |-> due] \in Reply
  BY <1>2 DEF Reply
<1>8. Answers(r)
  BY <1>1, <1>7 DEF Answers
<1>9. ASSUME NEW s \in Sessions, leases'[s] # None, leases'[s].st # "Parked"
      PROVE  leases'[s] = leases[s] /\ (s \in missed => s \in missed')
  <2>1. leases'[s] = leases[s]
    BY <1>1, <1>3, <1>9
  <2> QED BY <1>1, <1>9, <2>1 DEF StillHeld
<1> QED BY <1>5, <1>6, <1>8, <1>9 DEF PoolType

\* Any other call changes the lease of its session only.
LEMMA WorkCallShape ==
  ASSUME GatewayBounds, PoolType, NEW r \in Request, r.call # "sweep", r.s \in Sessions,
         WorkCall(r)
  PROVE  /\ PoolType' /\ Answers(r)
         /\ \A s \in Sessions : s # r.s => leases'[s] = leases[s]
         /\ \A s \in missed : leases'[s] # None /\ leases'[s].st # "Parked" => s \in missed'
         /\ leases'[r.s] # None /\ leases'[r.s].st # "Parked" =>
              /\ r.call # "release"
              /\ r.call = "reserve" /\ leases'[r.s].st = "Active" =>
                   leases'[r.s] = leases[r.s]
              /\ r.call = "commit" =>
                   \/ leases'[r.s] = leases[r.s]
                   \/ /\ leases[r.s] # None /\ leases[r.s].st = "Reserved"
                      /\ leases'[r.s].st = "Active"
              /\ r.call = "renew" => leases[r.s] # None /\ leases'[r.s].st = leases[r.s].st
<1>0. leases[r.s] \in Lease \cup {None} /\ r.at \in Nat
  BY DEF PoolType, Request
<1>a. PICK l \in Lease \cup {None} : l = leases[r.s]
  BY <1>0
<1>b. PICK at \in Nat : at = r.at
  BY <1>0
<1> DEFINE Res(store) ==
             CASE r.call = "reserve" -> ReserveTo(l, at, store)
               [] r.call = "commit" -> CommitTo(l, at, store)
               [] r.call = "release" -> IF l = ParkedLease THEN [lease |-> l, ok |-> TRUE]
                                        ELSE ReleaseTo(l, store)
               [] r.call = "renew" -> RenewTo(l, at, store)
<1>1. PICK store \in BOOLEAN :
        /\ leases' = [leases EXCEPT ![r.s] = Res(store).lease]
        /\ missed' = StillHeld(missed)
        /\ reply' = IF r.who = None THEN reply
                    ELSE [reply EXCEPT ![r.who] = [ok |-> Res(store).ok, expired |-> {}]]
  BY <1>a, <1>b DEF WorkCall
<1>2. r.call \in {"reserve", "commit", "release", "renew"} /\ at \in Nat
  BY DEF Request, Calls
<1>3. l \in Lease \cup {None} /\ leases \in [Sessions -> Lease \cup {None}]
      /\ missed \subseteq Sessions
  BY <1>a DEF PoolType
<1>4. ParkedLease \in Lease /\ ParkedLease.st = "Parked"
  BY DEF Lease, ParkedLease
<1> DEFINE m == Res(store).lease
           ok == Res(store).ok
<1>5. /\ m \in Lease \cup {None} /\ ok \in BOOLEAN
      /\ m # None /\ m.st # "Parked" =>
           /\ r.call # "release"
           /\ r.call = "reserve" /\ m.st = "Active" => m = l
           /\ r.call = "commit" => m = l \/ (l # None /\ l.st = "Reserved" /\ m.st = "Active")
           /\ r.call = "renew" => l # None /\ m.st = l.st
  <2>1. CASE r.call = "reserve"
    <3>1. m = ReserveTo(l, at, store).lease /\ ok = ReserveTo(l, at, store).ok
      BY <2>1
    <3>2. LET x == ReserveTo(l, at, store).lease
          IN /\ x \in Lease \cup {None} /\ ReserveTo(l, at, store).ok \in BOOLEAN
             /\ x # None /\ x.st = "Active" => x = l
      BY CallShape
    <3> HIDE DEF m, ok, Res
    <3> QED BY <2>1, <3>1, <3>2
  <2>2. CASE r.call = "commit"
    <3>1. m = CommitTo(l, at, store).lease /\ ok = CommitTo(l, at, store).ok
      BY <2>2
    <3>2. LET x == CommitTo(l, at, store).lease
          IN /\ x \in Lease \cup {None} /\ CommitTo(l, at, store).ok \in BOOLEAN
             /\ x # None /\ x.st # "Parked" =>
                  x = l \/ (l # None /\ l.st = "Reserved" /\ x.st = "Active")
      BY CallShape
    <3> HIDE DEF m, ok, Res
    <3> QED BY <2>2, <3>1, <3>2
  <2>3. CASE r.call = "release"
    <3>1. Res(store) = IF l = ParkedLease THEN [lease |-> l, ok |-> TRUE]
                       ELSE ReleaseTo(l, store)
      BY <2>3
    <3>2. CASE l = ParkedLease
      <4>1. m = ParkedLease /\ ok = TRUE
        <5>1. m = Res(store).lease /\ ok = Res(store).ok
          OBVIOUS
        <5> HIDE DEF m, ok, Res
        <5> QED BY <3>1, <3>2, <5>1
      <4> HIDE DEF m, ok, Res
      <4> QED BY <1>4, <2>3, <4>1
    <3>3. CASE l # ParkedLease
      <4>1. m = ReleaseTo(l, store).lease /\ ok = ReleaseTo(l, store).ok
        BY <3>1, <3>3
      <4>2. LET x == ReleaseTo(l, store).lease
            IN /\ x \in Lease \cup {None} /\ ReleaseTo(l, store).ok \in BOOLEAN
               /\ x # None => x.st = "Parked"
        BY CallShape
      <4> HIDE DEF m, ok, Res
      <4> QED BY <2>3, <4>1, <4>2
    <3> QED BY <3>2, <3>3
  <2>4. CASE r.call = "renew"
    <3>1. m = RenewTo(l, at, store).lease /\ ok = RenewTo(l, at, store).ok
      BY <2>4
    <3>2. /\ RenewTo(l, at, store).lease \in Lease \cup {None}
          /\ RenewTo(l, at, store).ok \in BOOLEAN
      BY CallShape
    <3>3. RenewTo(l, at, store).lease # None =>
            l # None /\ RenewTo(l, at, store).lease.st = l.st
      <4>1. CASE l # None /\ l.st = "Active"
        <5>1. [l EXCEPT !.exp = at + LeaseTTL].st = l.st
          BY <4>1 DEF Lease, ParkedLease
        <5> QED BY <4>1, <5>1 DEF RenewTo
      <4>2. CASE ~(l # None /\ l.st = "Active")
        BY <4>2 DEF RenewTo
      <4> QED BY <4>1, <4>2
    <3> HIDE DEF m, ok, Res
    <3> QED BY <2>4, <3>1, <3>2, <3>3
  <2> QED BY <1>2, <2>1, <2>2, <2>3, <2>4
<1>6. /\ leases' = [leases EXCEPT ![r.s] = m]
      /\ reply' = IF r.who = None THEN reply
                  ELSE [reply EXCEPT ![r.who] = [ok |-> ok, expired |-> {}]]
  BY <1>1
<1> HIDE DEF m, ok, Res
<1>7. /\ leases' \in [Sessions -> Lease \cup {None}] /\ leases'[r.s] = m
      /\ \A s \in Sessions : s # r.s => leases'[s] = leases[s]
  BY <1>3, <1>5, <1>6
<1>8. missed' \subseteq Sessions
  BY <1>1, <1>3 DEF StillHeld
<1>9. Answers(r)
  <2>1. [ok |-> ok, expired |-> {}] \in Reply
    BY <1>5 DEF Reply
  <2> QED BY <1>6, <2>1 DEF Answers
<1>10. \A s \in missed : leases'[s] # None /\ leases'[s].st # "Parked" => s \in missed'
  BY <1>1 DEF StillHeld
<1> QED BY <1>a, <1>5, <1>7, <1>8, <1>9, <1>10 DEF PoolType

\* The worker runs the oldest call.  A commit that activates a reserved lease
\* finds its owner in the invariant; a reserve has no commit behind it.
LEMMA WorkerKeeps ==
  ASSUME GatewayBounds, RuntimeInv, Worker
  PROVE  RuntimeInv'
<1> DEFINE r == Head(queue)
<1>1. /\ queue # <<>> /\ queue' = Tail(queue)
      /\ UNCHANGED <<now, redeemed, acc, tasks, sweeper, life>>
      /\ UNCHANGED maps /\ UNCHANGED limiter
      /\ \/ r.call = "sweep" /\ WorkSweep(r)
         \/ r.call # "sweep" /\ WorkCall(r)
  BY DEF Worker
<1>2. /\ PoolType /\ MapsType /\ OwnerType /\ AcceptType /\ AcceptOK /\ OwnedOK
      /\ LimiterType /\ PermitsBalance /\ TypeOK
  BY DEF RuntimeInv, TypeOK
<1>3. r \in Request /\ (r.call # "sweep" => r.s \in Sessions)
  BY <1>1, <1>2, OldestTaken
<1>4. \A c, x : /\ Queued(c, x)' => Queued(c, x)
                /\ Queued(c, x) => Queued(c, x)' \/ (r.call = c /\ r.s = x)
  BY <1>1, <1>2, OldestGone
<1>5. r.call = "reserve" => \A x : ~Queued("commit", x)'
  <2> SUFFICES ASSUME r.call = "reserve", NEW i \in DOMAIN queue',
                      queue'[i].call = "commit"
               PROVE  FALSE
    BY DEF Queued
  <2>1. /\ DOMAIN queue' = 1 .. Len(queue') /\ Len(queue) \in Nat
        /\ 1 \in 1 .. Len(queue) /\ r = queue[1]
        /\ \A j \in 1 .. Len(queue') : j + 1 \in 1 .. Len(queue) /\ queue'[j] = queue[j + 1]
    <3>1. queue' \in Seq(Request)
      BY <1>1, <1>2, OldestTaken
    <3> QED BY <1>1, <1>2, <3>1, OldestTaken
  <2> HIDE DEF r
  <2>2. i \in Nat /\ i + 1 \in 1 .. Len(queue) /\ queue[i + 1].call = "commit" /\ 1 < i + 1
    BY <2>1
  <2> QED BY <1>2, <2>1, <2>2 DEF AcceptOK
<1>6. UNCHANGED <<sessions, admissions, owed>>
  BY <1>1 DEF maps
<1>7. Live' = Live
  BY <1>6 DEF Live
<1>8. /\ PoolType' /\ Answers(r) /\ OwnedOK'
  <2>1. CASE r.call = "sweep" /\ WorkSweep(r)
    <3>1. /\ PoolType' /\ Answers(r)
          /\ \A s \in Sessions : leases'[s] # None /\ leases'[s].st # "Parked" =>
               leases'[s] = leases[s] /\ (s \in missed => s \in missed')
      BY <1>2, <2>1, WorkSweepShape
    <3>2. \A s \in Sessions : StillMinded(s)
      BY <1>6, <1>7, <3>1 DEF StillMinded
    <3>3. \A s \in Sessions : /\ Queued("release", s) => Queued("release", s)'
                              /\ Queued("commit", s)' => Queued("commit", s) \/ s \in Live'
      BY <1>4, <2>1
    <3> QED BY <1>2, <3>1, <3>2, <3>3, OwnersKept
  <2>2. CASE r.call # "sweep" /\ WorkCall(r)
    <3> HIDE DEF r
    <3>1. /\ PoolType' /\ Answers(r)
          /\ \A s \in Sessions : s # r.s => leases'[s] = leases[s]
          /\ \A s \in missed : leases'[s] # None /\ leases'[s].st # "Parked" => s \in missed'
          /\ leases'[r.s] # None /\ leases'[r.s].st # "Parked" =>
               /\ r.call # "release"
               /\ r.call = "reserve" /\ leases'[r.s].st = "Active" =>
                    leases'[r.s] = leases[r.s]
               /\ r.call = "commit" =>
                    \/ leases'[r.s] = leases[r.s]
                    \/ /\ leases[r.s] # None /\ leases[r.s].st = "Reserved"
                       /\ leases'[r.s].st = "Active"
               /\ r.call = "renew" =>
                    leases[r.s] # None /\ leases'[r.s].st = leases[r.s].st
      BY <1>2, <1>3, <2>2, WorkCallShape
    <3>2. ASSUME NEW s \in Sessions, leases'[s] # None, leases'[s].st # "Parked", Owned(s)
          PROVE  Owned(s)'
      <4>1. s # r.s \/ r.call # "release"
        BY <3>1, <3>2
      <4>2. Queued("release", s) => Queued("release", s)'
        BY <1>4, <4>1
      <4>3. s \in missed => s \in missed'
        BY <3>1, <3>2
      <4> QED BY <1>6, <1>7, <3>2, <4>2, <4>3 DEF Owned
    <3>3. ASSUME NEW s \in Sessions, leases'[s] # None,
                 leases'[s].st = "Active" \/ (leases'[s].st = "Reserved" /\ Queued("commit", s)')
          PROVE  Owned(s)
      <4>1. Queued("commit", s)' => Queued("commit", s)
        BY <1>4
      <4>2. CASE s # r.s
        <5>1. leases'[s] = leases[s]
          BY <3>1, <4>2
        <5> HIDE DEF Owned, Queued
        <5> QED BY <1>2, <3>3, <4>1, <5>1 DEF OwnedOK
      <4>3. CASE s = r.s /\ r.call = "reserve"
        <5>1. leases'[s].st = "Active"
          BY <1>5, <3>3, <4>3
        <5>2. leases'[s] = leases[s]
          BY <3>1, <3>3, <4>3, <5>1
        <5> HIDE DEF Owned, Queued
        <5> QED BY <1>2, <3>3, <5>1, <5>2 DEF OwnedOK
      <4>4. CASE s = r.s /\ r.call = "commit"
        <5>1. Queued("commit", s)
          <6>1. 1 \in DOMAIN queue /\ r = queue[1]
            BY <1>1, <1>2, OldestTaken DEF OwnerType, r
          <6> QED BY <4>4, <6>1 DEF Queued
        <5>2. leases[s] # None /\ (leases[s].st = "Active" \/ leases[s].st = "Reserved")
          BY <3>1, <3>3, <4>4
        <5> HIDE DEF Owned, Queued
        <5> QED BY <1>2, <5>1, <5>2 DEF OwnedOK
      <4>5. CASE s = r.s /\ r.call = "renew"
        <5>1. leases[s] # None /\ leases'[s].st = leases[s].st
          BY <3>1, <3>3, <4>5
        <5> HIDE DEF Owned, Queued
        <5> QED BY <1>2, <3>3, <4>1, <5>1 DEF OwnedOK
      <4>6. r.call \in {"reserve", "commit", "renew"} \/ s # r.s
        <5>1. r.call \in Calls
          BY <1>3 DEF Request
        <5> QED BY <2>2, <3>1, <3>3, <5>1 DEF Calls
      <4> QED BY <4>2, <4>3, <4>4, <4>5, <4>6
    <3>4. ASSUME NEW s \in Sessions, leases'[s] # None
          PROVE  /\ leases'[s].st = "Active" => Owned(s)'
                 /\ leases'[s].st = "Reserved" /\ Queued("commit", s)' => Owned(s)'
      <4>1. leases'[s].st = "Active" \/ (leases'[s].st = "Reserved" /\ Queued("commit", s)')
              => Owned(s)'
        BY <3>2, <3>3, <3>4
      <4> QED BY <4>1
    <3>5. OwnedOK'
      BY <3>4 DEF OwnedOK
    <3> QED BY <3>1, <3>5
  <2> QED BY <1>1, <2>1, <2>2
<1>9. OwnerType' /\ AcceptOK'
  BY <1>1, <1>2, <1>8, WorkerAnswers
<1>10. AcceptType' /\ LimiterType' /\ PermitsBalance'
  <2>1. AcceptType' /\ (HoldsPermit' <=> HoldsPermit) /\ acc'.src = acc.src
    BY <1>1, <1>2 DEF AcceptType, HoldsPermit
  <2> QED BY <1>1, <1>2, <2>1, PermitKept
<1>11. MapsType'
  BY <1>2, <1>6 DEF MapsType
<1> QED BY <1>1, <1>2, <1>8, <1>9, <1>10, <1>11 DEF RuntimeInv, TypeOK

-----------------------------------------------------------------------------
\* The invariant and what follows from it

LEMMA InitKeeps ==
  ASSUME GatewayBounds, Init
  PROVE  RuntimeInv
<1>1. /\ now = 0 /\ sweeper = FALSE /\ life = "up" /\ redeemed = {}
      /\ sessions = [s \in Sessions |-> None] /\ admissions = [s \in Sessions |-> None]
      /\ owed = {} /\ leases = [s \in Sessions |-> None] /\ missed = {}
      /\ queue = <<>> /\ reply = [a \in Actors |-> None]
      /\ sources = [x \in Sources |-> None] /\ in_flight = 0
      /\ acc = NoAccept /\ tasks = [t \in Tickets |-> None]
  BY DEF Init, SweepsStarted
<1>2. queue \in Seq(Request) /\ Len(queue) = 0 /\ DOMAIN queue = {}
  BY <1>1
<1>3. MapsType /\ PoolType /\ OwnerType /\ LimiterType
  BY <1>1, <1>2 DEF MapsType, PoolType, OwnerType, LimiterType
<1>4. AcceptType /\ acc.pc = "top"
  BY <1>1 DEF AcceptType, Accept, NoAccept
<1>5. TypeOK
  BY <1>1, <1>3, <1>4 DEF TypeOK
<1>6. PermitsBalance
  BY <1>1, <1>4 DEF PermitsBalance, HoldsPermit
<1>7. AcceptOK
  BY <1>2, <1>4 DEF AcceptOK
<1>8. OwnedOK
  BY <1>1 DEF OwnedOK
<1> QED BY <1>5, <1>6, <1>7, <1>8 DEF RuntimeInv

\* Every operation of the gateway keeps the invariant.
THEOREM NextKeeps ==
  ASSUME GatewayBounds, RuntimeInv, [Next]_vars
  PROVE  RuntimeInv'
<1>1. CASE Accepting
  <2>1. CASE \E t \in Tickets, src \in Sources : Arrives(t, src)
    BY <2>1, ArrivesKeeps
  <2>2. CASE AcceptStarts \/ Handshake \/ HelloFails \/ Hello \/ Admit \/ ConsumeFails
    BY <2>2, AcceptStartsKeeps, HandshakeKeeps, HelloFailsKeeps, HelloKeeps, AdmitKeeps,
       ConsumeFailsKeeps
  <2>3. CASE Consume \/ ReserveFails \/ Bind \/ Unbind \/ Commit \/ Unwind \/ Write
    BY <2>3, ConsumeKeeps, ReserveFailsKeeps, BindKeeps, CommitKeeps, UnwindKeeps, WriteKeeps
  <2> QED BY <1>1, <2>1, <2>2, <2>3 DEF Accepting
<1>2. CASE Controlling
  <2>1. PICK t \in Tickets :
          \/ \E kind \in {"renew", "close", "other"} : TaskReads(t, kind)
          \/ TaskFails(t) \/ TaskSwept(t) \/ TaskRenewed(t) \/ TaskAnswers(t) \/ JoinTask(t)
    BY <1>2 DEF Controlling
  <2>2. CASE \E kind \in {"renew", "close", "other"} : TaskReads(t, kind)
    BY <2>2, TaskReadsKeeps
  <2>3. CASE TaskFails(t) \/ TaskSwept(t) \/ TaskRenewed(t) \/ TaskAnswers(t) \/ JoinTask(t)
    BY <2>3, TaskFailsKeeps, TaskSweptKeeps, TaskRenewedKeeps, TaskAnswersKeeps, JoinTaskKeeps
  <2> QED BY <2>1, <2>2, <2>3
<1>3. CASE \E a \in Actors : Timeout(a)
  BY <1>3, TimeoutKeeps
<1> QED BY <1>1, <1>2, <1>3, SweepingKeeps, StoppingKeeps, WorkerKeeps, TickKeeps,
           StutterKeeps DEF Next

\* RuntimeInv holds in every reachable state, for any tickets, sessions,
\* sources, capacities and times.
THEOREM Inductive == Spec => []RuntimeInv
<1>1. Init => RuntimeInv
  BY GatewayAssumption, InitKeeps
<1>2. RuntimeInv /\ [Next]_vars => RuntimeInv'
  BY GatewayAssumption, NextKeeps
<1> QED BY <1>1, <1>2, PTL DEF Spec

\* The variables stay in their ranges, whatever fails, times out or is dropped.
THEOREM TypeCorrect == Spec => []TypeOK
<1>1. RuntimeInv => TypeOK
  BY DEF RuntimeInv
<1> QED BY <1>1, Inductive, PTL

\* HandshakeLimiter: the permits counted are the permits held, also when the
\* accept future is dropped by the select! of run or by stop.
THEOREM Balanced == Spec => []PermitsBalance
<1>1. RuntimeInv => PermitsBalance
  BY DEF RuntimeInv
<1> QED BY <1>1, Inductive, PTL

\* An Active lease of the pool is owed back by a live session, a pending
\* cleanup or a queued release, with the one exception the history records:
\* a release_deferred that met the worker inside a call of the same session.
THEOREM ActivesOwned == Spec => []ActiveOwned
<1>1. RuntimeInv => ActiveOwned
  <2> SUFFICES ASSUME RuntimeInv, NEW s \in Sessions, leases[s] # None,
                      leases[s].st = "Active"
               PROVE  \/ s \in Live \cup owed \cup missed
                      \/ \E i \in DOMAIN queue : queue[i].call = "release" /\ queue[i].s = s
    BY DEF ActiveOwned
  <2>1. Owned(s)
    BY DEF RuntimeInv, OwnedOK
  <2> QED BY <2>1 DEF Owned, Queued
<1> QED BY <1>1, Inductive, PTL
=============================================================================
