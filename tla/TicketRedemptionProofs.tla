------------------------ MODULE TicketRedemptionProofs ------------------------
(***************************************************************************)
(* Proofs about TicketRedemption for any tickets, tasks, capacities and    *)
(* clocks with ReplyWithin <= Skew.                                        *)
(*                                                                         *)
(* The argument: an accepted ticket stays in memory (while the gateway     *)
(* runs) and in the journal until Expiry + Skew.  A request whose caller   *)
(* still waits is at most ReplyWithin <= Skew old, and its ticket was valid*)
(* when it was queued; so when the worker runs it, the entry of an earlier *)
(* acceptance cannot have been dropped yet, and the request is refused.    *)
(***************************************************************************)
EXTENDS TicketRedemption, TLAPS, FiniteSetTheorems, SequenceTheorems

\* Dropping expired entries gives a map of the same type without new entries.
LEMMA RetainedType ==
  ASSUME NEW m \in [Tickets -> Nat \cup {None}], NEW t \in Nat
  PROVE  /\ Retained(m, t) \in [Tickets -> Nat \cup {None}]
         /\ \A k \in Tickets :
              /\ Retained(m, t)[k] # None =>
                   Retained(m, t)[k] = m[k] /\ m[k] # None /\ m[k] > t
              /\ m[k] # None /\ m[k] > t => Retained(m, t)[k] = m[k]
BY DEF Retained

\* Writing the cache to the journal keeps every entry, as its ticket's expiry.
LEMMA EncodedType ==
  ASSUME NEW m \in [Tickets -> Nat \cup {None}],
         \A k \in Tickets : m[k] # None => m[k] = Expiry[k] + Skew
  PROVE  /\ Encoded(m) \in [Tickets -> Nat \cup {None}]
         /\ \A k \in Tickets :
              /\ Encoded(m)[k] # None => Encoded(m)[k] = Expiry[k]
              /\ Encoded(m)[k] # None <=> m[k] # None
         /\ Redeemed(Encoded(m)) = Redeemed(m)
<1>1. ASSUME NEW k \in Tickets, m[k] # None
      PROVE  m[k] - Skew = Expiry[k] /\ m[k] - Skew \in Nat /\ m[k] - Skew # None
  BY <1>1, TicketAssumption, RedemptionBounds, RedemptionNone
<1> QED
  BY <1>1 DEF Encoded, Redeemed

\* Reading the journal gives back the entries that are not yet expired.
LEMMA LoadedType ==
  ASSUME NEW f \in [Tickets -> Nat \cup {None}], NEW t \in Nat,
         \A k \in Tickets : f[k] # None => f[k] = Expiry[k]
  PROVE  /\ Loaded(f, t) \in [Tickets -> Nat \cup {None}]
         /\ \A k \in Tickets :
              /\ Loaded(f, t)[k] # None => Loaded(f, t)[k] = Expiry[k] + Skew
              /\ f[k] # None => Loaded(f, t)[k] # None \/ t >= Expiry[k] + Skew
<1>1. ASSUME NEW k \in Tickets
      PROVE  Expiry[k] \in Nat /\ Expiry[k] + Skew \in Nat /\ Expiry[k] + Skew # None
             /\ (Expiry[k] + Skew > t \/ t >= Expiry[k] + Skew)
  BY TicketAssumption, RedemptionBounds, RedemptionNone
<1> QED
  BY <1>1 DEF Loaded

\* The state before the gateway first starts satisfies the invariant.
LEMMA InitInv == Init => IndInv
<1> SUFFICES ASSUME Init PROVE IndInv
  OBVIOUS
<1>1. TypeOK
  <2>1. queue \in Seq(Request)
    BY EmptySeq DEF Init
  <2>2. up \in BOOLEAN /\ open \in BOOLEAN
    BY Zenon DEF Init
  <2> QED
    BY <2>1, <2>2 DEF Init, TypeOK, NoEntries
<1>2. EntriesOK /\ DurableRedemption /\ AdmittedOnce
  BY DEF Init, EntriesOK, DurableRedemption, AdmittedOnce, NoEntries
<1>3. RequestsOK /\ OneRequestEach
  BY DEF Init, RequestsOK, OneRequestEach
<1> QED
  BY <1>1, <1>2, <1>3 DEF IndInv

\* Queueing a request: it is valid and its caller waits from now on.
LEMMA SubmitInv ==
  ASSUME IndInv, NEW w \in Tasks, NEW k \in Tickets, NEW t \in 0 .. now,
         Submit(w, k, t)
  PROVE  IndInv'
<1> DEFINE r == [ticket |-> k, at |-> t, task |-> w]
<1>r. r \in Request /\ t \in Nat /\ now \in Nat
  BY DEF Request, IndInv, TypeOK
<1>q. queue \in Seq(Request) /\ queue' = Append(queue, r)
  BY DEF IndInv, TypeOK, Submit
<1>l. /\ Len(queue') = Len(queue) + 1
      /\ \A i \in 1 .. Len(queue) : queue'[i] = queue[i]
      /\ queue'[Len(queue) + 1] = r
      /\ queue' \in Seq(Request)
  BY <1>r, <1>q, AppendProperties
<1>d. /\ \A i \in 1 .. Len(queue) : queue[i].task # w
      /\ working # None => working.task # w
  <2>1. \A i \in 1 .. Len(queue) : queue[i] \in Request /\ RequestOK(queue[i])
    BY <1>q, ElementOfSeq DEF IndInv, RequestsOK
  <2>2. working # None => working \in Request /\ RequestOK(working)
    BY DEF IndInv, TypeOK, RequestsOK
  <2>3. waiting[w] = None
    BY DEF Submit
  <2> QED
    BY <2>1, <2>2, <2>3, RedemptionNone DEF RequestOK, Request
<1>1. TypeOK'
  BY <1>l, <1>r DEF IndInv, TypeOK, Submit
<1>2. EntriesOK'
  BY <1>r, RedemptionBounds, RedemptionNone DEF IndInv, TypeOK, EntriesOK, Submit
<1>3. RequestsOK'
  <2>1. \A i \in 1 .. Len(queue) : RequestOK(queue[i])'
    <3> SUFFICES ASSUME NEW i \in 1 .. Len(queue)
                 PROVE RequestOK(queue[i])'
      OBVIOUS
    <3>1. queue[i] \in Request /\ RequestOK(queue[i]) /\ queue'[i] = queue[i]
      BY <1>l, <1>q, ElementOfSeq DEF IndInv, RequestsOK
    <3>2. queue[i].task # w
      BY <3>1, <1>d
    <3> QED
      BY <3>1, <3>2 DEF RequestOK, Submit, IndInv, TypeOK, Request
  <2>2. /\ r.at <= now' /\ r.at < Expiry[r.ticket]
        /\ waiting'[r.task] = r.at
    BY RedemptionNone DEF Submit, IndInv, TypeOK
  <2>3. \A i \in 1 .. Len(queue') : RequestOK(queue[i])'
    <3> SUFFICES ASSUME NEW i \in 1 .. Len(queue')
                 PROVE RequestOK(queue[i])'
      OBVIOUS
    <3>1. Len(queue) \in Nat
      BY <1>q, LenProperties
    <3>2. CASE i \in 1 .. Len(queue)
      BY <3>2, <2>1
    <3>3. CASE i = Len(queue) + 1
      <4>1. queue'[i] = r
        BY <3>3, <1>l
      <4>2. /\ queue'[i].at <= now' /\ queue'[i].at < Expiry[queue'[i].ticket]
            /\ waiting'[queue'[i].task] = queue'[i].at
        BY <4>1, <2>2
      <4> QED
        BY <4>2 DEF RequestOK
    <3> QED
      BY <3>1, <3>2, <3>3, <1>l
  <2> QED
    BY <2>3, <1>d DEF IndInv, TypeOK, RequestsOK, RequestOK, Submit, Request
<1>5. OneRequestEach'
  <2>1. Len(queue) \in Nat /\ w # None
    BY <1>q, LenProperties, RedemptionNone
  <2>2. \A i, j \in 1 .. Len(queue') :
          i # j /\ queue'[i].task # None => queue'[i].task # queue'[j].task
    BY <2>1, <1>l, <1>d DEF IndInv, OneRequestEach
  <2>3. working' = working
    BY DEF Submit
  <2> QED
    BY <2>1, <2>2, <2>3, <1>l, <1>d DEF IndInv, OneRequestEach
<1>4. DurableRedemption' /\ AdmittedOnce'
  BY DEF IndInv, DurableRedemption, AdmittedOnce, Submit
<1> QED
  BY <1>1, <1>2, <1>3, <1>4, <1>5 DEF IndInv

\* Giving up: the request stays, without a caller.
LEMMA TimeoutInv ==
  ASSUME IndInv, NEW w \in Tasks, Timeout(w)
  PROVE  IndInv'
<1> DEFINE A(r) == Abandon(r, w)
<1>a. \A r \in Request :
        /\ A(r) \in Request
        /\ A(r).at = r.at /\ A(r).ticket = r.ticket
        /\ A(r).task = IF r.task = w THEN None ELSE r.task
  BY DEF Abandon, Request
<1>q. /\ queue \in Seq(Request)
      /\ Len(queue) \in Nat
      /\ DOMAIN queue = 1 .. Len(queue)
      /\ \A i \in 1 .. Len(queue) : queue[i] \in Request
      /\ queue' = [i \in 1 .. Len(queue) |-> A(queue[i])]
  BY ElementOfSeq, LenProperties DEF IndInv, TypeOK, Timeout
<1> HIDE DEF A
<1>l. queue' \in Seq(Request) /\ Len(queue') = Len(queue)
  <2>1. \A i \in 1 .. Len(queue) : A(queue[i]) \in Request
    BY <1>a, <1>q
  <2> QED
    BY <2>1, <1>q, IsASeq, LenProperties
<1>w. /\ waiting \in [Tasks -> Nat \cup {None}]
      /\ waiting' = [waiting EXCEPT ![w] = None]
  BY DEF IndInv, TypeOK, Timeout
<1>r. ASSUME NEW r \in Request, RequestOK(r)
      PROVE  /\ A(r).at <= now' /\ A(r).at < Expiry[A(r).ticket]
             /\ A(r).task # None => waiting'[A(r).task] = A(r).at
  BY <1>r, <1>a, <1>w, RedemptionNone DEF RequestOK, Request, Timeout
<1>k. working' = IF working = None THEN None ELSE A(working)
  BY DEF Timeout, A
<1>1. TypeOK'
  <2>1. working' \in Request \cup {None}
    BY <1>k, <1>a DEF IndInv, TypeOK
  <2> QED
    BY <2>1, <1>l, <1>w DEF IndInv, TypeOK, Timeout
<1>2. EntriesOK'
  BY <1>w DEF IndInv, TypeOK, EntriesOK, Timeout
<1>3. RequestsOK'
  <2>1. \A i \in 1 .. Len(queue') : RequestOK(queue[i])'
    BY <1>r, <1>q, <1>l DEF RequestOK, IndInv, RequestsOK
  <2>2. ASSUME working' # None
        PROVE  /\ RequestOK(working)'
               /\ entries'[working'.ticket] # None
               /\ up'
               /\ working'.task # None => admitted'[working'.ticket] = 0
               /\ admitted'[working'.ticket] > 0 =>
                    now' >= Expiry[working'.ticket] + Skew
    <3>1. working \in Request /\ working' = A(working)
      BY <2>2, <1>k DEF IndInv, TypeOK
    <3>2. /\ RequestOK(working) /\ entries[working.ticket] # None /\ up
          /\ working.task # None => admitted[working.ticket] = 0
          /\ admitted[working.ticket] > 0 =>
               now >= Expiry[working.ticket] + Skew
      BY <3>1, <2>2, <1>k DEF IndInv, RequestsOK
    <3>3. RequestOK(working)'
      BY <3>1, <3>2, <1>r DEF RequestOK
    <3> QED
      BY <3>1, <3>2, <3>3, <1>a DEF Timeout
  <2> QED
    BY <2>1, <2>2 DEF RequestsOK
<1>4. DurableRedemption' /\ AdmittedOnce'
  BY DEF IndInv, DurableRedemption, AdmittedOnce, Timeout
<1>5. OneRequestEach'
  <2>1. \A i \in 1 .. Len(queue) :
          /\ queue'[i] = A(queue[i])
          /\ queue'[i].task = IF queue[i].task = w THEN None ELSE queue[i].task
    BY <1>a, <1>q
  <2>2. working' # None =>
          working'.task = IF working.task = w THEN None ELSE working.task
    BY <1>a, <1>k DEF IndInv, TypeOK
  <2>3. working' # None => working # None
    BY <1>k
  <2> QED
    BY <2>1, <2>2, <2>3, <1>l DEF IndInv, OneRequestEach
<1> QED
  BY <1>1, <1>2, <1>3, <1>4, <1>5 DEF IndInv


\* A request that is still waited for and whose ticket was accepted before
\* finds the entry: memory has not dropped it, and the request's own time does
\* not drop it either.
LEMMA StillRetained ==
  ASSUME IndInv, up, NEW r \in Request, RequestOK(r), r.task # None,
         admitted[r.ticket] > 0
  PROVE  Retained(entries, r.at)[r.ticket] # None
<1> DEFINE k == r.ticket
<1>1. k \in Tickets /\ r.at \in Nat /\ Expiry[k] \in Nat /\ r.task \in Tasks
      /\ now \in Nat /\ Skew \in Nat /\ ReplyWithin \in Nat
  BY TicketAssumption, RedemptionBounds DEF Request, IndInv, TypeOK
<1>2. r.at < Expiry[k] /\ waiting[r.task] = r.at
  BY DEF RequestOK
<1>3. now <= r.at + ReplyWithin
  BY <1>1, <1>2, RedemptionNone DEF IndInv, EntriesOK
<1>4. now < Expiry[k] + Skew
  BY <1>1, <1>2, <1>3, ReplyBelowSkew
<1>5. entries[k] # None /\ entries[k] = Expiry[k] + Skew
  BY <1>1, <1>4 DEF IndInv, EntriesOK
<1>6. entries[k] > r.at
  BY <1>1, <1>2, <1>5
<1>7. entries \in [Tickets -> Nat \cup {None}]
  BY DEF IndInv, TypeOK
<1> QED
  BY <1>1, <1>5, <1>6, <1>7, RetainedType

\* What dropping expired entries with an old time keeps of the invariant.
LEMMA RetainedEntries ==
  ASSUME IndInv, up, NEW t \in Nat, t <= now
  PROVE  \A k \in Tickets :
           /\ Retained(entries, t)[k] # None =>
                Retained(entries, t)[k] = Expiry[k] + Skew
           /\ admitted[k] > 0 =>
                Retained(entries, t)[k] # None \/ now >= Expiry[k] + Skew
<1> SUFFICES ASSUME NEW k \in Tickets
             PROVE  /\ Retained(entries, t)[k] # None =>
                         Retained(entries, t)[k] = Expiry[k] + Skew
                    /\ admitted[k] > 0 =>
                         Retained(entries, t)[k] # None \/ now >= Expiry[k] + Skew
  OBVIOUS
<1>1. entries \in [Tickets -> Nat \cup {None}] /\ now \in Nat
  BY DEF IndInv, TypeOK
<1>2. /\ entries[k] # None => entries[k] = Expiry[k] + Skew
      /\ admitted[k] > 0 => entries[k] # None \/ now >= Expiry[k] + Skew
      /\ Expiry[k] + Skew \in Nat
  BY TicketAssumption, RedemptionBounds DEF IndInv, EntriesOK
<1> QED
  BY <1>1, <1>2, RetainedType

\* Answering the request r: its caller stops waiting; no other request loses
\* its caller.
LEMMA OthersKept ==
  ASSUME IndInv, NEW r \in Request, NEW x \in Request, RequestOK(x),
         now' = now,
         waiting' = IF r.task = None THEN waiting
                    ELSE [waiting EXCEPT ![r.task] = None],
         r.task # None => x.task # r.task
  PROVE  /\ x.at <= now' /\ x.at < Expiry[x.ticket]
         /\ x.task # None => waiting'[x.task] = x.at
BY DEF IndInv, TypeOK, RequestOK, Request

\* The worker takes a request, refuses it or inserts its ticket.
LEMMA WorkInv ==
  ASSUME IndInv, Work
  PROVE  IndInv'
<1> DEFINE r == Head(queue)
           kept == Retained(entries, r.at)
           refused == kept[r.ticket] # None \/ Cardinality(Redeemed(kept)) >= Capacity
<1>q. /\ queue \in Seq(Request) /\ queue # <<>>
      /\ r \in Request
      /\ queue' = Tail(queue) /\ queue' \in Seq(Request)
      /\ Len(queue) \in Nat /\ Len(queue) >= 1
      /\ Len(queue') = Len(queue) - 1
      /\ \A i \in 1 .. Len(queue') : queue'[i] = queue[i + 1]
      /\ r = queue[1]
  BY HeadTailProperties, LenProperties, EmptySeq DEF IndInv, TypeOK, Work
<1>r. /\ RequestOK(r)
      /\ r.at \in Nat /\ r.ticket \in Tickets /\ r.at <= now
  BY <1>q DEF IndInv, RequestsOK, RequestOK, Request
<1>c. /\ up /\ working = None /\ now' = now /\ up' = up /\ open' = open
      /\ file' = file /\ Consume(r)
  BY DEF Work
<1>k. /\ kept \in [Tickets -> Nat \cup {None}]
      /\ \A k \in Tickets :
           /\ kept[k] # None => kept[k] = Expiry[k] + Skew
           /\ admitted[k] > 0 => kept[k] # None \/ now >= Expiry[k] + Skew
  BY <1>r, <1>c, RetainedEntries, RetainedType DEF IndInv, TypeOK
<1>o. \A i \in 1 .. Len(queue') :
        /\ queue'[i] \in Request
        /\ RequestOK(queue'[i])
        /\ r.task # None => queue'[i].task # r.task
  <2> SUFFICES ASSUME NEW i \in 1 .. Len(queue')
               PROVE  /\ queue'[i] \in Request
                      /\ RequestOK(queue'[i])
                      /\ r.task # None => queue'[i].task # r.task
    OBVIOUS
  <2>1. i + 1 \in 1 .. Len(queue) /\ 1 \in 1 .. Len(queue) /\ i + 1 # 1
    BY <1>q
  <2>2. queue[i + 1] \in Request /\ RequestOK(queue[i + 1])
    BY <2>1, <1>q, ElementOfSeq DEF IndInv, RequestsOK
  <2>3. r.task # None => r.task # queue[i + 1].task
    BY <2>1, <1>q DEF IndInv, OneRequestEach
  <2> QED
    BY <2>2, <2>3, <1>q
<1>u. \A i, j \in 1 .. Len(queue') :
        i # j /\ queue'[i].task # None => queue'[i].task # queue'[j].task
  <2> SUFFICES ASSUME NEW i \in 1 .. Len(queue'), NEW j \in 1 .. Len(queue'),
                      i # j, queue'[i].task # None
               PROVE  queue'[i].task # queue'[j].task
    OBVIOUS
  <2>1. i + 1 \in 1 .. Len(queue) /\ j + 1 \in 1 .. Len(queue) /\ i + 1 # j + 1
    BY <1>q
  <2> QED
    BY <2>1, <1>q DEF IndInv, OneRequestEach
<1> HIDE DEF kept, r
<1>1. CASE refused
  <2>1. /\ entries' = kept /\ working' = None
        /\ waiting' = IF r.task = None THEN waiting
                      ELSE [waiting EXCEPT ![r.task] = None]
        /\ admitted' = admitted
    BY <1>1, <1>c DEF Consume, Reply, kept
  <2>2. TypeOK'
    BY <2>1, <1>k, <1>q, <1>c DEF IndInv, TypeOK, Request
  <2>3. EntriesOK'
    BY <2>1, <1>k, <1>c, <1>q DEF IndInv, TypeOK, EntriesOK, Request
  <2>4. RequestsOK'
    <3>1. \A i \in 1 .. Len(queue') : RequestOK(queue[i])'
      BY <2>1, <1>c, <1>q, <1>o, OthersKept DEF RequestOK
    <3> QED
      BY <3>1, <2>1 DEF RequestsOK
  <2>5. OneRequestEach'
    BY <2>1, <1>u DEF OneRequestEach
  <2>6. DurableRedemption' /\ AdmittedOnce'
    BY <2>1, <1>c DEF IndInv, DurableRedemption, AdmittedOnce
  <2> QED
    BY <2>2, <2>3, <2>4, <2>5, <2>6 DEF IndInv
<1>2. CASE ~refused
  <2>1. /\ entries' = [kept EXCEPT ![r.ticket] = RetainedUntil(r.ticket)]
        /\ working' = r
        /\ waiting' = waiting /\ admitted' = admitted
    BY <1>2, <1>c DEF Consume, kept
  <2>t. /\ RetainedUntil(r.ticket) = Expiry[r.ticket] + Skew
        /\ RetainedUntil(r.ticket) \in Nat
        /\ RetainedUntil(r.ticket) # None
    BY <1>r, TicketAssumption, RedemptionBounds, RedemptionNone DEF RetainedUntil
  <2>2. TypeOK'
    BY <2>1, <2>t, <1>k, <1>q, <1>c, <1>r DEF IndInv, TypeOK, Request
  <2>3. EntriesOK'
    <3>1. \A k \in Tickets :
            /\ entries'[k] # None => entries'[k] = Expiry[k] + Skew
            /\ admitted'[k] > 0 => entries'[k] # None \/ now' >= Expiry[k] + Skew
      BY <2>1, <2>t, <1>k, <1>c, <1>r
    <3> QED
      BY <3>1, <2>1, <1>c DEF IndInv, EntriesOK
  <2>4. RequestsOK'
    <3>1. \A i \in 1 .. Len(queue') : RequestOK(queue[i])'
      BY <2>1, <1>c, <1>o DEF RequestOK
    <3>2. r.task # None => admitted[r.ticket] = 0
      <4> SUFFICES ASSUME r.task # None, admitted[r.ticket] # 0 PROVE FALSE
        OBVIOUS
      <4>1. admitted[r.ticket] > 0
        BY <1>r DEF IndInv, TypeOK
      <4>2. kept[r.ticket] # None
        BY <4>1, <1>r, <1>c, <1>q, StillRetained DEF kept
      <4> QED
        BY <4>2, <1>2
    <3>3. RequestOK(working)'
      BY <2>1, <1>c, <1>r DEF RequestOK
    <3>4. entries'[working'.ticket] # None
      BY <2>1, <2>t, <1>k, <1>r
    <3>5. admitted[r.ticket] > 0 => now >= Expiry[r.ticket] + Skew
      BY <1>2, <1>k, <1>r
    <3> QED
      BY <3>1, <3>2, <3>3, <3>4, <3>5, <2>1, <1>c DEF RequestsOK
  <2>5. OneRequestEach'
    BY <2>1, <1>u, <1>o DEF OneRequestEach
  <2>6. DurableRedemption' /\ AdmittedOnce'
    BY <2>1, <1>c DEF IndInv, DurableRedemption, AdmittedOnce
  <2> QED
    BY <2>2, <2>3, <2>4, <2>5, <2>6 DEF IndInv
<1> QED
  BY <1>1, <1>2

\* The journal write ends.  On success the caller, if it still waits, accepts
\* a ticket nobody accepted before; a failure forgets a ticket that nobody
\* accepted or nobody can present any more.
LEMMA WriteInv ==
  ASSUME IndInv, Write
  PROVE  IndInv'
<1> DEFINE r == working
           k == working.ticket
<1>r. /\ r \in Request /\ k \in Tickets /\ r.task \in Tasks \cup {None}
      /\ RequestOK(r) /\ up /\ entries[k] # None
      /\ r.task # None => admitted[k] = 0
      /\ admitted[k] > 0 => now >= Expiry[k] + Skew
  BY DEF IndInv, TypeOK, RequestsOK, Write, Request
<1>c. /\ working' = None /\ now' = now /\ up' = up /\ open' = open /\ queue' = queue
      /\ waiting' = IF r.task = None THEN waiting
                    ELSE [waiting EXCEPT ![r.task] = None]
  BY DEF Write, Reply
<1>q. \A i \in 1 .. Len(queue) :
        /\ queue[i] \in Request /\ RequestOK(queue[i])
        /\ r.task # None => queue[i].task # r.task
  BY ElementOfSeq DEF IndInv, TypeOK, RequestsOK, OneRequestEach, Write
<1>w. waiting' \in [Tasks -> Nat \cup {None}]
      /\ \A w \in Tasks : waiting'[w] # None => waiting'[w] = waiting[w]
  BY <1>c, <1>r DEF IndInv, TypeOK
<1>1. RequestsOK' /\ OneRequestEach'
  <2>1. \A i \in 1 .. Len(queue') : RequestOK(queue[i])'
    BY <1>c, <1>q, <1>r, OthersKept DEF RequestOK
  <2> QED
    BY <2>1, <1>c DEF RequestsOK, OneRequestEach, IndInv
<1>t. /\ entries \in [Tickets -> Nat \cup {None}]
      /\ file \in [Tickets -> Nat \cup {None}]
      /\ admitted \in [Tickets -> Nat] /\ now \in Nat
      /\ up \in BOOLEAN /\ open \in BOOLEAN /\ queue \in Seq(Request)
  BY DEF IndInv, TypeOK
<1>e. /\ \A x \in Tickets :
           /\ entries[x] # None => entries[x] = Expiry[x] + Skew
           /\ file[x] # None => file[x] = Expiry[x]
           /\ admitted[x] > 0 => entries[x] # None \/ now >= Expiry[x] + Skew
           /\ admitted[x] > 0 => file[x] # None \/ now >= Expiry[x] + Skew
           /\ admitted[x] <= 1
      /\ \A w \in Tasks : waiting[w] # None =>
           waiting[w] <= now /\ now <= waiting[w] + ReplyWithin
  BY <1>r DEF IndInv, EntriesOK, DurableRedemption, AdmittedOnce
<1> DEFINE written == Encoded(entries)
<1>f. /\ written \in [Tickets -> Nat \cup {None}]
      /\ \A x \in Tickets :
           /\ written[x] # None => written[x] = Expiry[x]
           /\ written[x] # None <=> entries[x] # None
  BY <1>t, <1>e, EncodedType
<1> HIDE DEF r, k, written
<1>2. CASE /\ file' = written /\ entries' = entries
           /\ admitted' = IF r.task # None THEN [admitted EXCEPT ![k] = @ + 1]
                          ELSE admitted
  <2>1. \A x \in Tickets :
          /\ admitted'[x] \in Nat /\ admitted'[x] <= 1
          /\ admitted'[x] > 0 => entries'[x] # None \/ now >= Expiry[x] + Skew
          /\ file'[x] # None => file'[x] = Expiry[x]
          /\ admitted'[x] > 0 => file'[x] # None \/ now >= Expiry[x] + Skew
    BY <1>2, <1>r, <1>t, <1>e, <1>f
  <2>2. admitted' \in [Tickets -> Nat]
    BY <1>2, <1>r, <1>t
  <2>3. TypeOK'
    BY <2>2, <1>2, <1>c, <1>f, <1>w, <1>t DEF TypeOK
  <2>4. EntriesOK'
    BY <2>1, <1>2, <1>c, <1>w, <1>e DEF EntriesOK
  <2>5. DurableRedemption' /\ AdmittedOnce'
    BY <2>1, <1>2, <1>c DEF DurableRedemption, AdmittedOnce
  <2> QED
    BY <2>3, <2>4, <2>5, <1>1 DEF IndInv
<1>3. CASE /\ file' = file \/ file' = written
           /\ entries' = [entries EXCEPT ![k] = None]
           /\ admitted' = admitted
  <2>1. \A x \in Tickets :
          /\ entries'[x] # None => entries'[x] = Expiry[x] + Skew
          /\ admitted'[x] > 0 => entries'[x] # None \/ now >= Expiry[x] + Skew
    BY <1>3, <1>r, <1>t, <1>e
  <2>2. /\ entries' \in [Tickets -> Nat \cup {None}]
        /\ file' \in [Tickets -> Nat \cup {None}]
    BY <1>3, <1>r, <1>t, <1>f
  <2>3. TypeOK'
    BY <2>2, <1>3, <1>c, <1>w, <1>t DEF TypeOK
  <2>6. \A x \in Tickets :
          /\ file'[x] # None => file'[x] = Expiry[x]
          /\ admitted'[x] > 0 => file'[x] # None \/ now >= Expiry[x] + Skew
    BY <1>3, <1>e, <1>f
  <2>4. EntriesOK'
    BY <2>1, <2>6, <1>3, <1>c, <1>w, <1>e DEF EntriesOK
  <2>5. DurableRedemption' /\ AdmittedOnce'
    BY <2>6, <1>3, <1>c, <1>e DEF DurableRedemption, AdmittedOnce
  <2> QED
    BY <2>3, <2>4, <2>5, <1>1 DEF IndInv
<1> QED
  BY <1>2, <1>3 DEF Write, Reply, r, k, written

\* Closing the owner changes nothing the invariant speaks of.
LEMMA StopInv ==
  ASSUME IndInv, Stop
  PROVE  IndInv'
<1>1. TypeOK'
  <2>1. open' \in BOOLEAN
    BY Zenon DEF Stop
  <2> QED
    BY <2>1 DEF Stop, IndInv, TypeOK
<1>2. EntriesOK' /\ DurableRedemption' /\ AdmittedOnce'
  BY DEF Stop, IndInv, EntriesOK, DurableRedemption, AdmittedOnce
<1>3. RequestsOK' /\ OneRequestEach'
  BY DEF Stop, IndInv, RequestsOK, OneRequestEach, RequestOK
<1> QED
  BY <1>1, <1>2, <1>3 DEF IndInv

\* A crash loses memory and requests; the journal keeps what was accepted.
LEMMA CrashInv ==
  ASSUME IndInv, Crash
  PROVE  IndInv'
<1>1. TypeOK'
  <2>1. up' \in BOOLEAN /\ open' \in BOOLEAN
    BY Zenon DEF Crash
  <2>2. queue' \in Seq(Request)
    BY EmptySeq DEF Crash
  <2> QED
    BY <2>1, <2>2 DEF Crash, IndInv, TypeOK, NoEntries
<1>2. EntriesOK' /\ DurableRedemption' /\ AdmittedOnce'
  BY DEF Crash, IndInv, EntriesOK, DurableRedemption, AdmittedOnce, NoEntries
<1>3. RequestsOK' /\ OneRequestEach'
  BY DEF Crash, RequestsOK, OneRequestEach
<1> QED
  BY <1>1, <1>2, <1>3 DEF IndInv

\* Opening drops only entries whose ticket can no longer be presented.
LEMMA OpenInv ==
  ASSUME IndInv, Open
  PROVE  IndInv'
<1> DEFINE loaded == Loaded(file, now)
           written == Encoded(loaded)
<1>c. /\ now' = now /\ queue' = queue /\ working' = working
      /\ waiting' = waiting /\ admitted' = admitted
      /\ file' = written /\ ~up
      /\ entries' = entries \/ entries' = loaded
      /\ (up' /\ entries' = loaded) \/ ~up'
  BY DEF Open
<1>b. up' \in BOOLEAN /\ open' \in BOOLEAN
  BY DEF Open, IndInv, TypeOK
<1>t. file \in [Tickets -> Nat \cup {None}] /\ now \in Nat
  BY DEF IndInv, TypeOK
<1>l. /\ loaded \in [Tickets -> Nat \cup {None}]
      /\ \A x \in Tickets :
           /\ loaded[x] # None => loaded[x] = Expiry[x] + Skew
           /\ admitted[x] > 0 => loaded[x] # None \/ now >= Expiry[x] + Skew
  BY <1>t, LoadedType DEF IndInv, EntriesOK, DurableRedemption
<1>f. /\ written \in [Tickets -> Nat \cup {None}]
      /\ \A x \in Tickets :
           /\ written[x] # None => written[x] = Expiry[x]
           /\ admitted[x] > 0 => written[x] # None \/ now >= Expiry[x] + Skew
  BY <1>l, EncodedType
<1>w. working = None
  BY <1>c DEF IndInv, RequestsOK
<1> HIDE DEF loaded, written
<1>1. TypeOK'
  <2>1. entries' \in [Tickets -> Nat \cup {None}]
    BY <1>c, <1>l DEF IndInv, TypeOK
  <2> QED
    BY <2>1, <1>b, <1>c, <1>f DEF IndInv, TypeOK
<1>2. EntriesOK'
  BY <1>c, <1>l, <1>f DEF IndInv, EntriesOK
<1>3. DurableRedemption' /\ AdmittedOnce'
  BY <1>c, <1>f DEF IndInv, DurableRedemption, AdmittedOnce
<1>4. RequestsOK' /\ OneRequestEach'
  BY <1>c, <1>w DEF IndInv, RequestsOK, OneRequestEach, RequestOK
<1> QED
  BY <1>1, <1>2, <1>3, <1>4 DEF IndInv

\* Time passes no further than the deadline of a waiting task.
LEMMA TickInv ==
  ASSUME IndInv, Tick
  PROVE  IndInv'
<1>t. now \in Nat /\ now' = now + 1 /\ ReplyWithin \in Nat /\ Skew \in Nat
      /\ waiting \in [Tasks -> Nat \cup {None}]
  BY RedemptionBounds DEF Tick, IndInv, TypeOK
<1>e. \A x \in Tickets : Expiry[x] + Skew \in Nat
  BY TicketAssumption, RedemptionBounds
<1>1. TypeOK'
  BY <1>t DEF Tick, IndInv, TypeOK
<1>2. EntriesOK'
  <2>1. \A x \in Tickets : now >= Expiry[x] + Skew => now' >= Expiry[x] + Skew
    BY <1>t, <1>e
  <2>2. \A w \in Tasks : waiting[w] # None =>
          waiting[w] <= now' /\ now' <= waiting[w] + ReplyWithin
    BY <1>t, RedemptionNone DEF Tick, IndInv, EntriesOK
  <2> QED
    BY <2>1, <2>2 DEF Tick, IndInv, EntriesOK
<1>3. DurableRedemption' /\ AdmittedOnce'
  <2>1. \A x \in Tickets : now >= Expiry[x] + Skew => now' >= Expiry[x] + Skew
    BY <1>t, <1>e
  <2> QED
    BY <2>1 DEF Tick, IndInv, DurableRedemption, AdmittedOnce
<1>4. RequestsOK' /\ OneRequestEach'
  <2>1. \A i \in 1 .. Len(queue) : RequestOK(queue[i])'
    <3> SUFFICES ASSUME NEW i \in 1 .. Len(queue)
                 PROVE RequestOK(queue[i])'
      OBVIOUS
    <3>1. queue[i] \in Request /\ RequestOK(queue[i])
      BY ElementOfSeq DEF IndInv, TypeOK, RequestsOK
    <3> QED
      BY <3>1, <1>t DEF Tick, RequestOK, Request
  <2>2. working # None =>
          /\ RequestOK(working)'
          /\ admitted[working.ticket] > 0 =>
               now' >= Expiry[working.ticket] + Skew
    BY <1>t, <1>e DEF Tick, IndInv, TypeOK, RequestsOK, RequestOK, Request
  <2> QED
    BY <2>1, <2>2 DEF Tick, IndInv, RequestsOK, OneRequestEach
<1> QED
  BY <1>1, <1>2, <1>3, <1>4 DEF IndInv

\* Every step keeps the invariant.
LEMMA NextInv ==
  ASSUME IndInv, [Next]_vars
  PROVE  IndInv'
<1>1. CASE Next
  BY <1>1, SubmitInv, TimeoutInv, WorkInv, WriteInv, StopInv, CrashInv,
     OpenInv, TickInv DEF Next
<1>2. CASE UNCHANGED vars
  BY <1>2 DEF vars, IndInv, TypeOK, EntriesOK, RequestsOK, RequestOK,
     OneRequestEach, DurableRedemption, AdmittedOnce
<1> QED
  BY <1>1, <1>2

\* The inductive invariant holds in every reachable state of the owner, its
\* cache and its journal (PersistenceOwner, ReplayCache).
THEOREM Inductive == Spec => []IndInv
BY InitInv, NextInv, PTL DEF Spec

\* No ticket is accepted twice (ReplayCache::consume), whatever requests run
\* late, writes fail or crashes happen.
THEOREM RedeemedOnce == Spec => []AdmittedOnce
<1>1. IndInv => AdmittedOnce
  BY DEF IndInv
<1> QED
  BY <1>1, Inductive, PTL

\* An accepted ticket is in the journal for as long as it could be presented
\* (ReplayCache::consume replies only after rewrite_replay_journal).
THEOREM Durable == Spec => []DurableRedemption
<1>1. IndInv => DurableRedemption
  BY DEF IndInv
<1> QED
  BY <1>1, Inductive, PTL

\* What a map of entries holds is finite, and fewer entries are fewer.
LEMMA RedeemedFewer ==
  ASSUME NEW m, NEW n, Redeemed(n) \subseteq Redeemed(m)
  PROVE  /\ IsFiniteSet(Redeemed(m)) /\ IsFiniteSet(Redeemed(n))
         /\ Cardinality(Redeemed(m)) \in Nat /\ Cardinality(Redeemed(n)) \in Nat
         /\ Cardinality(Redeemed(n)) <= Cardinality(Redeemed(m))
<1>1. Redeemed(m) \subseteq Tickets
  BY DEF Redeemed
<1>2. IsFiniteSet(Redeemed(m))
  BY <1>1, TicketAssumption, FS_Subset
<1> QED
  BY <1>2, FS_Subset, FS_CardinalityType

\* Neither dropping expired entries nor clearing one adds an entry.
LEMMA NothingAdded ==
  ASSUME NEW m \in [Tickets -> Nat \cup {None}], NEW t, NEW k \in Tickets
  PROVE  /\ Redeemed(Retained(m, t)) \subseteq Redeemed(m)
         /\ Redeemed([m EXCEPT ![k] = None]) \subseteq Redeemed(m)
BY DEF Redeemed, Retained

\* Inserting one ticket adds at most one.
LEMMA OneAdded ==
  ASSUME NEW m \in [Tickets -> Nat \cup {None}], NEW k \in Tickets, NEW v,
         Cardinality(Redeemed(m)) < Capacity
  PROVE  Cardinality(Redeemed([m EXCEPT ![k] = v])) <= Capacity
<1> DEFINE S == Redeemed(m)
           T == Redeemed([m EXCEPT ![k] = v])
<1>1. IsFiniteSet(S) /\ Cardinality(S) \in Nat
  BY RedeemedFewer
<1>2. /\ IsFiniteSet(S \cup {k}) /\ Cardinality(S \cup {k}) \in Nat
      /\ Cardinality(S \cup {k}) <= Cardinality(S) + 1
  BY <1>1, FS_AddElement, FS_CardinalityType
<1>3. T \subseteq S \cup {k}
  BY DEF Redeemed
<1>4. Cardinality(T) \in Nat /\ Cardinality(T) <= Cardinality(S \cup {k})
  BY <1>2, <1>3, FS_Subset, FS_CardinalityType
<1> HIDE DEF S, T
<1>5. Cardinality(S) < Capacity /\ Capacity \in Nat
  BY RedemptionBounds DEF S
<1>6. Cardinality(T) <= Capacity
  BY <1>1, <1>2, <1>4, <1>5
<1> QED
  BY <1>6 DEF T

\* The cache and its journal never exceed the capacity of the cache
\* (ReplayCache::consume refuses a full cache; open_durable an oversized one).
THEOREM Bounded == Spec => []CacheBounded
<1>1. Init => CacheBounded
  <2> SUFFICES ASSUME Init PROVE CacheBounded
    OBVIOUS
  <2>1. Redeemed(NoEntries) = {}
    BY DEF Redeemed, NoEntries
  <2> QED
    BY <2>1, FS_EmptySet, RedemptionBounds DEF Init, CacheBounded
<1>2. ASSUME IndInv, CacheBounded, [Next]_vars
      PROVE  CacheBounded'
  <2>t. /\ entries \in [Tickets -> Nat \cup {None}] /\ now \in Nat
        /\ file \in [Tickets -> Nat \cup {None}]
        /\ Capacity \in Nat
    BY <1>2, RedemptionBounds DEF IndInv, TypeOK
  <2>s. ASSUME NEW m, NEW n, Redeemed(n) \subseteq Redeemed(m),
               Cardinality(Redeemed(m)) <= Capacity
        PROVE  Cardinality(Redeemed(n)) <= Capacity
    BY <2>s, <2>t, RedeemedFewer
  <2>1. CASE UNCHANGED <<entries, file>>
    BY <2>1, <1>2 DEF CacheBounded
  <2>2. CASE Work
    <3> DEFINE r == Head(queue)
               kept == Retained(entries, r.at)
    <3>1. r \in Request /\ file' = file /\ Consume(r)
      BY <2>2, <1>2, HeadTailProperties DEF Work, IndInv, TypeOK
    <3>2. r.at \in Nat /\ r.ticket \in Tickets
      BY <3>1 DEF Request
    <3>3. /\ kept \in [Tickets -> Nat \cup {None}]
          /\ Redeemed(kept) \subseteq Redeemed(entries)
      BY <3>2, <2>t, RetainedType, NothingAdded
    <3>4. Cardinality(Redeemed(kept)) <= Capacity
          /\ Cardinality(Redeemed(kept)) \in Nat
      BY <3>3, <2>s, <1>2, RedeemedFewer DEF CacheBounded
    <3> HIDE DEF r
    <3>a. \/ entries' = kept
          \/ /\ ~(Cardinality(Redeemed(kept)) >= Capacity)
             /\ entries' = [kept EXCEPT ![r.ticket] = RetainedUntil(r.ticket)]
      BY <3>1, Zenon DEF Consume
    <3> HIDE DEF kept
    <3>5. \/ entries' = kept
          \/ /\ Cardinality(Redeemed(kept)) < Capacity
             /\ entries' = [kept EXCEPT ![r.ticket] = RetainedUntil(r.ticket)]
      BY <3>a, <3>4, <2>t
    <3>6. Cardinality(Redeemed(entries')) <= Capacity
      BY <3>2, <3>3, <3>4, <3>5, OneAdded
    <3> QED
      BY <3>1, <3>6, <1>2 DEF CacheBounded
  <2>3. CASE Write
    <3>1. working.ticket \in Tickets
      BY <2>3, <1>2 DEF Write, IndInv, TypeOK, Request
    <3>2. /\ file' = file \/ file' = Encoded(entries)
          /\ entries' = entries
             \/ entries' = [entries EXCEPT ![working.ticket] = None]
      BY <2>3 DEF Write
    <3>3. Redeemed(entries') \subseteq Redeemed(entries)
      BY <3>1, <3>2, <2>t, NothingAdded
    <3>4. Cardinality(Redeemed(entries')) <= Capacity
      BY <3>3, <2>s, <1>2 DEF CacheBounded
    <3>5. Redeemed(Encoded(entries)) = Redeemed(entries)
      BY <2>t, <1>2, EncodedType DEF IndInv, EntriesOK
    <3> QED
      BY <3>2, <3>4, <3>5, <1>2 DEF CacheBounded
  <2>4. CASE Crash
    <3>1. Redeemed(entries') = {} /\ file' = file
      BY <2>4 DEF Crash, Redeemed, NoEntries
    <3> QED
      BY <3>1, <2>t, <1>2, FS_EmptySet DEF CacheBounded
  <2>5. CASE Open
    <3> DEFINE loaded == Loaded(file, now)
    <3>1. Cardinality(Redeemed(loaded)) <= Capacity
      BY <2>5 DEF Open
    <3>2. file' = Encoded(loaded) /\ entries' \in {entries, loaded}
      BY <2>5 DEF Open
    <3>3. Redeemed(Encoded(loaded)) = Redeemed(loaded)
      BY <2>t, <1>2, LoadedType, EncodedType DEF IndInv, EntriesOK
    <3> QED
      BY <3>1, <3>2, <3>3, <1>2 DEF CacheBounded
  <2> QED
    BY <2>1, <2>2, <2>3, <2>4, <2>5, <1>2
       DEF Next, vars, Submit, Timeout, Stop, Tick
<1> QED
  BY <1>1, <1>2, Inductive, PTL DEF Spec
=============================================================================
