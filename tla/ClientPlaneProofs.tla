--------------------------- MODULE ClientPlaneProofs ---------------------------
(***************************************************************************)
(* The V1 path plane and the services of the client, each for every value  *)
(* of its constants: the TUN driver's failure, the kill switch's filters,  *)
(* the status server's nonces and refusals, the paths of the V1 tunnel and *)
(* the failover of the V1 client.  The components share no state; each     *)
(* part below has its own invariant and argument.                          *)
(***************************************************************************)
EXTENDS KillSwitch, StatusPlane, TunDriver, V1Tunnel, V1Client, V1Discovery, Integers,
        OrderingProofs

-----------------------------------------------------------------------------
(***************************************************************************)
(* The TUN driver.  A failure is stored before anything tells of it: the   *)
(* worker publishes only what it stored (Stored), the engine reports only  *)
(* the stored failure (EngineReports), and a clean close is of an owner    *)
(* that has joined the worker, after which nothing can fail (CleanClose).  *)
(***************************************************************************)

Stored ==
  /\ failure \in Failures \cup {None}
  /\ terminal => failure # None
  /\ worker = "publish" => failure # None

EngineReports ==
  /\ engine \in Failures \cup {"Running", "Closed"}
  /\ engine \in Failures => engine = failure /\ failure # None

CleanClose ==
  /\ engine = "Closed" => failure = None /\ worker = "exited" /\ owner = "closed"
  /\ owner = "closed" => worker = "exited" /\ engine # "Running"

DriverInv == Stored /\ EngineReports /\ CleanClose

LEMMA DriverStarts == DriverInit => DriverInv
  BY DEF DriverInit, Spawned, TakenOver, DriverInv, Stored, EngineReports, CleanClose, Failures

\* Senders, the receiver and a signalled shutdown touch none of it.
LEMMA DriverQuiet ==
  ASSUME DriverInv, UNCHANGED <<failure, terminal, worker, owner, engine>>
  PROVE  DriverInv'
  BY DEF DriverInv, Stored, EngineReports, CleanClose

\* A running worker goes on without a failure, or leaves.
LEMMA WorkerMoves ==
  ASSUME DriverInv, Alive, UNCHANGED <<failure, terminal, owner, engine>>,
         worker' # "publish"
  PROVE  DriverInv'
  BY DEF DriverInv, Stored, EngineReports, CleanClose, Alive

\* set_failure by the worker.
LEMMA WorkerFails ==
  ASSUME DriverInv, Alive, NEW kind \in Failures, None \notin Failures, Fails(kind),
         UNCHANGED <<terminal, owner, engine>>
  PROVE  DriverInv'
<1>1. CASE failure = None /\ failure' = kind /\ worker' = "publish"
  <2>1. failure' \in Failures /\ failure' # None
    BY <1>1
  <2>2. engine \notin Failures
    BY <1>1 DEF DriverInv, EngineReports
  <2>3. engine # "Closed" /\ owner # "closed"
    BY DEF DriverInv, CleanClose, Alive
  <2> QED BY <2>1, <2>2, <2>3 DEF DriverInv, Stored, EngineReports, CleanClose
<1>2. CASE failure # None /\ failure' = failure /\ worker' = "exited"
  BY <1>2 DEF DriverInv, Stored, EngineReports, CleanClose, Alive
<1> QED BY <1>1, <1>2 DEF Fails

LEMMA WorkerKeeps == ASSUME DriverInv, None \notin Failures, WorkerStep PROVE DriverInv'
<1>1. CASE Dequeues
  BY <1>1, WorkerMoves DEF Dequeues, Exit, Alive, control, handle
<1>2. CASE Writes
  <2>1. CASE Fails("Write")
    BY <1>2, <2>1, WorkerFails DEF Writes, Alive, handle, Failures
  <2>2. CASE ~Fails("Write")
    BY <1>2, <2>2, WorkerMoves DEF Writes, Alive, handle
  <2> QED BY <2>1, <2>2
<1>3. CASE Parks
  BY <1>3, WorkerMoves DEF Parks, Exit, Alive, control, handle
<1>4. CASE Reads
  <2>1. CASE Fails("Read")
    BY <1>4, <2>1, WorkerFails DEF Reads, Alive, handle, Failures
  <2>2. CASE ~Fails("Read")
    BY <1>4, <2>2, WorkerMoves DEF Reads, Exit, Alive, handle
  <2> QED BY <2>1, <2>2
<1>5. CASE Publishes
  BY <1>5 DEF Publishes, Exit, handle, DriverInv, Stored, EngineReports, CleanClose
<1> QED BY <1>1, <1>2, <1>3, <1>4, <1>5 DEF WorkerStep

\* The watcher, a look at the state, the join.
LEMMA SyncedReports ==
  ASSUME DriverInv, UNCHANGED <<failure, terminal, worker, owner>>, engine' = Synced
  PROVE  DriverInv'
  BY DEF DriverInv, Stored, EngineReports, CleanClose, Synced, Failures

LEMMA OwnerKeeps ==
  ASSUME DriverInv, None \notin Failures,
         Watches \/ SyncState \/ EngineShutdown \/ Joins \/ DropsOwner
  PROVE  DriverInv'
<1>1. CASE Watches
  BY <1>1, SyncedReports DEF Watches, control, thread
<1>2. CASE SyncState
  BY <1>2, SyncedReports DEF SyncState, control, thread
<1>3. CASE EngineShutdown
  BY <1>3 DEF EngineShutdown, thread, DriverInv, Stored, EngineReports, CleanClose
<1>4. CASE Joins
  BY <1>4 DEF Joins, Outcome, Synced, Alive, control, thread, DriverInv, Stored,
              EngineReports, CleanClose, Failures
<1>5. CASE DropsOwner
  BY <1>5 DEF DropsOwner, Signalled, thread, DriverInv, Stored, EngineReports, CleanClose,
              Failures
<1> QED BY <1>1, <1>2, <1>3, <1>4, <1>5

LEMMA DriverStep ==
  ASSUME DriverInv, None \notin Failures, [DriverNext]_driver_vars PROVE DriverInv'
<1>1. CASE UNCHANGED driver_vars
  BY <1>1, DriverQuiet DEF driver_vars, control, thread, handle
<1>2. ASSUME NEW s \in Senders,
             (\E i \in Indices, len \in Lens : SendChecks(s, i, len))
               \/ Reserves(s) \/ Enqueues(s) \/ RollsBack(s)
      PROVE  DriverInv'
  BY <1>2, DriverQuiet DEF SendChecks, Reserves, Enqueues, RollsBack, control, thread, handle
<1>3. CASE WorkerStep
  BY <1>3, WorkerKeeps
<1>4. CASE Receives \/ Accounts \/ SignalShutdown
  BY <1>4, DriverQuiet DEF Receives, Accounts, SignalShutdown, control, thread, handle
<1>5. CASE Watches \/ SyncState \/ EngineShutdown \/ Joins \/ DropsOwner
  BY <1>5, OwnerKeeps
<1> QED BY <1>1, <1>2, <1>3, <1>4, <1>5 DEF DriverNext

\* TUN driver and engine: a failure is never lost between the worker, the
\* signal, the watcher and a shutdown that overtakes them.
THEOREM Reporting == DriverSpec => []FailureReported
<1>1. DriverInit => DriverInv
  BY DriverStarts
<1>2. DriverInv /\ [DriverNext]_driver_vars => DriverInv'
  BY DriverStep, NoFailure
<1>3. DriverInv => FailureReported
  BY DEF DriverInv, Stored, EngineReports, CleanClose, FailureReported, Alive
<1> QED BY <1>1, <1>2, <1>3, PTL DEF DriverSpec

-----------------------------------------------------------------------------
(***************************************************************************)
(* The kill switch.  Every list of identifiers a call works through names  *)
(* a filter once and only filters that were added before (Listed), so a    *)
(* deletion takes exactly the head of the list; the deny-all is the last   *)
(* of the report, so it stands while an uninstall has anything left        *)
(* (CallShape, Denying); and as long as no deletion has failed the live    *)
(* filters are those the call under way accounts for (Matching).           *)
(***************************************************************************)

Once(q) == \A i, j \in 1..Len(q) : q[i] = q[j] => i = j

\* Identifiers handed out so far, none twice.
Listed(q) == q \in Seq(Nat) /\ Once(q) /\ \A i \in 1..Len(q) : q[i] < next_id

ProtectionTypes ==
  /\ open \in BOOLEAN /\ installed \in BOOLEAN /\ closed \in BOOLEAN
  /\ failed_delete \in BOOLEAN /\ next_id \in Nat
  /\ DOMAIN filters \subseteq Nat /\ \A i \in DOMAIN filters : i < next_id

CallShape ==
  /\ call.pc \in {"idle", "install", "rollback", "uninstall"}
  /\ call = [pc |-> call.pc, todo |-> call.todo, done |-> call.done]
  /\ call.pc = "idle" => call = NoCall
  /\ call.pc # "idle" => open
  /\ call.pc = "install" =>
       ~closed /\ ~installed /\ call.todo \in Seq(Apps) /\ Listed(call.done)
  /\ call.pc = "rollback" => ~installed /\ Listed(call.todo) /\ call.todo # <<>>
  /\ call.pc = "uninstall" =>
       /\ installed /\ Listed(call.todo) /\ call.todo # <<>>
       /\ call.todo[Len(call.todo)] = report.deny

\* The identifiers of a report, the deny-all last.
ReportShape ==
  report # None => report.permits \in Seq(Nat) /\ report.deny \in Nat /\ Listed(Ordered(report))

Denying ==
  open /\ installed /\ ~closed =>
    report.deny \in DOMAIN filters /\ filters[report.deny] = "all"

Dropped == ~open \/ closed => DOMAIN filters = {}

Matching ==
  open /\ ~closed /\ ~failed_delete =>
    /\ call.pc = "idle" /\ installed => DOMAIN filters = ToSet(Ordered(report))
    /\ call.pc = "idle" /\ ~installed => DOMAIN filters = {}
    /\ call.pc = "install" =>
         DOMAIN filters = ToSet(call.done) /\ \A i \in DOMAIN filters : filters[i] \in Apps
    /\ call.pc \in {"rollback", "uninstall"} => DOMAIN filters = ToSet(call.todo)

ProtectionInv ==
  ProtectionTypes /\ CallShape /\ ReportShape /\ Denying /\ Dropped /\ Matching

\* A list that grows at its end.
LEMMA GrownList ==
  ASSUME NEW S, NEW q \in Seq(S), NEW e \in S
  PROVE  /\ Append(q, e) \in Seq(S) /\ Append(q, e) # <<>>
         /\ Append(q, e)[Len(Append(q, e))] = e
         /\ ToSet(Append(q, e)) = ToSet(q) \cup {e}
         /\ Once(q) /\ e \notin ToSet(q) => Once(Append(q, e))
<1>1. /\ Append(q, e) \in Seq(S) /\ Len(Append(q, e)) = Len(q) + 1
      /\ \A i \in 1..Len(q) : Append(q, e)[i] = q[i]
      /\ Append(q, e)[Len(q) + 1] = e /\ Len(q) \in Nat
      /\ DOMAIN q = 1..Len(q) /\ DOMAIN Append(q, e) = 1..Len(q) + 1
  OBVIOUS
<1>2. ToSet(Append(q, e)) = ToSet(q) \cup {e}
  BY <1>1 DEF ToSet
<1>3. Once(q) /\ e \notin ToSet(q) => Once(Append(q, e))
  <2>1. e \notin ToSet(q) => \A i \in 1..Len(q) : q[i] # e
    BY <1>1 DEF ToSet
  <2> QED BY <1>1, <2>1 DEF Once
<1>4. Append(q, e) # <<>>
  BY <1>1, EmptySeq
<1> QED BY <1>1, <1>2, <1>3, <1>4

\* A list without repetition that is worked through from its head.
LEMMA ShrunkList ==
  ASSUME NEW S, NEW q \in Seq(S), q # <<>>, Once(q)
  PROVE  /\ Head(q) \in S /\ Head(q) = q[1] /\ Tail(q) \in Seq(S) /\ Once(Tail(q))
         /\ \A i \in 1..Len(Tail(q)) : Tail(q)[i] \in ToSet(q)
         /\ ToSet(Tail(q)) = ToSet(q) \ {Head(q)}
         /\ Len(q) = 1 => ToSet(q) = {Head(q)}
         /\ Len(q) # 1 => /\ Tail(q) # <<>> /\ Tail(q)[Len(Tail(q))] = q[Len(q)]
                          /\ Head(q) # q[Len(q)]
<1>1. /\ Head(q) \in S /\ Head(q) = q[1] /\ Tail(q) \in Seq(S)
      /\ Len(q) \in Nat /\ Len(q) > 0 /\ Len(Tail(q)) = Len(q) - 1
      /\ \A i \in 1..Len(q) - 1 : Tail(q)[i] = q[i + 1]
      /\ DOMAIN q = 1..Len(q) /\ DOMAIN Tail(q) = 1..Len(q) - 1
  BY EmptySeq, HeadTailProperties, LenProperties
<1>2. Once(Tail(q))
  BY <1>1 DEF Once
<1>3. \A x : x \in ToSet(q) <=> \E i \in 1..Len(q) : x = q[i]
  BY <1>1 DEF ToSet
<1>4. \A x : x \in ToSet(Tail(q)) <=> \E i \in 1..Len(q) - 1 : x = Tail(q)[i]
  BY <1>1 DEF ToSet
<1>5. \A i \in 1..Len(q) : i # 1 => q[i] # q[1] /\ i - 1 \in 1..Len(q) - 1 /\ q[i] = Tail(q)[i - 1]
  BY <1>1 DEF Once
<1>6. ToSet(Tail(q)) \subseteq ToSet(q) \ {Head(q)}
  <2> SUFFICES ASSUME NEW x \in ToSet(Tail(q)) PROVE x \in ToSet(q) \ {Head(q)}
    OBVIOUS
  <2>1. PICK i \in 1..Len(q) - 1 : x = Tail(q)[i]
    BY <1>4
  <2>2. i + 1 \in 1..Len(q) /\ i + 1 # 1 /\ x = q[i + 1]
    BY <1>1, <2>1
  <2> QED BY <1>1, <1>3, <1>5, <2>2
<1>7. ToSet(q) \ {Head(q)} \subseteq ToSet(Tail(q))
  <2> SUFFICES ASSUME NEW x \in ToSet(q), x # Head(q) PROVE x \in ToSet(Tail(q))
    OBVIOUS
  <2>1. PICK i \in 1..Len(q) : x = q[i]
    BY <1>3
  <2> QED BY <1>1, <1>4, <1>5, <2>1
<1>8. Len(q) = 1 => ToSet(q) = {Head(q)}
  <2>1. ASSUME Len(q) = 1, NEW x PROVE x \in ToSet(q) <=> x = q[1]
    BY <1>3, <2>1
  <2> QED BY <1>1, <2>1
<1>9. ASSUME Len(q) # 1
      PROVE  /\ Tail(q) # <<>> /\ Tail(q)[Len(Tail(q))] = q[Len(q)] /\ Head(q) # q[Len(q)]
  <2>1. Len(q) - 1 \in 1..Len(q) - 1 /\ Len(q) \in 1..Len(q) /\ Len(q) # 1
    BY <1>1, <1>9
  <2>2. Tail(q)[Len(Tail(q))] = q[Len(q)] /\ Head(q) # q[Len(q)]
    BY <1>1, <1>5, <2>1
  <2>3. Tail(q) # <<>>
    BY <1>1, <2>1, EmptySeq
  <2> QED BY <2>2, <2>3
<1>10. \A i \in 1..Len(Tail(q)) : Tail(q)[i] \in ToSet(q)
  BY <1>1, <1>3
<1> QED BY <1>1, <1>2, <1>6, <1>7, <1>8, <1>9, <1>10

LEMMA ProtectionStarts == ProtectionInit => ProtectionInv
<1> SUFFICES ASSUME ProtectionInit PROVE ProtectionInv
  OBVIOUS
<1>1. DOMAIN filters = {}
  BY DEF ProtectionInit
<1>2. /\ call = NoCall /\ call.pc = "idle"
      /\ call = [pc |-> call.pc, todo |-> call.todo, done |-> call.done]
  BY DEF ProtectionInit, NoCall
<1>3. ProtectionTypes
  BY <1>1 DEF ProtectionInit, ProtectionTypes
<1>4. CallShape
  BY <1>2 DEF CallShape
<1> QED BY <1>1, <1>2, <1>3, <1>4 DEF ProtectionInit, ProtectionInv, ReportShape, Denying,
                                      Dropped, Matching

\* with_backend: a session opens on a service that holds no filter of ours.
LEMMA OpensKeeps == ASSUME ProtectionInv, OpensSession PROVE ProtectionInv'
<1>1. call = NoCall /\ call.pc = "idle"
  BY DEF OpensSession, ProtectionInv, CallShape, NoCall
<1>2. DOMAIN filters = {} /\ filters' = filters /\ call' = call /\ installed' = FALSE
  BY DEF OpensSession, NewEngine, ProtectionInv, Dropped
<1>3. ProtectionTypes' /\ CallShape'
  BY <1>1, <1>2 DEF OpensSession, NewEngine, ProtectionInv, ProtectionTypes, CallShape
<1>4. ReportShape' /\ Denying' /\ Dropped' /\ Matching'
  BY <1>1, <1>2 DEF OpensSession, NewEngine, ProtectionInv, ReportShape, Listed, Denying,
                    Dropped, Matching
<1> QED BY <1>3, <1>4 DEF ProtectionInv

LEMMA InstallKeeps ==
  ASSUME ProtectionInv, NEW p \in Policies, InstallStarts(p) PROVE ProtectionInv'
<1>1. p \in Seq(Apps)
  <2>1. PICK m \in 0..MaxApps : p \in [1..m -> Apps]
    BY DEF Policies, SeqOf
  <2>2. m \in Nat
    BY PolicyBound
  <2> QED BY <2>1, <2>2, SeqDef
<1>2. /\ call'.pc = "install" /\ call'.todo = p /\ call'.done = <<>> /\ call.pc = "idle"
      /\ call' = [pc |-> call'.pc, todo |-> call'.todo, done |-> call'.done]
  BY DEF InstallStarts, NoCall
<1>3. Listed(<<>>)' /\ ToSet(<<>>) = {}
  BY DEF Listed, Once, ToSet
<1>4. /\ open /\ ~closed /\ ~installed
      /\ UNCHANGED <<open, installed, closed, filters, next_id, report, failed_delete>>
  BY DEF InstallStarts
<1>5. CallShape'
  BY <1>1, <1>2, <1>3, <1>4 DEF CallShape
<1>6. ProtectionTypes' /\ ReportShape' /\ Denying' /\ Dropped'
  BY <1>4 DEF ProtectionInv, ProtectionTypes, ReportShape, Listed, Denying, Dropped
<1>7. Matching'
  BY <1>2, <1>3, <1>4 DEF ProtectionInv, Matching
<1> QED BY <1>5, <1>6, <1>7 DEF ProtectionInv

\* Only identifiers move on: what was listed stays listed.
LEMMA StillListed ==
  ASSUME NEW q, Listed(q), next_id \in Nat, next_id' = next_id + 1
  PROVE  q \in Seq(Nat) /\ Once(q) /\ \A i \in 1..Len(q) : q[i] < next_id'
<1>1. q \in Seq(Nat) /\ Once(q) /\ \A i \in 1..Len(q) : q[i] < next_id /\ q[i] \in Nat
  BY DEF Listed
<1> QED BY <1>1

\* A permit was added: the install has one filter more to account for.
LEMMA PermitKeeps ==
  ASSUME ProtectionInv, call.pc = "install", call.todo # <<>>, AddFilter(Head(call.todo)),
         call' = [call EXCEPT !.todo = Tail(@), !.done = Append(@, next_id)],
         UNCHANGED <<open, installed, closed, report, failed_delete>>
  PROVE  ProtectionInv'
<1>1. /\ open /\ ~closed /\ ~installed /\ call.todo \in Seq(Apps)
      /\ Listed(call.done) /\ call.done \in Seq(Nat) /\ Once(call.done) /\ next_id \in Nat
      /\ call = [pc |-> call.pc, todo |-> call.todo, done |-> call.done]
  BY DEF ProtectionInv, ProtectionTypes, CallShape, Listed
<1>2. /\ call'.pc = "install" /\ call'.todo = Tail(call.todo)
      /\ call'.done = Append(call.done, next_id)
      /\ call' = [pc |-> call'.pc, todo |-> call'.todo, done |-> call'.done]
  BY <1>1
<1>3. /\ next_id' = next_id + 1 /\ DOMAIN filters' = DOMAIN filters \cup {next_id}
      /\ \A i \in DOMAIN filters' :
           filters'[i] = IF i = next_id THEN Head(call.todo) ELSE filters[i]
  BY DEF AddFilter
<1>4. Head(call.todo) \in Apps /\ Tail(call.todo) \in Seq(Apps)
  BY <1>1
<1>5. \A i \in 1..Len(call.done) : call.done[i] \in Nat /\ call.done[i] < next_id
  BY <1>1 DEF Listed
<1>6. next_id \notin ToSet(call.done)
  <2>1. DOMAIN call.done = 1..Len(call.done)
    BY <1>1
  <2> QED BY <1>1, <1>5, <2>1 DEF ToSet
<1>7. /\ call'.done \in Seq(Nat) /\ Once(call'.done)
      /\ ToSet(call'.done) = ToSet(call.done) \cup {next_id}
  BY <1>1, <1>2, <1>6, GrownList
<1>8. \A i \in 1..Len(call'.done) : call'.done[i] < next_id'
  <2>1. /\ Len(call'.done) = Len(call.done) + 1 /\ Len(call.done) \in Nat
        /\ \A i \in 1..Len(call.done) : call'.done[i] = call.done[i]
        /\ call'.done[Len(call.done) + 1] = next_id
    BY <1>1, <1>2
  <2> QED BY <1>1, <1>3, <1>5, <2>1
<1>9. CallShape'
  BY <1>1, <1>2, <1>4, <1>7, <1>8 DEF CallShape, Listed
<1>10. ProtectionTypes' /\ Dropped' /\ Denying'
  BY <1>1, <1>3 DEF ProtectionInv, ProtectionTypes, Dropped, Denying
<1>11. ReportShape'
  BY <1>1, <1>3, StillListed DEF ProtectionInv, ReportShape, Listed
<1>12. Matching'
  BY <1>1, <1>2, <1>3, <1>4, <1>7 DEF ProtectionInv, Matching
<1> QED BY <1>9, <1>10, <1>11, <1>12 DEF ProtectionInv

\* The deny-all was added: the report takes the list over.
LEMMA DenyKeeps ==
  ASSUME ProtectionInv, call.pc = "install", AddFilter("all"),
         installed' = TRUE, call' = NoCall, report' = InstallReport(call.done, next_id),
         UNCHANGED <<open, closed, failed_delete>>
  PROVE  ProtectionInv'
<1>1. /\ open /\ ~closed /\ Listed(call.done) /\ call.done \in Seq(Nat) /\ Once(call.done)
      /\ next_id \in Nat
  BY DEF ProtectionInv, ProtectionTypes, CallShape, Listed
<1>2. /\ next_id' = next_id + 1 /\ DOMAIN filters' = DOMAIN filters \cup {next_id}
      /\ filters'[next_id] = "all"
  BY DEF AddFilter
<1>3. /\ report' = [permits |-> call.done, deny |-> next_id]
      /\ report'.permits = call.done /\ report'.deny = next_id
  BY DEF InstallReport
<1>4. Ordered(report') = Append(call.done, next_id)
  BY <1>3 DEF Ordered
<1>5. \A i \in 1..Len(call.done) : call.done[i] \in Nat /\ call.done[i] < next_id
  BY <1>1 DEF Listed
<1>6. next_id \notin ToSet(call.done)
  <2>1. DOMAIN call.done = 1..Len(call.done)
    BY <1>1
  <2> QED BY <1>1, <1>5, <2>1 DEF ToSet
<1> DEFINE ids == Append(call.done, next_id)
<1>7. ids \in Seq(Nat) /\ Once(ids) /\ ToSet(ids) = ToSet(call.done) \cup {next_id}
  BY <1>1, <1>6, GrownList
<1>8. \A i \in 1..Len(ids) : ids[i] < next_id'
  <2>1. /\ Len(ids) = Len(call.done) + 1 /\ Len(call.done) \in Nat
        /\ \A i \in 1..Len(call.done) : ids[i] = call.done[i]
        /\ ids[Len(call.done) + 1] = next_id
    BY <1>1
  <2> HIDE DEF ids
  <2>2. next_id < next_id' /\ \A i \in 1..Len(call.done) : call.done[i] < next_id'
    BY <1>1, <1>2, <1>5
  <2>3. ASSUME NEW i \in 1..Len(ids) PROVE i \in 1..Len(call.done) \/ i = Len(call.done) + 1
    BY <2>1, <2>3
  <2> QED BY <2>1, <2>2, <2>3
<1> HIDE DEF ids
<1>9. Listed(Ordered(report))'
  BY <1>4, <1>7, <1>8 DEF Listed, ids
<1>10. call'.pc = "idle" /\ call' = [pc |-> call'.pc, todo |-> call'.todo, done |-> call'.done]
  BY DEF NoCall
<1>11. CallShape'
  BY <1>10 DEF CallShape, NoCall
<1>12. ProtectionTypes'
  BY <1>1, <1>2 DEF ProtectionInv, ProtectionTypes
<1>13. ReportShape'
  BY <1>1, <1>3, <1>9 DEF ReportShape
<1>14. Denying'
  BY <1>2, <1>3 DEF Denying
<1>15. Dropped'
  BY <1>1 DEF Dropped
<1>16. Matching'
  BY <1>2, <1>4, <1>7, <1>10 DEF ProtectionInv, Matching, ids
<1> QED BY <1>11, <1>12, <1>13, <1>14, <1>15, <1>16 DEF ProtectionInv

\* An install that fails rolls back what it has added.
LEMMA AddFailsKeeps == ASSUME ProtectionInv, AddFails PROVE ProtectionInv'
<1>1. /\ call.pc = "install" /\ open /\ ~closed /\ ~installed /\ Listed(call.done)
      /\ UNCHANGED <<open, installed, closed, filters, next_id, report, failed_delete>>
  BY DEF AddFails, ProtectionInv, CallShape
<1>2. ProtectionTypes' /\ ReportShape' /\ Denying' /\ Dropped'
  BY <1>1 DEF ProtectionInv, ProtectionTypes, ReportShape, Listed, Denying, Dropped
<1>3. CASE call.done = <<>> /\ call' = NoCall
  <2>1. /\ call'.pc = "idle" /\ ToSet(call.done) = {}
        /\ call' = [pc |-> call'.pc, todo |-> call'.todo, done |-> call'.done]
    BY <1>3 DEF NoCall, ToSet
  <2>2. CallShape'
    BY <1>3, <2>1 DEF CallShape
  <2>3. Matching'
    BY <1>1, <2>1 DEF ProtectionInv, Matching
  <2> QED BY <1>2, <2>2, <2>3 DEF ProtectionInv
<1>4. CASE call.done # <<>> /\ call' = [pc |-> "rollback", todo |-> call.done, done |-> <<>>]
  <2>1. /\ call'.pc = "rollback" /\ call'.todo = call.done
        /\ call' = [pc |-> call'.pc, todo |-> call'.todo, done |-> call'.done]
    BY <1>4
  <2>2. CallShape'
    BY <1>1, <1>4, <2>1 DEF CallShape, Listed
  <2>3. Matching'
    BY <1>1, <2>1 DEF ProtectionInv, Matching
  <2> QED BY <1>2, <2>2, <2>3 DEF ProtectionInv
<1> QED BY <1>3, <1>4 DEF AddFails

LEMMA UninstallKeeps == ASSUME ProtectionInv, UninstallStarts PROVE ProtectionInv'
<1>1. /\ open /\ call = NoCall /\ call.pc = "idle" /\ installed /\ report # None
      /\ UNCHANGED <<open, installed, closed, filters, next_id, report, failed_delete>>
  BY DEF UninstallStarts, NoCall
<1>2. ProtectionTypes' /\ ReportShape' /\ Denying' /\ Dropped'
  BY <1>1 DEF ProtectionInv, ProtectionTypes, ReportShape, Listed, Denying, Dropped
<1>3. /\ call'.pc = "uninstall" /\ call'.todo = Ordered(report)
      /\ call' = [pc |-> call'.pc, todo |-> call'.todo, done |-> call'.done]
  BY DEF UninstallStarts
<1>4. report.permits \in Seq(Nat) /\ report.deny \in Nat /\ Listed(Ordered(report))
  BY <1>1 DEF ProtectionInv, ReportShape
<1>5. Ordered(report) # <<>> /\ Ordered(report)[Len(Ordered(report))] = report.deny
  BY <1>4, GrownList DEF Ordered
<1>6. CallShape'
  BY <1>1, <1>3, <1>4, <1>5 DEF CallShape, Listed
<1>7. Matching'
  BY <1>1, <1>3 DEF ProtectionInv, Matching, Ordered
<1> QED BY <1>2, <1>6, <1>7 DEF ProtectionInv

\* delete_filters takes the head of the list; only the last of an uninstall is
\* the deny-all, and it ends the protection.
LEMMA DeletesKeeps == ASSUME ProtectionInv, Deletes PROVE ProtectionInv'
<1> DEFINE q == call.todo
<1>1. /\ call.pc \in {"rollback", "uninstall"} /\ ~closed /\ open /\ Listed(q) /\ q # <<>>
      /\ q \in Seq(Nat) /\ Once(q) /\ Head(q) \in DOMAIN filters
      /\ call = [pc |-> call.pc, todo |-> call.todo, done |-> call.done]
      /\ UNCHANGED <<open, closed, next_id, report, failed_delete>>
  BY DEF Deletes, ProtectionInv, CallShape, Listed
<1>2. /\ DOMAIN filters' = DOMAIN filters \ {Head(q)}
      /\ \A i \in DOMAIN filters' : filters'[i] = filters[i]
  BY DEF Deletes
<1>3. /\ Head(q) = q[1] /\ Tail(q) \in Seq(Nat) /\ Once(Tail(q))
      /\ \A i \in 1..Len(Tail(q)) : Tail(q)[i] \in ToSet(q)
      /\ ToSet(Tail(q)) = ToSet(q) \ {Head(q)}
      /\ Len(q) = 1 => ToSet(q) = {Head(q)}
      /\ Len(q) # 1 => /\ Tail(q) # <<>> /\ Tail(q)[Len(Tail(q))] = q[Len(q)]
                       /\ Head(q) # q[Len(q)]
  BY <1>1, ShrunkList
<1>4. ProtectionTypes' /\ Dropped'
  <2>1. installed' \in BOOLEAN
    BY DEF Deletes
  <2> QED BY <1>1, <1>2, <2>1 DEF ProtectionInv, ProtectionTypes, Dropped
<1>5. ReportShape'
  BY <1>1 DEF ProtectionInv, ReportShape, Listed
<1>6. CASE Len(q) = 1
  <2>1. /\ call' = NoCall /\ call'.pc = "idle" /\ ~installed'
        /\ call' = [pc |-> call'.pc, todo |-> call'.todo, done |-> call'.done]
    <3>1. call.pc = "rollback" => ~installed
      BY DEF ProtectionInv, CallShape
    <3> QED BY <1>1, <1>6, <3>1 DEF Deletes, NoCall
  <2>2. CallShape' /\ Denying'
    BY <2>1 DEF CallShape, Denying
  <2>3. Matching'
    <3>1. ~failed_delete => DOMAIN filters = ToSet(q)
      BY <1>1 DEF ProtectionInv, Matching
    <3> QED BY <1>1, <1>2, <1>3, <1>6, <2>1, <3>1 DEF Matching
  <2> QED BY <1>4, <1>5, <2>2, <2>3 DEF ProtectionInv
<1>7. CASE Len(q) # 1
  <2>1. /\ call' = [call EXCEPT !.todo = Tail(@)] /\ installed' = installed
        /\ call'.pc = call.pc /\ call'.todo = Tail(q)
        /\ call' = [pc |-> call'.pc, todo |-> call'.todo, done |-> call'.done]
    <3>1. installed \in BOOLEAN
      BY DEF ProtectionInv, ProtectionTypes
    <3> QED BY <1>1, <1>7, <3>1 DEF Deletes
  <2>2. Listed(call.todo)'
    <3>1. \A x \in ToSet(q) : x < next_id
      <4>1. DOMAIN q = 1..Len(q)
        BY <1>1
      <4> QED BY <1>1, <4>1 DEF Listed, ToSet
    <3>2. \A i \in 1..Len(Tail(q)) : Tail(q)[i] < next_id'
      BY <1>1, <1>3, <3>1
    <3> QED BY <1>3, <2>1, <3>2 DEF Listed
  <2>3. CallShape'
    <3>1. call.pc = "rollback" => ~installed
      BY DEF ProtectionInv, CallShape
    <3>2. call.pc = "uninstall" => installed /\ q[Len(q)] = report.deny
      BY DEF ProtectionInv, CallShape
    <3> QED BY <1>1, <1>3, <1>7, <2>1, <2>2, <3>1, <3>2 DEF CallShape, Listed
  <2>4. Denying'
    <3>1. CASE call.pc = "rollback"
      BY <2>1, <3>1 DEF ProtectionInv, CallShape, Denying
    <3>2. CASE call.pc = "uninstall"
      <4>1. q[Len(q)] = report.deny
        BY <3>2 DEF ProtectionInv, CallShape
      <4>2. installed => report.deny \in DOMAIN filters /\ filters[report.deny] = "all"
        BY <1>1 DEF ProtectionInv, Denying
      <4> HIDE DEF q
      <4> QED BY <1>1, <1>2, <1>3, <1>7, <2>1, <4>1, <4>2 DEF Denying
    <3> QED BY <1>1, <3>1, <3>2
  <2>5. Matching'
    <3>1. ~failed_delete => DOMAIN filters = ToSet(q)
      BY <1>1 DEF ProtectionInv, Matching
    <3> QED BY <1>1, <1>2, <1>3, <2>1, <3>1 DEF Matching
  <2> QED BY <1>4, <1>5, <2>3, <2>4, <2>5 DEF ProtectionInv
<1> QED BY <1>6, <1>7

\* A call that ends without having changed a filter: from then on the session
\* no longer promises to match.
LEMMA DeleteFailsKeeps == ASSUME ProtectionInv, DeleteFails PROVE ProtectionInv'
<1>1. /\ call' = NoCall /\ call'.pc = "idle" /\ failed_delete' = TRUE
      /\ call' = [pc |-> call'.pc, todo |-> call'.todo, done |-> call'.done]
      /\ UNCHANGED <<open, installed, closed, filters, next_id, report>>
  BY DEF DeleteFails, NoCall
<1>2. CallShape' /\ Matching'
  BY <1>1 DEF CallShape, Matching
<1>3. ProtectionTypes' /\ ReportShape' /\ Denying' /\ Dropped'
  BY <1>1 DEF ProtectionInv, ProtectionTypes, ReportShape, Listed, Denying, Dropped
<1> QED BY <1>2, <1>3 DEF ProtectionInv

LEMMA ClosesKeeps == ASSUME ProtectionInv, ClosesSession \/ Dies PROVE ProtectionInv'
<1>1. DOMAIN filters' = {}
  BY DEF ClosesSession, Dies
<1>2. ProtectionTypes' /\ ReportShape' /\ Dropped'
  BY <1>1 DEF ClosesSession, Dies, ProtectionInv, ProtectionTypes, ReportShape, Listed, Dropped
<1>3. ~open' \/ closed'
  BY DEF ClosesSession, Dies
<1>4. /\ call' = NoCall /\ call'.pc = "idle"
      /\ call' = [pc |-> call'.pc, todo |-> call'.todo, done |-> call'.done]
  BY DEF ClosesSession, Dies, NoCall
<1>5. CallShape' /\ Denying' /\ Matching'
  BY <1>3, <1>4 DEF CallShape, Denying, Matching
<1> QED BY <1>2, <1>5 DEF ProtectionInv

LEMMA ProtectionStep ==
  ASSUME ProtectionInv, "all" \notin Apps, [ProtectionNext]_protection_vars
  PROVE  ProtectionInv'
<1>1. CASE UNCHANGED protection_vars
  BY <1>1 DEF protection_vars, ProtectionInv, ProtectionTypes, CallShape, ReportShape, Listed,
              Denying, Dropped, Matching
<1>2. CASE AddsNext
  BY <1>2, PermitKeeps, DenyKeeps DEF AddsNext
<1> QED BY <1>1, <1>2, OpensKeeps, InstallKeeps, AddFailsKeeps, UninstallKeeps, DeletesKeeps,
           DeleteFailsKeeps, ClosesKeeps DEF ProtectionNext

\* Kill switch: the deny-all stands from the end of the install to the end of
\* the uninstall, and the live filters are those of the report.
THEOREM FollowingReport == ProtectionSpec => []FiltersFollow
<1>1. ProtectionInit => ProtectionInv
  BY ProtectionStarts
<1>2. ProtectionInv /\ [ProtectionNext]_protection_vars => ProtectionInv'
  BY ProtectionStep, AllIsNoApp
<1>3. ProtectionInv => FiltersFollow
  <2> SUFFICES ASSUME ProtectionInv PROVE FiltersFollow
    OBVIOUS
  <2>1. open /\ installed /\ ~closed => "all" \in Live
    BY DEF ProtectionInv, Denying, Live
  <2>2. ~open \/ closed => Live = {}
    BY DEF ProtectionInv, Dropped, Live
  <2>3. open /\ call = NoCall /\ ~closed /\ ~failed_delete =>
          DOMAIN filters = IF installed THEN ToSet(Ordered(report)) ELSE {}
    <3>1. NoCall.pc = "idle"
      BY DEF NoCall
    <3> QED BY <3>1 DEF ProtectionInv, Matching
  <2>4. call.pc = "install" => "all" \notin Live \/ failed_delete
    <3>1. call.pc = "install" => open /\ ~closed
      BY DEF ProtectionInv, CallShape
    <3> QED BY <3>1, AllIsNoApp DEF ProtectionInv, Matching, Live
  <2> QED BY <2>1, <2>2, <2>3, <2>4 DEF FiltersFollow
<1> QED BY <1>1, <1>2, <1>3, PTL DEF ProtectionSpec

-----------------------------------------------------------------------------
(***************************************************************************)
(* The status server.  The ring holds exactly the latest MaxSeen nonces    *)
(* that were authenticated (Ring), and a nonce enters it only when it is   *)
(* not there.  Every connect of the client is one attempt that is under    *)
(* way, one challenge that is open or at most one refusal (Counted).       *)
(***************************************************************************)

Challenged == {c \in Workers : conn[c].pc = "challenged"}
Attempts == IF client = None THEN 0 ELSE 1

StatusTypes ==
  /\ conn \in [Workers -> [pc : {"free", "challenged", "serving"}, nonce : Nonces \cup {None},
                          served : Nat]]
  /\ \A c \in Workers : conn[c].pc = "challenged" => conn[c].nonce \in Nonces
  /\ status_auth_failures \in Nat /\ calls \in Nat
  /\ seen \in Seq(Nonces) /\ answered \in Seq(Nonces)

Ring ==
  /\ Len(answered) <= MaxSeen + 1
  /\ Len(seen) = IF Len(answered) > MaxSeen THEN MaxSeen ELSE Len(answered)
  /\ \A i \in 1..Len(seen) : seen[i] = answered[i + Len(answered) - Len(seen)]
  /\ Once(answered)

Counted == status_auth_failures + Cardinality(Challenged) + Attempts <= calls

StatusInv == StatusTypes /\ Ring /\ Counted

LEMMA StatusStarts == ASSUME StatusLimits PROVE StatusInit => StatusInv
<1> SUFFICES ASSUME StatusInit PROVE StatusInv
  OBVIOUS
<1>1. StatusTypes
  BY DEF StatusInit, StatusTypes, Free
<1>2. Ring
  BY StatusLimits DEF StatusInit, Ring, Once
<1>3. Challenged = {}
  BY DEF StatusInit, Challenged, Free
<1>4. Counted
  BY <1>3, FS_EmptySet DEF StatusInit, Counted, Attempts
<1> QED BY <1>1, <1>2, <1>4 DEF StatusInv

\* Connects and OpenFails touch no connection.
LEMMA ClientCalls == ASSUME StatusLimits, StatusInv, Connects \/ OpenFails PROVE StatusInv'
<1>1. StatusTypes' /\ Ring' /\ Challenged' = Challenged
  <2>1. /\ UNCHANGED <<conn, seen, status_auth_failures, answered>>
        /\ calls' = calls + 1 \/ calls' = calls
    BY DEF Connects, OpenFails
  <2>2. StatusTypes' /\ Challenged' = Challenged
    BY <2>1 DEF StatusInv, StatusTypes, Challenged
  <2>3. Ring'
    BY <2>1 DEF StatusInv, Ring, Once
  <2> QED BY <2>2, <2>3
<1>2. Cardinality(Challenged) \in Nat
  BY FS_Subset, FS_CardinalityType DEF StatusLimits, Challenged
<1>3. /\ status_auth_failures' = status_auth_failures /\ status_auth_failures \in Nat
      /\ calls \in Nat
  BY DEF Connects, OpenFails, StatusInv, StatusTypes
<1>4. Counted'
  <2>1. CASE Connects
    <3>1. Attempts = 0 /\ Attempts' \in 0..1 /\ calls' = calls + 1
      BY <2>1 DEF Connects, Attempts
    <3> QED BY <1>1, <1>2, <1>3, <3>1 DEF StatusInv, Counted
  <2>2. CASE OpenFails
    <3>1. Attempts = 1 /\ Attempts' \in 0..1 /\ calls' = calls
      BY <2>2 DEF OpenFails, Attempts
    <3> QED BY <1>1, <1>2, <1>3, <3>1 DEF StatusInv, Counted
  <2> QED BY <2>1, <2>2
<1> QED BY <1>1, <1>4 DEF StatusInv

\* Challenges: the attempt becomes an open challenge.
LEMMA ChallengesKeep ==
  ASSUME StatusLimits, StatusInv, NEW c \in Workers, NEW n \in Nonces, Challenges(c, n)
  PROVE  StatusInv'
<1>1. StatusTypes' /\ Ring'
  BY DEF Challenges, StatusInv, StatusTypes, Ring, Once
<1>2. Challenged' = Challenged \cup {c} /\ c \notin Challenged
  BY DEF Challenges, StatusInv, StatusTypes, Challenged, Free
<1>3. IsFiniteSet(Challenged) /\ Cardinality(Challenged) \in Nat
  BY FS_Subset, FS_CardinalityType DEF StatusLimits, Challenged
<1>4. Cardinality(Challenged') = Cardinality(Challenged) + 1
  BY <1>2, <1>3, FS_AddElement
<1>5. Attempts = 1 /\ Attempts' = 0
  BY DEF Challenges, Attempts
<1>6. /\ UNCHANGED <<status_auth_failures, calls>> /\ status_auth_failures \in Nat
      /\ calls \in Nat
  BY DEF Challenges, StatusInv, StatusTypes
<1>7. Counted'
  BY <1>3, <1>4, <1>5, <1>6 DEF StatusInv, Counted
<1> QED BY <1>1, <1>7 DEF StatusInv

\* A connection that is not challenged any more.
LEMMA Settled ==
  ASSUME StatusLimits, StatusInv, NEW c \in Workers, NEW r,
         conn' = [conn EXCEPT ![c] = r], r.pc # "challenged"
  PROVE  /\ Cardinality(Challenged) \in Nat /\ Cardinality(Challenged') \in Nat
         /\ Cardinality(Challenged') <= Cardinality(Challenged)
         /\ conn[c].pc = "challenged" => Cardinality(Challenged') = Cardinality(Challenged) - 1
<1>1. IsFiniteSet(Challenged) /\ Cardinality(Challenged) \in Nat
  BY FS_Subset, FS_CardinalityType DEF StatusLimits, Challenged
<1>2. Challenged' = Challenged \ {c}
  BY DEF StatusInv, StatusTypes, Challenged
<1>3. c \in Challenged <=> conn[c].pc = "challenged"
  BY DEF Challenged
<1>4. CASE c \in Challenged
  <2>1. Cardinality(Challenged \ {c}) = Cardinality(Challenged) - 1
    BY <1>1, <1>4, FS_RemoveElement
  <2>2. Cardinality(Challenged \ {c}) \in Nat
    BY <1>1, FS_Subset, FS_CardinalityType
  <2> QED BY <1>1, <1>2, <2>1, <2>2
<1>5. CASE c \notin Challenged
  <2>1. Challenged' = Challenged
    BY <1>2, <1>5
  <2> QED BY <1>1, <1>3, <1>5, <2>1
<1> QED BY <1>4, <1>5

\* Refuses: the open challenge becomes a refusal.
LEMMA RefusesKeep ==
  ASSUME StatusLimits, StatusInv, NEW c \in Workers, conn[c].pc = "challenged", Refuses(c),
         UNCHANGED <<seen, client, calls, answered>>
  PROVE  StatusInv'
<1>1. StatusTypes' /\ Ring'
  <2>1. Ring'
    BY DEF StatusInv, Ring, Once
  <2>2. Free \in [pc : {"free", "challenged", "serving"}, nonce : Nonces \cup {None}, served : Nat]
        /\ Free.pc # "challenged"
    BY DEF Free
  <2>3. conn' = [conn EXCEPT ![c] = Free] /\ status_auth_failures' = status_auth_failures + 1
    BY DEF Refuses, Drops
  <2>4. StatusTypes'
    BY <2>2, <2>3 DEF StatusInv, StatusTypes
  <2> QED BY <2>1, <2>4
<1>2. /\ Cardinality(Challenged) \in Nat
      /\ Cardinality(Challenged') = Cardinality(Challenged) - 1
  <2>1. conn' = [conn EXCEPT ![c] = Free] /\ Free.pc # "challenged"
    BY DEF Refuses, Drops, Free
  <2> QED BY <2>1, Settled
<1>3. /\ status_auth_failures' = status_auth_failures + 1 /\ status_auth_failures \in Nat
      /\ calls' = calls /\ calls \in Nat /\ Attempts' = Attempts /\ Attempts \in 0..1
  BY DEF Refuses, StatusInv, StatusTypes, Attempts
<1>4. Counted'
  BY <1>2, <1>3 DEF StatusInv, Counted
<1> QED BY <1>1, <1>4 DEF StatusInv

\* Serving and leaving count nothing.
LEMMA QuietKeep ==
  ASSUME StatusLimits, StatusInv, NEW c \in Workers, Serves(c) \/ Leaves(c)
  PROVE  StatusInv'
<1>2. PICK r \in [pc : {"free", "serving"}, nonce : Nonces \cup {None}, served : Nat] :
        conn' = [conn EXCEPT ![c] = r]
  <2>1. CASE conn' = [conn EXCEPT ![c] = Free]
    BY <2>1 DEF Free
  <2>2. CASE Serves(c) /\ conn' = [conn EXCEPT ![c].served = @ + 1]
    <3> DEFINE r == [conn[c] EXCEPT !.served = conn[c].served + 1]
    <3>1. r \in [pc : {"free", "serving"}, nonce : Nonces \cup {None}, served : Nat]
      <4>1. conn[c] \in [pc : {"free", "challenged", "serving"}, nonce : Nonces \cup {None},
                         served : Nat] /\ conn[c].pc = "serving"
        BY <2>2 DEF Serves, StatusInv, StatusTypes
      <4> QED BY <4>1
    <3>2. conn' = [conn EXCEPT ![c] = r]
      BY <2>2
    <3> QED BY <3>1, <3>2
  <2> QED BY <2>1, <2>2 DEF Serves, Leaves, Drops
<1>3. UNCHANGED <<seen, status_auth_failures, client, calls, answered>>
  BY DEF Serves, Leaves
<1>4. StatusTypes' /\ Ring'
  BY <1>2, <1>3 DEF StatusInv, StatusTypes, Ring, Once
<1>5. /\ Cardinality(Challenged) \in Nat /\ Cardinality(Challenged') \in Nat
      /\ Cardinality(Challenged') <= Cardinality(Challenged)
  <2>1. r.pc # "challenged"
    BY <1>2
  <2> QED BY <1>2, <2>1, Settled
<1>6. Counted'
  BY <1>3, <1>5 DEF StatusInv, StatusTypes, Counted, Attempts
<1> QED BY <1>4, <1>6 DEF StatusInv

\* A record of a new nonce at the end of the history and of the ring.
LEMMA RingGrows ==
  ASSUME StatusLimits, StatusTypes, Ring, NEW n \in Nonces, ~Contains(seen, n),
         seen' = Remembered(seen, n), answered' = Latest(Append(answered, n))
  PROVE  Ring' /\ seen' \in Seq(Nonces) /\ answered' \in Seq(Nonces)
<1>1. /\ MaxSeen \in Nat /\ seen \in Seq(Nonces) /\ answered \in Seq(Nonces)
      /\ Len(answered) \in Nat /\ Len(seen) \in Nat
  BY DEF StatusLimits, StatusTypes
<1>2. \A i \in 1..Len(seen) : seen[i] # n
  BY <1>1 DEF Contains
<1> DEFINE r == Append(seen, n)
           a == Append(answered, n)
<1>3. /\ r \in Seq(Nonces) /\ Len(r) = Len(seen) + 1 /\ r[Len(seen) + 1] = n
      /\ \A i \in 1..Len(seen) : r[i] = seen[i]
  BY <1>1
<1>4. /\ a \in Seq(Nonces) /\ Len(a) = Len(answered) + 1 /\ a[Len(answered) + 1] = n
      /\ \A i \in 1..Len(answered) : a[i] = answered[i]
  BY <1>1
<1> HIDE DEF r, a
<1>5. seen' = IF Len(r) > MaxSeen THEN Tail(r) ELSE r
  BY DEF Remembered, r
<1>6. answered' = IF Len(a) > MaxSeen + 1 THEN Tail(a) ELSE a
  BY DEF Latest, a
<1>7. /\ Tail(r) \in Seq(Nonces) /\ Len(Tail(r)) = Len(seen)
      /\ \A i \in 1..Len(seen) : Tail(r)[i] = r[i + 1]
  BY <1>1, <1>3, HeadTailProperties
<1>8. /\ Tail(a) \in Seq(Nonces) /\ Len(Tail(a)) = Len(answered)
      /\ \A i \in 1..Len(answered) : Tail(a)[i] = a[i + 1]
  BY <1>1, <1>4, HeadTailProperties
<1>9. /\ Len(answered) <= MaxSeen + 1
      /\ Len(seen) = IF Len(answered) > MaxSeen THEN MaxSeen ELSE Len(answered)
      /\ \A i \in 1..Len(seen) : seen[i] = answered[i + Len(answered) - Len(seen)]
      /\ \A i, j \in 1..Len(answered) : i # j => answered[i] # answered[j]
  BY DEF Ring, Once
<1>0. ASSUME Len(seen) = Len(answered), NEW i \in 1..Len(answered) PROVE answered[i] # n
  <2>1. i \in Nat /\ i + Len(answered) - Len(seen) = i /\ i \in 1..Len(seen)
    BY <1>0, <1>1
  <2>2. seen[i] = answered[i + Len(answered) - Len(seen)]
    BY <1>9, <2>1
  <2>3. seen[i] = answered[i] /\ seen[i] # n
    BY <1>2, <2>1, <2>2
  <2> QED BY <2>3
<1>10. CASE Len(answered) < MaxSeen
  <2>1. seen' = r /\ answered' = a /\ Len(seen) = Len(answered)
    BY <1>1, <1>3, <1>4, <1>5, <1>6, <1>9, <1>10
  <2>2. \A i \in 1..Len(answered) : answered[i] # n
    BY <1>0, <2>1
  <2>3. \A i, j \in 1..Len(a) : i # j => a[i] # a[j]
    BY <1>1, <1>4, <1>9, <2>2
  <2>4. Len(r) = Len(a) /\ Len(a) <= MaxSeen /\ Len(a) \in Nat
    BY <1>1, <1>3, <1>4, <1>10, <2>1
  <2>5. \A i \in 1..Len(r) : r[i] = a[i + Len(a) - Len(r)]
    <3> SUFFICES ASSUME NEW i \in 1..Len(r) PROVE r[i] = a[i + Len(a) - Len(r)]
      OBVIOUS
    <3>0. i \in Nat /\ Len(r) \in Nat /\ Len(seen) \in Nat
      BY <1>1, <2>4
    <3>1. i + Len(a) - Len(r) = i /\ (i \in 1..Len(seen) \/ i = Len(seen) + 1)
      <4>1. i + Len(a) - Len(r) = i
        BY <2>4, <3>0
      <4>2. 1 <= i /\ i <= Len(seen) + 1
        BY <1>3, <3>0
      <4> QED BY <3>0, <4>1, <4>2
    <3>2. CASE i \in 1..Len(seen)
      <4>1. i + Len(answered) - Len(seen) = i
        BY <1>1, <2>1, <3>2
      <4> QED BY <1>3, <1>4, <1>9, <2>1, <3>1, <3>2, <4>1
    <3> QED BY <1>3, <1>4, <2>1, <3>1, <3>2
  <2>6. Ring'
    BY <1>1, <2>1, <2>3, <2>4, <2>5 DEF Ring, Once
  <2> QED BY <1>3, <1>4, <2>1, <2>6
<1>11. CASE Len(answered) = MaxSeen
  <2>1. seen' = Tail(r) /\ answered' = a /\ Len(seen) = Len(answered)
    BY <1>1, <1>3, <1>4, <1>5, <1>6, <1>9, <1>11
  <2>2. \A i \in 1..Len(answered) : answered[i] # n
    BY <1>0, <2>1
  <2>3. \A i, j \in 1..Len(a) : i # j => a[i] # a[j]
    BY <1>1, <1>4, <1>9, <2>2
  <2>4. \A i \in 1..Len(seen) : Tail(r)[i] = a[i + 1]
    <3> SUFFICES ASSUME NEW i \in 1..Len(seen) PROVE Tail(r)[i] = a[i + 1]
      OBVIOUS
    <3>1. i + 1 \in 1..Len(seen) \/ i + 1 = Len(seen) + 1
      BY <1>1
    <3>2. CASE i + 1 \in 1..Len(seen)
      <4>1. (i + 1) + Len(answered) - Len(seen) = i + 1
        BY <1>1, <2>1, <3>2
      <4> QED BY <1>3, <1>4, <1>7, <1>9, <2>1, <3>2, <4>1
    <3> QED BY <1>3, <1>4, <1>7, <2>1, <3>1, <3>2
  <2>5. /\ Len(a) = MaxSeen + 1 /\ Len(Tail(r)) = MaxSeen /\ Len(a) - Len(Tail(r)) = 1
        /\ Len(seen) = MaxSeen
    BY <1>1, <1>4, <1>7, <1>11, <2>1
  <2>6. \A i \in 1..Len(Tail(r)) : Tail(r)[i] = a[i + Len(a) - Len(Tail(r))]
    BY <1>1, <2>4, <2>5
  <2>7. Len(a) > MaxSeen /\ Len(a) <= MaxSeen + 1
    BY <1>1, <2>5
  <2>8. Ring'
    BY <2>1, <2>3, <2>5, <2>6, <2>7 DEF Ring, Once
  <2> QED BY <1>4, <1>7, <2>1, <2>8
<1>12. CASE Len(answered) = MaxSeen + 1
  <2>1. seen' = Tail(r) /\ answered' = Tail(a) /\ Len(seen) = MaxSeen
    BY <1>1, <1>3, <1>4, <1>5, <1>6, <1>9, <1>12
  <2>2. \A i \in 2..Len(answered) : answered[i] # n
    <3> SUFFICES ASSUME NEW i \in 2..Len(answered) PROVE answered[i] # n
      OBVIOUS
    <3>1. i - 1 \in 1..Len(seen) /\ (i - 1) + Len(answered) - Len(seen) = i
      BY <1>1, <1>12, <2>1
    <3> QED BY <1>2, <1>9, <3>1
  <2>3. \A i, j \in 2..Len(a) : i # j => a[i] # a[j]
    <3> SUFFICES ASSUME NEW i \in 2..Len(a), NEW j \in 2..Len(a), i # j
                 PROVE  a[i] # a[j]
      OBVIOUS
    <3>1. /\ Len(answered) \in Nat
          /\ \A k \in 2..Len(a) : k = Len(answered) + 1
               \/ (k \in 2..Len(answered) /\ k \in 1..Len(answered))
      BY <1>1, <1>4
    <3>2. CASE i = Len(answered) + 1
      BY <1>4, <2>2, <3>1, <3>2
    <3>3. CASE j = Len(answered) + 1
      BY <1>4, <2>2, <3>1, <3>3
    <3>4. CASE i # Len(answered) + 1 /\ j # Len(answered) + 1
      BY <1>4, <1>9, <3>1, <3>4
    <3> QED BY <3>2, <3>3, <3>4
  <2>4. \A i, j \in 1..Len(Tail(a)) : i # j => Tail(a)[i] # Tail(a)[j]
    <3> SUFFICES ASSUME NEW i \in 1..Len(Tail(a)), NEW j \in 1..Len(Tail(a)), i # j
                 PROVE  Tail(a)[i] # Tail(a)[j]
      OBVIOUS
    <3>1. i + 1 \in 2..Len(a) /\ j + 1 \in 2..Len(a) /\ i + 1 # j + 1
      BY <1>1, <1>4, <1>8
    <3> QED BY <1>8, <2>3, <3>1
  <2>5. \A i \in 1..Len(seen) : Tail(r)[i] = Tail(a)[i + 1]
    <3> SUFFICES ASSUME NEW i \in 1..Len(seen) PROVE Tail(r)[i] = Tail(a)[i + 1]
      OBVIOUS
    <3>1. Tail(r)[i] = r[i + 1] /\ i + 1 \in 1..Len(answered) /\ Tail(a)[i + 1] = a[i + 2]
      BY <1>1, <1>7, <1>8, <1>12, <2>1
    <3>2. CASE i = Len(seen)
      BY <1>1, <1>3, <1>4, <1>12, <2>1, <3>1, <3>2
    <3>3. CASE i < Len(seen)
      <4>1. i + 1 \in 1..Len(seen) /\ (i + 1) + Len(answered) - Len(seen) = i + 2
            /\ i + 2 \in 1..Len(answered)
        BY <1>1, <1>12, <2>1, <3>3
      <4>2. r[i + 1] = seen[i + 1] /\ seen[i + 1] = answered[i + 2] /\ a[i + 2] = answered[i + 2]
        BY <1>3, <1>4, <1>9, <4>1
      <4> QED BY <3>1, <4>2
    <3>4. i = Len(seen) \/ i < Len(seen)
      BY <1>1
    <3> QED BY <3>2, <3>3, <3>4
  <2>6. /\ Len(Tail(a)) = MaxSeen + 1 /\ Len(Tail(r)) = MaxSeen /\ Len(Tail(a)) - Len(Tail(r)) = 1
    BY <1>1, <1>7, <1>8, <1>12, <2>1
  <2>7. \A i \in 1..Len(Tail(r)) : Tail(r)[i] = Tail(a)[i + Len(Tail(a)) - Len(Tail(r))]
    BY <1>1, <2>1, <2>5, <2>6
  <2> QED BY <1>1, <1>7, <1>8, <2>1, <2>4, <2>6, <2>7 DEF Ring, Once
<1> QED BY <1>1, <1>9, <1>10, <1>11, <1>12

\* Answers: a nonce of the ring is refused, another one is remembered.
LEMMA AnswersKeep ==
  ASSUME StatusLimits, StatusInv, NEW c \in Workers, Answers(c)
  PROVE  StatusInv'
<1> DEFINE n == conn[c].nonce
<1>1. conn[c].pc = "challenged" /\ n \in Nonces /\ UNCHANGED <<client, calls>>
  BY DEF Answers, StatusInv, StatusTypes
<1>2. CASE Contains(seen, n)
  <2>1. Refuses(c) /\ UNCHANGED <<seen, answered>>
    BY <1>2 DEF Answers
  <2> QED BY <1>1, <2>1, RefusesKeep
<1>3. CASE ~Contains(seen, n)
  <2>1. /\ seen' = Remembered(seen, n) /\ answered' = Latest(Append(answered, n))
        /\ conn' = [conn EXCEPT ![c].pc = "serving"] /\ UNCHANGED status_auth_failures
    BY <1>3 DEF Answers, Turns
  <2>2. Ring' /\ seen' \in Seq(Nonces) /\ answered' \in Seq(Nonces)
    BY <1>1, <1>3, <2>1, RingGrows DEF StatusInv
  <2> DEFINE r == [conn[c] EXCEPT !.pc = "serving"]
  <2>3. r \in [pc : {"free", "challenged", "serving"}, nonce : Nonces \cup {None}, served : Nat]
        /\ r.pc = "serving"
    <3>1. conn[c] \in [pc : {"free", "challenged", "serving"}, nonce : Nonces \cup {None},
                       served : Nat]
      BY DEF StatusInv, StatusTypes
    <3> QED BY <3>1
  <2>4. conn' = [conn EXCEPT ![c] = r]
    BY <2>1
  <2> HIDE DEF r
  <2>5. StatusTypes'
    BY <1>1, <2>1, <2>2, <2>3, <2>4 DEF StatusInv, StatusTypes
  <2>6. /\ Cardinality(Challenged) \in Nat /\ Cardinality(Challenged') \in Nat
        /\ Cardinality(Challenged') <= Cardinality(Challenged)
    <3>1. r.pc # "challenged"
      BY <2>3
    <3> QED BY <2>4, <3>1, Settled
  <2>7. Counted'
    BY <1>1, <2>1, <2>6 DEF StatusInv, StatusTypes, Counted, Attempts
  <2> QED BY <2>2, <2>5, <2>7 DEF StatusInv
<1> QED BY <1>2, <1>3

LEMMA StatusStep ==
  ASSUME StatusLimits, StatusInv, [StatusNext]_status_vars
  PROVE  StatusInv'
<1>1. CASE UNCHANGED status_vars
  BY <1>1 DEF status_vars, StatusInv, StatusTypes, Ring, Once, Counted, Challenged, Attempts
<1>2. ASSUME NEW c \in Workers, Rejects(c) PROVE StatusInv'
  BY <1>2, RefusesKeep DEF Rejects
<1> QED BY <1>1, <1>2, ClientCalls, ChallengesKeep, AnswersKeep, QuietKeep DEF StatusNext

\* Status server: no nonce is accepted twice within MaxSeen authentications,
\* and a connect of the client is counted as one refusal at most.
THEOREM AcceptingOnce == StatusSpec => []NonceOnce
<1>1. StatusInit => StatusInv
  BY StatusStarts, StatusLimits
<1>2. StatusInv /\ [StatusNext]_status_vars => StatusInv'
  BY StatusStep, StatusLimits
<1>3. StatusInv => NonceOnce
  <2> SUFFICES ASSUME StatusInv PROVE NonceOnce
    OBVIOUS
  <2>1. \A i, j \in 1..Len(answered) : i # j => answered[i] # answered[j]
    BY DEF StatusInv, Ring, Once
  <2>2. Cardinality(Challenged) \in Nat
    BY StatusLimits, FS_Subset, FS_CardinalityType DEF StatusLimits, Challenged
  <2>3. status_auth_failures <= calls
    BY <2>2 DEF StatusInv, StatusTypes, Counted, Attempts
  <2> QED BY <2>1, <2>3 DEF NonceOnce
<1> QED BY <1>1, <1>2, <1>3, PTL DEF StatusSpec

-----------------------------------------------------------------------------
(***************************************************************************)
(* A V1 session as a value.  IsSession gives its fields, Steerable         *)
(* says that the active path is bound whenever a path is, and that the     *)
(* adopted weights are of bound paths.  Every operation of V1Session keeps *)
(* both; the lemmas also say what it does to the bound paths.              *)
(***************************************************************************)

LEMMA LowestIn == ASSUME NEW S \in SUBSET Paths, S # {}, Paths \subseteq Nat PROVE Lowest(S) \in S
<1>1. \E p \in S : \A q \in S : p <= q
  BY LeastElement
<1> QED BY <1>1 DEF Lowest

IsSession(s, T) ==
  /\ s = [paths |-> s.paths, active |-> s.active, bonds |-> s.bonds, fresh |-> s.fresh,
          reorder |-> s.reorder]
  /\ s.paths \in [Paths -> T \cup {None}]
  /\ s.fresh \in BOOLEAN

Steerable(s) ==
  /\ s.active = None <=> Bound(s) = {}
  /\ s.active # None => s.active \in Bound(s)
  /\ s.bonds \subseteq Bound(s)
  /\ s.fresh => s.bonds # {}

LEMMA NewIsSteerable ==
  ASSUME NEW T, PathsNumbered PROVE IsSession(NewSession, T) /\ Steerable(NewSession)
  BY DEF PathsNumbered, NewSession, IsSession, Steerable, Bound

LEMMA AddPathKeeps ==
  ASSUME PathsNumbered, NEW T, None \notin T, NEW s, IsSession(s, T), Steerable(s),
         NEW p \in Paths, NEW t \in T
  PROVE  /\ IsSession(AddPath(s, p, t), T) /\ Steerable(AddPath(s, p, t))
         /\ AddPath(s, p, t).paths = [s.paths EXCEPT ![p] = t]
         /\ Bound(AddPath(s, p, t)) = Bound(s) \cup {p}
<1> DEFINE r == AddPath(s, p, t)
<1>1. r = [paths |-> [s.paths EXCEPT ![p] = t],
           active |-> IF s.active = None THEN p ELSE s.active,
           bonds |-> s.bonds, fresh |-> s.fresh, reorder |-> s.reorder]
  <2>1. s = [paths |-> s.paths, active |-> s.active, bonds |-> s.bonds, fresh |-> s.fresh,
             reorder |-> s.reorder]
    BY DEF IsSession
  <2> DEFINE u == [s EXCEPT !.paths[p] = t]
  <2>2. u = [paths |-> [s.paths EXCEPT ![p] = t], active |-> s.active, bonds |-> s.bonds,
             fresh |-> s.fresh, reorder |-> s.reorder]
    BY <2>1
  <2>3. r = [u EXCEPT !.active = IF @ = None THEN p ELSE @]
    BY DEF AddPath
  <2> HIDE DEF r, u
  <2> QED BY <2>2, <2>3
<1> HIDE DEF r
<1>2. IsSession(r, T) /\ r.paths = [s.paths EXCEPT ![p] = t]
  BY <1>1 DEF IsSession
<1>3. Bound(r) = Bound(s) \cup {p}
  BY <1>2 DEF Bound, IsSession
<1>4. Steerable(r)
  BY <1>1, <1>3 DEF Steerable, PathsNumbered
<1> QED BY <1>2, <1>3, <1>4 DEF r

LEMMA SetActiveKeeps ==
  ASSUME NEW T, NEW s, IsSession(s, T), Steerable(s), PathsNumbered, NEW p
  PROVE  /\ IsSession(SetActive(s, p), T) /\ Steerable(SetActive(s, p))
         /\ SetActive(s, p).paths = s.paths /\ Bound(SetActive(s, p)) = Bound(s)
         /\ p \in Bound(s) => SetActive(s, p).active = p
<1>1. CASE p \notin Bound(s)
  BY <1>1 DEF SetActive
<1>2. CASE p \in Bound(s)
  <2> DEFINE r == SetActive(s, p)
  <2>1. r = [paths |-> s.paths, active |-> p, bonds |-> s.bonds, fresh |-> s.fresh,
             reorder |-> s.reorder]
    <3>1. s = [paths |-> s.paths, active |-> s.active, bonds |-> s.bonds, fresh |-> s.fresh,
               reorder |-> s.reorder]
      BY DEF IsSession
    <3> QED BY <1>2, <3>1 DEF SetActive
  <2> HIDE DEF r
  <2>2. IsSession(r, T) /\ r.paths = s.paths /\ Bound(r) = Bound(s) /\ r.active = p
    BY <2>1 DEF IsSession, Bound
  <2>3. Steerable(r)
    <3>1. p # None
      BY <1>2 DEF Bound, PathsNumbered
    <3> QED BY <1>2, <2>1, <2>2, <3>1 DEF Steerable
  <2> QED BY <2>2, <2>3 DEF r
<1> QED BY <1>1, <1>2

LEMMA AdoptKeeps ==
  ASSUME NEW T, NEW s, IsSession(s, T), Steerable(s), NEW w
  PROVE  /\ IsSession(AdoptWeights(s, w), T) /\ Steerable(AdoptWeights(s, w))
         /\ AdoptWeights(s, w).paths = s.paths
<1> DEFINE r == AdoptWeights(s, w)
<1>1. r = [paths |-> s.paths, active |-> s.active, bonds |-> w \cap Bound(s),
           fresh |-> w \cap Bound(s) # {}, reorder |-> s.reorder]
  <2>1. s = [paths |-> s.paths, active |-> s.active, bonds |-> s.bonds, fresh |-> s.fresh,
             reorder |-> s.reorder]
    BY DEF IsSession
  <2> DEFINE u == [s EXCEPT !.bonds = w \cap Bound(s)]
  <2>2. u = [paths |-> s.paths, active |-> s.active, bonds |-> w \cap Bound(s), fresh |-> s.fresh,
             reorder |-> s.reorder]
    BY <2>1
  <2>3. r = [u EXCEPT !.fresh = w \cap Bound(s) # {}]
    BY DEF AdoptWeights
  <2> HIDE DEF r, u
  <2> QED BY <2>2, <2>3
<1> HIDE DEF r
<1>2. IsSession(r, T) /\ r.paths = s.paths /\ Bound(r) = Bound(s)
  BY <1>1 DEF IsSession, Bound
<1>3. Steerable(r)
  BY <1>1, <1>2 DEF Steerable
<1> QED BY <1>2, <1>3 DEF r

LEMMA ExpireKeeps ==
  ASSUME NEW T, NEW s, IsSession(s, T), Steerable(s)
  PROVE  IsSession(Expire(s), T) /\ Steerable(Expire(s)) /\ Expire(s).paths = s.paths
<1> DEFINE r == Expire(s)
<1>1. r = [paths |-> s.paths, active |-> s.active, bonds |-> {}, fresh |-> FALSE,
           reorder |-> s.reorder]
  <2>1. s = [paths |-> s.paths, active |-> s.active, bonds |-> s.bonds, fresh |-> s.fresh,
             reorder |-> s.reorder]
    BY DEF IsSession
  <2> DEFINE u == [s EXCEPT !.bonds = {}]
  <2>2. u = [paths |-> s.paths, active |-> s.active, bonds |-> {}, fresh |-> s.fresh,
             reorder |-> s.reorder]
    BY <2>1
  <2>3. r = [u EXCEPT !.fresh = FALSE]
    BY DEF Expire
  <2> HIDE DEF r, u
  <2> QED BY <2>2, <2>3
<1> HIDE DEF r
<1>2. IsSession(r, T) /\ r.paths = s.paths /\ Bound(r) = Bound(s)
  BY <1>1 DEF IsSession, Bound
<1>3. Steerable(r)
  BY <1>1, <1>2 DEF Steerable
<1> QED BY <1>2, <1>3 DEF r

LEMMA BufferKeeps ==
  ASSUME NEW T, NEW s, IsSession(s, T), Steerable(s), NEW b
  PROVE  LET r == [s EXCEPT !.reorder = b]
         IN IsSession(r, T) /\ Steerable(r) /\ r.paths = s.paths
<1> DEFINE r == [s EXCEPT !.reorder = b]
<1>1. r = [paths |-> s.paths, active |-> s.active, bonds |-> s.bonds, fresh |-> s.fresh,
           reorder |-> b]
  <2>1. s = [paths |-> s.paths, active |-> s.active, bonds |-> s.bonds, fresh |-> s.fresh,
             reorder |-> s.reorder]
    BY DEF IsSession
  <2> QED BY <2>1
<1> HIDE DEF r
<1>2. IsSession(r, T) /\ r.paths = s.paths /\ Bound(r) = Bound(s)
  BY <1>1 DEF IsSession, Bound
<1>3. Steerable(r)
  BY <1>1, <1>2 DEF Steerable
<1> QED BY <1>2, <1>3 DEF r

\* The lowest path that is left takes over from a removed active path.
LEMMA RemoveKeeps ==
  ASSUME PathsNumbered, NEW T, NEW s, IsSession(s, T), Steerable(s), NEW gone
  PROVE  /\ IsSession(RemovePaths(s, gone), T) /\ Steerable(RemovePaths(s, gone))
         /\ \A p \in Paths : RemovePaths(s, gone).paths[p] = IF p \in gone THEN None ELSE s.paths[p]
         /\ Bound(RemovePaths(s, gone)) = Bound(s) \ gone
<1>1. CASE gone \cap Bound(s) = {}
  BY <1>1 DEF RemovePaths, Bound
<1>2. CASE gone \cap Bound(s) # {}
  <2> DEFINE r == RemovePaths(s, gone)
             left == Bound(s) \ gone
  <2>1. r = [paths |-> Cleared(s, gone),
             active |-> IF s.active \in gone THEN Lowest(left) ELSE s.active,
             bonds |-> s.bonds \ gone, fresh |-> s.fresh /\ s.bonds \ gone # {},
             reorder |-> s.reorder]
    <3>1. s = [paths |-> s.paths, active |-> s.active, bonds |-> s.bonds, fresh |-> s.fresh,
               reorder |-> s.reorder]
      BY DEF IsSession
    <3> QED BY <1>2, <3>1 DEF RemovePaths
  <2> HIDE DEF r
  <2>2. IsSession(r, T) /\ \A p \in Paths : r.paths[p] = IF p \in gone THEN None ELSE s.paths[p]
    BY <2>1 DEF IsSession, Cleared
  <2>3. Bound(r) = left
    BY <2>2 DEF Bound
  <2>4. left # {} => Lowest(left) \in left
    BY LowestIn DEF PathsNumbered, Bound
  <2>5. left = {} => Lowest(left) = None
    BY DEF Lowest
  <2>6. None \notin left
    BY DEF Bound, PathsNumbered
  <2>7. s.active \in Bound(s)
    BY <1>2 DEF Steerable
  <2> HIDE DEF left
  <2>8. r.active = None <=> left = {}
    <3>1. CASE s.active \in gone
      BY <2>1, <2>4, <2>5, <2>6, <3>1
    <3>2. CASE s.active \notin gone
      <4>1. s.active \in left
        BY <2>7, <3>2 DEF left
      <4> QED BY <2>1, <2>6, <3>2, <4>1
    <3> QED BY <3>1, <3>2
  <2>9. r.active # None => r.active \in left
    BY <2>1, <2>4, <2>5, <2>7 DEF left
  <2>10. r.bonds \subseteq left /\ (r.fresh => r.bonds # {})
    BY <2>1 DEF Steerable, left
  <2>11. Steerable(r)
    BY <2>3, <2>8, <2>9, <2>10 DEF Steerable
  <2> QED BY <2>2, <2>3, <2>11 DEF r, left
<1> QED BY <1>1, <1>2

-----------------------------------------------------------------------------
(***************************************************************************)
(* The V1 tunnel.  Every session of the manager is one (Managed), and the  *)
(* paths of the sessions and the binds of the readers say the same         *)
(* (PathsOwned).  The lock regions that touch a session bind a path first  *)
(* (BindingKeeps), change it where it is (ChangeKeeps), or take away the   *)
(* paths of one reader (EvictKeeps).                                       *)
(***************************************************************************)

Managed ==
  /\ sessions = [s \in Sessions |-> sessions[s]]
  /\ \A s \in Sessions : IsSession(sessions[s], Conns) /\ Steerable(sessions[s])
  /\ binds \in [Conns -> SUBSET (Sessions \X Paths)]

TunnelInv == Managed /\ PathsOwned

LEMMA TunnelStarts == ASSUME PathsNumbered, NoneIsNoConn PROVE TunnelInit => TunnelInv
<1> SUFFICES ASSUME TunnelInit PROVE TunnelInv
  OBVIOUS
<1>1. \A s \in Sessions : sessions[s] = NewSession
  BY DEF TunnelInit, NewManager
<1>2. Managed
  BY <1>1, NewIsSteerable DEF TunnelInit, NewManager, Managed
<1>3. PathsOwned
  BY <1>1 DEF TunnelInit, NewSession, PathsOwned, NoneIsNoConn
<1> QED BY <1>2, <1>3 DEF TunnelInv

\* A path that is bound stays with the reader that bound it; one that is not
\* comes to this reader.
LEMMA BindingKeeps ==
  ASSUME PathsNumbered, NoneIsNoConn, TunnelInv,
         NEW c \in Conns, NEW s \in Sessions, NEW p \in Paths, NEW r,
         Claims(c, s, p), sessions' = [sessions EXCEPT ![s] = r],
         IsSession(r, Conns), Steerable(r), r.paths = Binding(c, s, p).paths
  PROVE  TunnelInv'
<1>1. /\ IsSession(sessions[s], Conns) /\ Steerable(sessions[s])
      /\ binds \in [Conns -> SUBSET (Sessions \X Paths)]
      /\ sessions = [z \in Sessions |-> sessions[z]]
  BY DEF TunnelInv, Managed
<1>2. sessions'[s] = r /\ \A z \in Sessions \ {s} : sessions'[z] = sessions[z]
  BY <1>1
<1>3. binds' \in [Conns -> SUBSET (Sessions \X Paths)]
  BY <1>1 DEF Claims
<1>4. Managed'
  <2>1. \A z \in Sessions : IsSession(sessions'[z], Conns) /\ Steerable(sessions'[z])
    BY <1>2 DEF TunnelInv, Managed
  <2>2. sessions' = [z \in Sessions |-> sessions'[z]]
    BY <1>1
  <2> QED BY <1>3, <2>1, <2>2 DEF Managed, IsSession, Steerable, Bound
<1>5. PathsOwned'
  <2> SUFFICES ASSUME NEW z \in Sessions, NEW q \in Paths, NEW d \in Conns
               PROVE  sessions'[z].paths[q] = d <=> <<z, q>> \in binds'[d]
    BY DEF PathsOwned
  <2>1. \A e \in Conns : sessions[z].paths[q] = e <=> <<z, q>> \in binds[e]
    BY DEF TunnelInv, PathsOwned
  <2>2. CASE p \in Bound(sessions[s])
    <3>1. binds' = binds /\ r.paths = sessions[s].paths
      BY <1>1, <2>2 DEF Claims, Binding
    <3>2. sessions'[z].paths = sessions[z].paths
      BY <1>2, <3>1
    <3> QED BY <2>1, <3>1, <3>2
  <2>3. CASE p \notin Bound(sessions[s])
    <3>1. r.paths = [sessions[s].paths EXCEPT ![p] = c]
      BY <1>1, <2>3, AddPathKeeps DEF Binding, NoneIsNoConn
    <3>2. sessions[s].paths \in [Paths -> Conns \cup {None}] /\ sessions[s].paths[p] = None
      BY <1>1, <2>3 DEF IsSession, Bound
    <3>3. binds' = [binds EXCEPT ![c] = binds[c] \cup {<<s, p>>}]
      BY <2>3 DEF Claims
    <3>4. binds'[c] = binds[c] \cup {<<s, p>>} /\ \A e \in Conns \ {c} : binds'[e] = binds[e]
      BY <1>1, <3>3
    <3>5. CASE z = s /\ q = p
      <4>1. sessions'[z].paths[q] = c
        BY <1>2, <3>1, <3>2, <3>5
      <4>2. \A e \in Conns : <<z, q>> \notin binds[e]
        BY <2>1, <3>2, <3>5 DEF NoneIsNoConn
      <4>3. CASE d = c
        BY <3>4, <3>5, <4>1, <4>3
      <4>4. CASE d # c
        BY <3>4, <4>1, <4>2, <4>4
      <4> QED BY <4>3, <4>4
    <3>6. CASE ~(z = s /\ q = p)
      <4>1. sessions'[z].paths[q] = sessions[z].paths[q]
        BY <1>2, <3>1, <3>2, <3>6
      <4>2. <<z, q>> # <<s, p>>
        BY <3>6
      <4>3. <<z, q>> \in binds'[d] <=> <<z, q>> \in binds[d]
        BY <3>4, <4>2
      <4> QED BY <2>1, <4>1, <4>3
    <3> QED BY <3>5, <3>6
  <2> QED BY <2>2, <2>3
<1> QED BY <1>4, <1>5 DEF TunnelInv

\* A session changes, none of its paths does.
LEMMA ChangeKeeps ==
  ASSUME TunnelInv, NEW s \in Sessions, NEW r, UNCHANGED binds,
         sessions' = [sessions EXCEPT ![s] = r],
         IsSession(r, Conns), Steerable(r), r.paths = sessions[s].paths
  PROVE  TunnelInv'
<1>1. sessions = [z \in Sessions |-> sessions[z]]
  BY DEF TunnelInv, Managed
<1>2. sessions'[s] = r /\ \A z \in Sessions \ {s} : sessions'[z] = sessions[z]
  BY <1>1
<1>3. Managed'
  <2>1. \A z \in Sessions : IsSession(sessions'[z], Conns) /\ Steerable(sessions'[z])
    BY <1>2 DEF TunnelInv, Managed
  <2>2. sessions' = [z \in Sessions |-> sessions'[z]]
    BY <1>1
  <2> QED BY <2>1, <2>2 DEF TunnelInv, Managed, IsSession, Steerable, Bound
<1>4. PathsOwned'
  <2> SUFFICES ASSUME NEW z \in Sessions, NEW q \in Paths, NEW d \in Conns
               PROVE  sessions'[z].paths[q] = d <=> <<z, q>> \in binds'[d]
    BY DEF PathsOwned
  <2>1. sessions[z].paths[q] = d <=> <<z, q>> \in binds[d]
    BY DEF TunnelInv, PathsOwned
  <2>2. sessions'[z].paths = sessions[z].paths
    BY <1>2
  <2> QED BY <2>1, <2>2
<1> QED BY <1>3, <1>4 DEF TunnelInv

\* What the binding of a path leaves of the session it binds it in.
LEMMA BoundKeeps ==
  ASSUME PathsNumbered, NoneIsNoConn, TunnelInv,
         NEW c \in Conns, NEW s \in Sessions, NEW p \in Paths
  PROVE  IsSession(Binding(c, s, p), Conns) /\ Steerable(Binding(c, s, p))
<1>1. IsSession(sessions[s], Conns) /\ Steerable(sessions[s])
  BY DEF TunnelInv, Managed
<1> QED BY <1>1, AddPathKeeps DEF Binding, NoneIsNoConn

LEMMA BindsKeep ==
  ASSUME PathsNumbered, NoneIsNoConn, TunnelInv,
         NEW c \in Conns, NEW s \in Sessions, NEW p \in Paths,
         \/ Init_(c, s, p) \/ Binds(c, s, p)
         \/ \E seq \in 0..MaxSeq : Data(c, s, p, seq)
         \/ \E msg \in Controls : Control(c, s, p, msg)
  PROVE  TunnelInv'
<1> DEFINE grown == Binding(c, s, p)
<1>1. IsSession(grown, Conns) /\ Steerable(grown)
  BY BoundKeeps
<1>2. CASE Claims(c, s, p) /\ sessions' = [sessions EXCEPT ![s] = grown]
  BY <1>1, <1>2, BindingKeeps
<1>3. ASSUME NEW seq \in 0..MaxSeq, Data(c, s, p, seq) PROVE TunnelInv'
  <2> DEFINE b == Deliver(sessions[s].reorder, seq)
             r == [grown EXCEPT !.reorder = b]
  <2>1. Claims(c, s, p) /\ sessions' = [sessions EXCEPT ![s] = r]
    BY <1>3 DEF Data
  <2> HIDE DEF b, grown
  <2>2. IsSession(r, Conns) /\ Steerable(r) /\ r.paths = grown.paths
    BY <1>1, BufferKeeps
  <2> HIDE DEF r
  <2> QED BY <2>1, <2>2, BindingKeeps DEF grown
<1> QED BY <1>2, <1>3 DEF Init_, Binds, Control

LEMMA ApplyKeeps ==
  ASSUME PathsNumbered, TunnelInv, NEW c \in Conns, Apply(c) PROVE TunnelInv'
<1> DEFINE s == reader[c].of
           r == IF reader[c].control[1] = "PathSelect"
                THEN SetActive(sessions[s], reader[c].control[2])
                ELSE AdoptWeights(sessions[s], reader[c].control[2])
<1>1. sessions' = [sessions EXCEPT ![s] = r] /\ UNCHANGED binds
  BY DEF Apply
<1>2. CASE s \in Sessions
  <2>1. IsSession(sessions[s], Conns) /\ Steerable(sessions[s])
    BY <1>2 DEF TunnelInv, Managed
  <2>2. IsSession(r, Conns) /\ Steerable(r) /\ r.paths = sessions[s].paths
    BY <2>1, SetActiveKeeps, AdoptKeeps
  <2> HIDE DEF r, s
  <2> QED BY <1>1, <1>2, <2>2, ChangeKeeps
<1>3. CASE s \notin Sessions
  <2>1. sessions' = sessions
    BY <1>1, <1>3 DEF TunnelInv, Managed
  <2> QED BY <1>1, <2>1 DEF TunnelInv, Managed, PathsOwned
<1> QED BY <1>2, <1>3

LEMMA ExpiryKeeps ==
  ASSUME TunnelInv, NEW s \in Sessions, WeightsExpire(s) PROVE TunnelInv'
<1>1. IsSession(sessions[s], Conns) /\ Steerable(sessions[s])
  BY DEF TunnelInv, Managed
<1>2. sessions' = [sessions EXCEPT ![s] = Expire(sessions[s])] /\ UNCHANGED binds
  BY DEF WeightsExpire
<1> QED BY <1>1, <1>2, ExpireKeeps, ChangeKeeps

\* A reader leaves with exactly the paths it bound.
LEMMA EvictKeeps ==
  ASSUME PathsNumbered, NoneIsNoConn, TunnelInv, NEW c \in Conns, Evict(c) PROVE TunnelInv'
<1> DEFINE gone(s) == {p \in Paths : <<s, p>> \in binds[c]}
<1>1. /\ sessions' = [s \in Sessions |-> RemovePaths(sessions[s], gone(s))]
      /\ binds' = [binds EXCEPT ![c] = {}]
  BY DEF Evict
<1>2. \A s \in Sessions : IsSession(sessions[s], Conns) /\ Steerable(sessions[s])
  BY DEF TunnelInv, Managed
<1>3. \A s \in Sessions :
        /\ IsSession(sessions'[s], Conns) /\ Steerable(sessions'[s])
        /\ \A p \in Paths :
             sessions'[s].paths[p] = IF <<s, p>> \in binds[c] THEN None ELSE sessions[s].paths[p]
  <2> SUFFICES ASSUME NEW s \in Sessions
               PROVE  /\ IsSession(sessions'[s], Conns) /\ Steerable(sessions'[s])
                      /\ \A p \in Paths :
                           sessions'[s].paths[p] =
                             IF p \in gone(s) THEN None ELSE sessions[s].paths[p]
    OBVIOUS
  <2>1. sessions'[s] = RemovePaths(sessions[s], gone(s))
    BY <1>1
  <2> HIDE DEF gone
  <2> QED BY <1>2, <2>1, RemoveKeeps
<1>4. /\ binds \in [Conns -> SUBSET (Sessions \X Paths)]
      /\ binds' \in [Conns -> SUBSET (Sessions \X Paths)]
      /\ binds'[c] = {} /\ \A d \in Conns \ {c} : binds'[d] = binds[d]
  BY <1>1 DEF TunnelInv, Managed
<1>5. Managed'
  <2>1. sessions' = [s \in Sessions |-> sessions'[s]]
    BY <1>1
  <2> QED BY <1>3, <1>4, <2>1 DEF Managed, IsSession, Steerable, Bound
<1>6. PathsOwned'
  <2> SUFFICES ASSUME NEW z \in Sessions, NEW q \in Paths, NEW d \in Conns
               PROVE  sessions'[z].paths[q] = d <=> <<z, q>> \in binds'[d]
    BY DEF PathsOwned
  <2>1. \A e \in Conns : sessions[z].paths[q] = e <=> <<z, q>> \in binds[e]
    BY DEF TunnelInv, PathsOwned
  <2>2. CASE <<z, q>> \in binds[c]
    <3>1. sessions[z].paths[q] = c /\ sessions'[z].paths[q] = None
      BY <1>3, <2>1, <2>2
    <3> QED BY <1>4, <2>1, <3>1 DEF NoneIsNoConn
  <2>3. CASE <<z, q>> \notin binds[c]
    <3>1. sessions[z].paths[q] # c /\ sessions'[z].paths[q] = sessions[z].paths[q]
      BY <1>3, <2>1, <2>3
    <3>2. CASE d = c
      BY <1>4, <3>1, <3>2
    <3>3. CASE d # c
      BY <1>4, <2>1, <3>1, <3>3
    <3> QED BY <3>2, <3>3
  <2> QED BY <2>2, <2>3
<1> QED BY <1>5, <1>6 DEF TunnelInv

LEMMA TunnelStep ==
  ASSUME PathsNumbered, NoneIsNoConn, TunnelInv, [TunnelNext]_tunnel_vars PROVE TunnelInv'
<1>1. ASSUME UNCHANGED <<sessions, binds>> PROVE TunnelInv'
  BY <1>1 DEF TunnelInv, Managed, PathsOwned, IsSession, Steerable, Bound
<1>2. CASE UNCHANGED tunnel_vars
  BY <1>1, <1>2 DEF tunnel_vars
<1>3. ASSUME NEW c \in Conns, Refused(c) \/ Fallback(c) \/ WriteTun(c) PROVE TunnelInv'
  BY <1>1, <1>3 DEF Refused, Fallback, WriteTun
<1>4. ASSUME NEW s \in Sessions, Steers(s) PROVE TunnelInv'
  BY <1>1, <1>4 DEF Steers
<1>5. CASE Sends
  BY <1>1, <1>5 DEF Sends
<1>6. ASSUME NEW c \in Conns, NEW s \in Sessions, NEW p \in Paths,
             \/ Init_(c, s, p) \/ Binds(c, s, p)
             \/ \E seq \in 0..MaxSeq : Data(c, s, p, seq)
             \/ \E msg \in Controls : Control(c, s, p, msg)
      PROVE  TunnelInv'
  BY <1>6, BindsKeep
<1>7. ASSUME NEW c \in Conns, Apply(c) \/ Evict(c) PROVE TunnelInv'
  BY <1>7, ApplyKeeps, EvictKeeps
<1>8. ASSUME NEW s \in Sessions, WeightsExpire(s) PROVE TunnelInv'
  BY <1>8, ExpiryKeeps
<1>9. CASE TunnelNext
  BY <1>3, <1>4, <1>5, <1>6, <1>7, <1>8, <1>9 DEF TunnelNext
<1> QED BY <1>2, <1>9

\* The inductive invariant of the V1 tunnel.
THEOREM TunnelInductive == TunnelSpec => []TunnelInv
<1>1. TunnelInit => TunnelInv
  BY TunnelStarts, PathsNumbered, NoneIsNoConn
<1>2. TunnelInv /\ [TunnelNext]_tunnel_vars => TunnelInv'
  BY TunnelStep, PathsNumbered, NoneIsNoConn
<1> QED BY <1>1, <1>2, PTL DEF TunnelSpec

\* V1 tunnel: a path is bound to the reader that will evict it, and only there.
THEOREM PathsKept == TunnelSpec => []PathsOwned
<1>1. TunnelInv => PathsOwned
  BY DEF TunnelInv
<1> QED BY <1>1, TunnelInductive, PTL

\* V1 tunnel: the active path and the adopted weights are of bound paths,
\* and a session with a path has an active one.
THEOREM Steering == TunnelSpec => []Steered
<1>1. TunnelInv => Steered
  BY DEF TunnelInv, Managed, Steerable, Steered
<1> QED BY <1>1, TunnelInductive, PTL

-----------------------------------------------------------------------------
(***************************************************************************)
(* The V1 client.  While nothing has changed since the snapshot, what the  *)
(* uplink loop holds is what is true (Healing): the paths it looks at are  *)
(* the bound ones, the path it has decided on is usable, and so is the     *)
(* active path from then on.  Promotions of failures that are still under  *)
(* way choose a usable path while there is one (ChoosesUsable), and the    *)
(* health that a removed path leaves behind is no bound path's             *)
(* (Forgotten).                                                            *)
(***************************************************************************)

Forgotten == forgetting \cap Bound(session) = {}

Healing ==
  steady =>
    /\ uplink.pc = "decide" => uplink.ids = Bound(session)
    /\ uplink.pc = "activate" => uplink.path \in Eligible
    /\ uplink.pc \in {"announce", "advertise", "send"} => session.active \in Eligible

ClientInv ==
  /\ IsSession(session, Paths) /\ Steerable(session)
  /\ uplink = [pc |-> uplink.pc, path |-> uplink.path, ids |-> uplink.ids]
  /\ steady \in BOOLEAN
  /\ Forgotten /\ Healing

LEMMA ClientStarts == ASSUME PathsNumbered PROVE ClientInit => ClientInv
<1> SUFFICES ASSUME ClientInit PROVE ClientInv
  OBVIOUS
<1> DEFINE low == Lowest(Paths)
           first == AddPath(NewSession, low, low)
<1>1. session = [first EXCEPT !.paths = [p \in Paths |-> p]]
  BY DEF ClientInit, Start
<1>2. first.active = low /\ first.bonds = {} /\ first.fresh = FALSE
      /\ session = [paths |-> [p \in Paths |-> p], active |-> low, bonds |-> {}, fresh |-> FALSE,
                    reorder |-> NewBuffer]
  BY <1>1 DEF AddPath, NewSession
<1>3. low = None <=> Paths = {}
  BY LowestIn DEF PathsNumbered, Lowest
<1>4. Paths # {} => low \in Paths
  BY LowestIn DEF PathsNumbered
<1> HIDE DEF low, first
<1>5. Bound(session) = Paths
  BY <1>2 DEF Bound, PathsNumbered
<1>6. IsSession(session, Paths) /\ Steerable(session)
  BY <1>2, <1>3, <1>4, <1>5 DEF IsSession, Steerable
<1> QED BY <1>6 DEF ClientInit, ClientInv, Resting, Forgotten, Healing

\* A step that leaves the session and the uplink loop alone, and the health of
\* every bound path unless it says that something changed.
LEMMA ElsewhereKeeps ==
  ASSUME ClientInv, UNCHANGED <<session, uplink>>, steady' \in BOOLEAN,
         steady' => steady /\ \A p \in Bound(session) : metrics'[p] = metrics[p],
         forgetting' \subseteq forgetting
  PROVE  ClientInv'
<1>1. Bound(session)' = Bound(session) /\ IsSession(session, Paths)' /\ Steerable(session)'
  BY DEF ClientInv, Bound, IsSession, Steerable
<1>2. steady' => Eligible' = Eligible
  BY <1>1 DEF Eligible, Usable
<1> QED BY <1>1, <1>2 DEF ClientInv, Forgotten, Healing

LEMMA FailKeeps ==
  ASSUME ClientInv, NEW t \in Tasks,
         \/ \E p \in Paths : FailStarts(t, p) \/ ProbeLost(t, p)
         \/ FailMarks(t) \/ FailAnnounces(t)
  PROVE  ClientInv'
<1>1. steady \in BOOLEAN
  BY DEF ClientInv
<1>2. UNCHANGED <<session, uplink, forgetting>>
  BY DEF FailStarts, ProbeLost, FailMarks, FailAnnounces, Unchanged
<1>3. steady' \in BOOLEAN /\ (steady' => steady /\ metrics' = metrics)
  <2>1. ASSUME NEW p \in Paths, ProbeLost(t, p)
        PROVE  steady' \in BOOLEAN /\ (steady' => steady /\ metrics' = metrics)
    BY <1>1, <2>1 DEF ProbeLost
  <2>2. ASSUME NEW p \in Paths, FailStarts(t, p)
        PROVE  steady' \in BOOLEAN /\ (steady' => steady /\ metrics' = metrics)
    BY <1>1, <2>2 DEF FailStarts, Unchanged
  <2>3. CASE FailMarks(t)
    BY <2>3 DEF FailMarks
  <2>4. CASE FailAnnounces(t)
    BY <1>1, <2>4 DEF FailAnnounces, Unchanged
  <2> QED BY <2>1, <2>2, <2>3, <2>4
<1> QED BY <1>2, <1>3, ElsewhereKeeps

LEMMA HealthKeeps ==
  ASSUME ClientInv, (\E p \in Paths : ProbeAnswered(p)) \/ Forgets
  PROVE  ClientInv'
<1>1. steady \in BOOLEAN
  BY DEF ClientInv
<1>2. CASE \E p \in Paths : ProbeAnswered(p)
  BY <1>1, <1>2, ElsewhereKeeps DEF ProbeAnswered
<1>3. CASE Forgets
  <2>1. \A p \in Bound(session) : metrics'[p] = metrics[p]
    BY <1>3 DEF Forgets, ClientInv, Forgotten, Bound
  <2>2. UNCHANGED <<session, uplink, steady>> /\ forgetting' = {}
    BY <1>3 DEF Forgets
  <2> QED BY <1>1, <2>1, <2>2, ElsewhereKeeps
<1> QED BY <1>2, <1>3

\* choose_path keeps to the usable paths while there is one.
LEMMA ChoosesUsable ==
  ASSUME PathsNumbered, Bound(session) # {}, NEW best \in Chooses(session.active)
  PROVE  best \in Bound(session) /\ (Eligible # {} => best \in Eligible)
<1>1. Eligible \subseteq Bound(session) /\ Scored \subseteq Eligible
      /\ Bound(session) \in SUBSET Paths
  BY DEF Eligible, Scored, Bound
<1>2. CASE Scored # {}
  BY <1>1, <1>2 DEF Chooses
<1>3. CASE Scored = {}
  <2> DEFINE rest == IF Eligible # {} THEN Eligible ELSE Bound(session)
  <2>1. best = IF session.active \in rest THEN session.active ELSE Lowest(rest)
    BY <1>3 DEF Chooses
  <2>2. rest # {} /\ rest \in SUBSET Paths /\ rest \subseteq Bound(session)
        /\ (Eligible # {} => rest = Eligible)
    BY <1>1
  <2> HIDE DEF rest
  <2>3. Lowest(rest) \in rest
    BY <2>2, LowestIn DEF PathsNumbered
  <2>4. best \in rest
    BY <2>1, <2>3
  <2> QED BY <2>2, <2>4
<1> QED BY <1>2, <1>3

LEMMA PromotesKeeps ==
  ASSUME PathsNumbered, ClientInv, NEW t \in Tasks, FailPromotes(t)
  PROVE  ClientInv'
<1>1. UNCHANGED <<metrics, forgetting, uplink, steady>>
  BY DEF FailPromotes
<1>2. CASE UNCHANGED session
  <2>1. steady \in BOOLEAN
    BY DEF ClientInv
  <2> QED BY <1>1, <1>2, <2>1, ElsewhereKeeps
<1>3. CASE \E best \in IF Bound(session) = {} THEN {} ELSE Chooses(session.active) :
             session' = SetActive(session, best)
  <2>1. PICK best \in Chooses(session.active) :
          Bound(session) # {} /\ session' = SetActive(session, best)
    BY <1>3
  <2>2. best \in Bound(session) /\ (Eligible # {} => best \in Eligible)
    BY <2>1, ChoosesUsable
  <2>3. /\ IsSession(session', Paths) /\ Steerable(session')
        /\ session'.paths = session.paths /\ session'.active = best
    BY <2>1, <2>2, SetActiveKeeps DEF ClientInv
  <2>4. Bound(session)' = Bound(session) /\ Eligible' = Eligible
    BY <1>1, <2>3 DEF Bound, Eligible, Usable
  <2>5. Healing'
    BY <1>1, <2>2, <2>3, <2>4 DEF ClientInv, Healing
  <2>6. IsSession(session, Paths)' /\ Steerable(session)'
    BY <2>3 DEF IsSession, Steerable, Bound
  <2> QED BY <1>1, <2>4, <2>5, <2>6 DEF ClientInv, Forgotten
<1> QED BY <1>2, <1>3 DEF FailPromotes

\* The uplink loop: what one step concludes the next one finds.
LEMMA UplinkKeeps ==
  ASSUME PathsNumbered, ClientInv,
         Snapshot \/ Prefers \/ UplinkAnnounces \/ Transmits
  PROVE  ClientInv'
<1>1. UNCHANGED <<session, metrics, forgetting>>
  BY DEF Snapshot, Prefers, UplinkAnnounces, Transmits, Unchanged
<1>2. /\ Bound(session)' = Bound(session) /\ Eligible' = Eligible
      /\ IsSession(session, Paths)' /\ Steerable(session)' /\ Forgotten'
  BY <1>1 DEF ClientInv, Bound, Eligible, Usable, IsSession, Steerable, Forgotten
<1>3. /\ uplink' = [pc |-> uplink'.pc, path |-> uplink'.path, ids |-> uplink'.ids]
      /\ steady' \in BOOLEAN /\ Healing'
  <2>1. CASE Snapshot
    BY <1>2, <2>1 DEF Snapshot, Resting, Healing
  <2>2. CASE Prefers
    <3>1. PICK p \in Preferred(uplink.ids) :
            uplink' = IF p = None THEN Resting
                      ELSE [pc |-> "activate", path |-> p, ids |-> {}]
      BY <2>2 DEF Prefers, Resting
    <3>2. steady' = steady /\ uplink.pc = "decide"
      BY <2>2 DEF Prefers
    <3>3. steady /\ p # None => p \in Eligible
      BY <3>2 DEF ClientInv, Healing, Preferred, Weighted, Eligible
    <3> QED BY <1>2, <3>1, <3>2, <3>3 DEF ClientInv, Healing, Resting
  <2>3. CASE UplinkAnnounces
    <3>1. /\ uplink.pc \in {"announce", "advertise"} /\ steady' = steady
          /\ uplink'.pc \in {"advertise", "send"}
          /\ uplink' = [pc |-> uplink'.pc, path |-> uplink'.path, ids |-> uplink'.ids]
      BY <2>3 DEF UplinkAnnounces, Announces, Advertises, ClientInv, Resting
    <3> QED BY <1>1, <1>2, <3>1 DEF ClientInv, Healing
  <2>4. CASE Transmits
    BY <1>2, <2>4 DEF Transmits, Resting, ClientInv, Healing
  <2> QED BY <2>1, <2>2, <2>3, <2>4
<1> QED BY <1>2, <1>3 DEF ClientInv

LEMMA ActivatesKeeps ==
  ASSUME PathsNumbered, ClientInv, Activates PROVE ClientInv'
<1>1. /\ session' = SetActive(session, uplink.path) /\ uplink.pc = "activate"
      /\ UNCHANGED <<metrics, forgetting, steady>>
      /\ uplink' = [uplink EXCEPT !.pc = "announce"]
  BY DEF Activates
<1>2. /\ IsSession(session', Paths) /\ Steerable(session') /\ session'.paths = session.paths
      /\ uplink.path \in Bound(session) => session'.active = uplink.path
  BY <1>1, SetActiveKeeps DEF ClientInv
<1>3. Bound(session)' = Bound(session) /\ Eligible' = Eligible /\ Eligible \subseteq Bound(session)
  BY <1>1, <1>2 DEF Bound, Eligible, Usable
<1>4. uplink' = [pc |-> "announce", path |-> uplink.path, ids |-> uplink.ids]
  BY <1>1 DEF ClientInv
<1>5. Healing'
  BY <1>1, <1>2, <1>3, <1>4 DEF ClientInv, Healing
<1>6. IsSession(session, Paths)' /\ Steerable(session)'
  BY <1>2 DEF IsSession, Steerable, Bound
<1> QED BY <1>1, <1>3, <1>4, <1>5, <1>6 DEF ClientInv, Forgotten

\* The rescan adds a path whose health is no removed path's, and removes
\* paths before it forgets their health.
LEMMA RescanKeeps ==
  ASSUME PathsNumbered, ClientInv,
         (\E p \in Paths : AddsPath(p)) \/ (\E listed \in SUBSET Paths : Scans(listed))
  PROVE  ClientInv'
<1>1. IsSession(session, Paths) /\ Steerable(session) /\ steady \in BOOLEAN
  BY DEF ClientInv
<1>2. ASSUME NEW p \in Paths, AddsPath(p) PROVE ClientInv'
  <2>1. IsSession(session', Paths) /\ Steerable(session')
    BY <1>1, <1>2, AddPathKeeps DEF AddsPath, PathsNumbered
  <2>2. IsSession(session, Paths)' /\ Steerable(session)'
    BY <2>1 DEF IsSession, Steerable, Bound
  <2> QED BY <1>2, <2>2 DEF AddsPath, ClientInv, Forgotten, Healing
<1>3. ASSUME NEW listed \in SUBSET Paths, Scans(listed) PROVE ClientInv'
  <2>1. PICK gone : /\ gone \subseteq Bound(session) /\ forgetting' = gone
                    /\ session' = RemovePaths(session, gone)
                    /\ steady' = (steady /\ gone = {})
                    /\ UNCHANGED <<metrics, uplink>>
    BY <1>3 DEF Scans
  <2>2. /\ IsSession(session', Paths) /\ Steerable(session')
        /\ Bound(session') = Bound(session) \ gone
    BY <1>1, <2>1, RemoveKeeps
  <2>3. IsSession(session, Paths)' /\ Steerable(session)' /\ Bound(session)' = Bound(session')
    BY <2>2 DEF IsSession, Steerable, Bound
  <2>4. gone = {} => session' = session
    BY <2>1 DEF RemovePaths
  <2>5. gone = {} => Eligible' = Eligible
    BY <2>1, <2>4 DEF Eligible, Usable, Bound
  <2>6. Healing'
    BY <2>1, <2>2, <2>3, <2>4, <2>5 DEF ClientInv, Healing
  <2> QED BY <1>1, <2>1, <2>2, <2>3, <2>6 DEF ClientInv, Forgotten
<1> QED BY <1>2, <1>3

LEMMA ClientStep ==
  ASSUME PathsNumbered, ClientInv, [ClientNext]_client_vars PROVE ClientInv'
<1>1. CASE UNCHANGED client_vars
  <2>1. UNCHANGED <<session, uplink, metrics, forgetting, steady>> /\ steady \in BOOLEAN
    BY <1>1 DEF client_vars, ClientInv
  <2> QED BY <2>1, ElsewhereKeeps
<1>2. ASSUME NEW t \in Tasks,
             \/ \E p \in Paths : FailStarts(t, p) \/ ProbeLost(t, p)
             \/ FailMarks(t) \/ FailPromotes(t) \/ FailAnnounces(t)
      PROVE  ClientInv'
  BY <1>2, FailKeeps, PromotesKeeps
<1>3. CASE ClientNext
  BY <1>2, <1>3, HealthKeeps, UplinkKeeps, ActivatesKeeps, RescanKeeps DEF ClientNext
<1> QED BY <1>1, <1>3

\* V1 client: an uplink iteration during which nothing changed leaves a
\* usable path active, whatever failures were being handled.
THEOREM Failover == ClientSpec => []FailoverHeals
<1>1. ClientInit => ClientInv
  BY ClientStarts, PathsNumbered
<1>2. ClientInv /\ [ClientNext]_client_vars => ClientInv'
  BY ClientStep, PathsNumbered
<1>3. ClientInv => FailoverHeals
  BY DEF ClientInv, Healing, FailoverHeals
<1> QED BY <1>1, <1>2, <1>3, PTL DEF ClientSpec

-----------------------------------------------------------------------------
(***************************************************************************)
(* Discovery.  The rescan never runs out of path identifiers               *)
(* (NumberedIn), no path waits longer than the grace period (Waiting), and *)
(* every quiet scan finds the candidates numbered and bound and moves each *)
(* other path one scan closer to its end (Settling).                       *)
(***************************************************************************)

Given == {path_map[i] : i \in Candidates(present)}

DiscoveryTypes ==
  /\ present \in SUBSET Ifaces
  /\ bound \in [PathIds -> Ifaces \cup {None}]
  /\ path_map \in [Ifaces -> PathIds \cup {None}]
  /\ missing \in [PathIds -> Nat]
  /\ quiet \in 0..GraceScans

Waiting ==
  \A p \in PathIds : missing[p] < GraceScans /\ (bound[p] = None => missing[p] = 0)

Settling ==
  quiet >= 1 =>
    /\ \A i \in Candidates(present) : path_map[i] \in PathIds /\ bound[path_map[i]] # None
    /\ \A p \in PathIds \ Given : bound[p] # None => missing[p] >= quiet

DiscoveryInv == DiscoveryTypes /\ Waiting /\ Settling

\* A scan gives each of its interfaces an identifier, and keeps the others.
LEMMA NumberedIn ==
  ASSUME ScanLimits, NEW map \in [Ifaces -> PathIds \cup {None}], NEW up \in SUBSET Ifaces
  PROVE  /\ Numbered(map, up) \in [Ifaces -> PathIds \cup {None}]
         /\ \A i \in up : Numbered(map, up)[i] \in PathIds
         /\ \A i \in Ifaces : map[i] # None => Numbered(map, up)[i] = map[i]
<1> DEFINE known == {i \in Ifaces : map[i] # None}
           new == up \ known
           lower(i) == {j \in new : j < i}
           r == [i \in Ifaces |-> IF i \in new THEN Cardinality(known) + Cardinality(lower(i))
                                  ELSE map[i]]
<1>1. Numbered(map, up) = r
  BY DEF Numbered
<1>2. /\ IsFiniteSet(Ifaces) /\ IsFiniteSet(known) /\ IsFiniteSet(new)
      /\ Cardinality(Ifaces) \in Nat /\ Cardinality(known) \in Nat /\ Cardinality(new) \in Nat
  BY FS_Subset, FS_CardinalityType DEF ScanLimits
<1>3. Cardinality(known) + Cardinality(new) <= Cardinality(Ifaces)
  <2>1. known \cap new = {} /\ known \cup new \subseteq Ifaces
    OBVIOUS
  <2> HIDE DEF known, new
  <2>2. Cardinality(known \cup new) = Cardinality(known) + Cardinality(new)
    <3>1. Cardinality(known \cup new)
            = Cardinality(known) + Cardinality(new) - Cardinality(known \cap new)
      BY <1>2, FS_Union
    <3>2. Cardinality(known \cap new) = 0
      BY <2>1, FS_EmptySet
    <3> QED BY <1>2, <3>1, <3>2
  <2>3. Cardinality(known \cup new) <= Cardinality(Ifaces)
    BY <1>2, <2>1, FS_Subset
  <2> QED BY <2>2, <2>3
<1>4. ASSUME NEW i \in new PROVE Cardinality(known) + Cardinality(lower(i)) \in PathIds
  <2>1. i \in Nat /\ ~(i < i)
    BY DEF ScanLimits
  <2>2. lower(i) \subseteq new \ {i}
    BY <2>1
  <2>3. Cardinality(new \ {i}) = Cardinality(new) - 1 /\ IsFiniteSet(new \ {i})
    BY <1>2, FS_RemoveElement
  <2> HIDE DEF known, new, lower
  <2>4. Cardinality(lower(i)) \in Nat /\ Cardinality(lower(i)) <= Cardinality(new \ {i})
    BY <2>2, <2>3, FS_Subset, FS_CardinalityType
  <2> QED BY <1>2, <1>3, <2>3, <2>4 DEF PathIds
<1>5. \A i \in up \ new : map[i] \in PathIds
  OBVIOUS
<1> HIDE DEF new, lower
<1>6. r \in [Ifaces -> PathIds \cup {None}] /\ \A i \in up : r[i] \in PathIds
  BY <1>4, <1>5
<1>7. \A i \in Ifaces : map[i] # None => r[i] = map[i]
  BY DEF new
<1> QED BY <1>1, <1>6, <1>7

LEMMA DiscoveryStarts == ASSUME ScanLimits PROVE DiscoveryInit => DiscoveryInv
<1> SUFFICES ASSUME DiscoveryInit PROVE DiscoveryInv
  OBVIOUS
<1>1. /\ present \in SUBSET Ifaces /\ path_map = [i \in Ifaces |-> None]
      /\ missing = [p \in PathIds |-> 0] /\ quiet = 0
  BY DEF DiscoveryInit, RescanInit
<1>2. bound \in [PathIds -> Ifaces \cup {None}]
  <2> DEFINE up == Candidates(present)
             map == Numbered([i \in Ifaces |-> None], up)
  <2>1. bound = [p \in PathIds |->
          IF \E i \in up : map[i] = p THEN CHOOSE i \in up : map[i] = p ELSE None]
    BY DEF DiscoveryInit
  <2>2. up \subseteq Ifaces
    BY <1>1 DEF Candidates
  <2> HIDE DEF up, map
  <2> QED BY <2>1, <2>2
<1> QED BY <1>1, <1>2 DEF ScanLimits, DiscoveryInv, DiscoveryTypes, Waiting, Settling

\* An interface that comes or goes starts the quiet scans anew.
LEMMA PlugsKeeps ==
  ASSUME ScanLimits, DiscoveryInv, NEW i \in Ifaces, Plugs(i) \/ Unplugs(i)
  PROVE  DiscoveryInv'
<1>1. /\ present' \in SUBSET Ifaces /\ quiet' = 0 /\ UNCHANGED <<bound, path_map, missing>>
  BY DEF Plugs, Unplugs, DiscoveryInv, DiscoveryTypes
<1> QED BY <1>1 DEF ScanLimits, DiscoveryInv, DiscoveryTypes, Waiting, Settling

LEMMA RescansKeeps ==
  ASSUME ScanLimits, DiscoveryInv, NEW refused, Rescans(refused)
  PROVE  DiscoveryInv'
<1> DEFINE up == Candidates(present)
           map == Numbered(path_map, up)
           ids == {map[i] : i \in up}
           before == {p \in PathIds : bound[p] # None}
           gone == {p \in before : Expired(Counts(ids)[p])}
<1>1. /\ refused \subseteq ids \ before /\ path_map' = map /\ present' = present
      /\ bound' = [p \in PathIds |->
           IF p \in gone THEN None
           ELSE IF p \in ids \ (before \cup refused)
                THEN CHOOSE i \in up : map[i] = p
                ELSE bound[p]]
      /\ missing' = [p \in PathIds |-> IF p \in gone THEN 0
                                       ELSE IF p \in before THEN Counts(ids)[p]
                                       ELSE missing[p]]
      /\ quiet' = IF refused # {} THEN 0 ELSE IF quiet < GraceScans THEN quiet + 1 ELSE quiet
  BY DEF Rescans
<1>2. /\ up \in SUBSET Ifaces /\ path_map \in [Ifaces -> PathIds \cup {None}]
      /\ bound \in [PathIds -> Ifaces \cup {None}] /\ missing \in [PathIds -> Nat]
      /\ quiet \in 0..GraceScans /\ present \in SUBSET Ifaces
  BY DEF DiscoveryInv, DiscoveryTypes, Candidates
<1>3. /\ map \in [Ifaces -> PathIds \cup {None}] /\ \A i \in up : map[i] \in PathIds
      /\ \A i \in Ifaces : path_map[i] # None => map[i] = path_map[i]
  <2> HIDE DEF up
  <2> QED BY <1>2, NumberedIn
<1>4. \A p \in PathIds : Counts(ids)[p] = IF p \in ids THEN 0 ELSE missing[p] + 1
  BY DEF Counts
<1>5. GraceScans \in Nat \ {0} /\ None \notin Ifaces
  BY DEF ScanLimits
<1>6. \A p \in PathIds : p \in gone <=> p \in before /\ p \notin ids /\ missing[p] + 1 >= GraceScans
  BY <1>4, <1>5 DEF Expired
<1>7. \A p \in ids : p \in PathIds /\ (CHOOSE i \in up : map[i] = p) \in up
  BY <1>3
<1>8. \A p \in PathIds : p \in before <=> bound[p] # None
  OBVIOUS
<1>9. up = Candidates(present') /\ Given' = ids
  BY <1>1 DEF Given
<1>10. quiet >= 1 => ids = Given
  <2> SUFFICES ASSUME quiet >= 1 PROVE \A i \in up : map[i] = path_map[i]
    BY DEF Given
  <2>1. None \notin PathIds
    BY FS_CardinalityType DEF ScanLimits, PathIds
  <2> QED BY <1>2, <1>3, <2>1 DEF DiscoveryInv, Settling
<1> HIDE DEF map, ids, before, gone
<1>11. DiscoveryTypes'
  <2>1. bound' \in [PathIds -> Ifaces \cup {None}]
    BY <1>1, <1>2, <1>7
  <2>2. missing' \in [PathIds -> Nat]
    BY <1>1, <1>2, <1>4
  <2>3. quiet' \in 0..GraceScans
    BY <1>1, <1>2, <1>5
  <2> QED BY <1>1, <1>2, <1>3, <2>1, <2>2, <2>3 DEF DiscoveryTypes
<1>12. Waiting'
  <2> SUFFICES ASSUME NEW p \in PathIds
               PROVE  missing'[p] < GraceScans /\ (bound'[p] = None => missing'[p] = 0)
    BY DEF Waiting
  <2>1. missing[p] \in Nat /\ missing[p] < GraceScans /\ (bound[p] = None => missing[p] = 0)
    BY <1>2 DEF DiscoveryInv, Waiting
  <2>2. CASE p \in gone
    BY <1>1, <1>5, <2>2
  <2>3. CASE p \notin gone /\ p \in before
    <3>1. missing'[p] = Counts(ids)[p] /\ bound'[p] = bound[p] /\ bound[p] # None
      BY <1>1, <1>8, <2>3
    <3> QED BY <1>4, <1>5, <1>6, <2>1, <2>3, <3>1
  <2>4. CASE p \notin gone /\ p \notin before
    <3>1. missing'[p] = missing[p] /\ bound[p] = None
      BY <1>1, <1>8, <2>4
    <3> QED BY <1>5, <2>1, <3>1
  <2> QED BY <2>2, <2>3, <2>4
<1>13. Settling'
  <2> SUFFICES ASSUME quiet' >= 1
               PROVE  /\ \A i \in up : map[i] \in PathIds /\ bound'[map[i]] # None
                      /\ \A p \in PathIds \ ids : bound'[p] # None => missing'[p] >= quiet'
    BY <1>1, <1>9 DEF Settling
  <2>1. refused = {} /\ quiet' = IF quiet < GraceScans THEN quiet + 1 ELSE quiet
    BY <1>1
  <2>2. ASSUME NEW i \in up PROVE map[i] \in PathIds /\ bound'[map[i]] # None
    <3>1. map[i] \in PathIds /\ map[i] \in ids /\ map[i] \notin gone
      BY <1>3, <1>6 DEF ids
    <3>2. CASE map[i] \in before
      BY <1>1, <1>8, <3>1, <3>2
    <3>3. CASE map[i] \notin before
      <4>1. bound'[map[i]] = CHOOSE j \in up : map[j] = map[i]
        BY <1>1, <2>1, <3>1, <3>3
      <4> QED BY <1>2, <1>5, <1>7, <3>1, <4>1
    <3> QED BY <3>1, <3>2, <3>3
  <2>3. ASSUME NEW p \in PathIds \ ids, bound'[p] # None PROVE missing'[p] >= quiet'
    <3>1. p \notin gone /\ bound'[p] = bound[p] /\ p \in before
      BY <1>1, <1>8, <2>3
    <3>2. missing'[p] = missing[p] + 1 /\ missing[p] \in Nat
      BY <1>1, <1>2, <1>4, <3>1
    <3>3. quiet >= 1 => missing[p] >= quiet
      BY <1>8, <1>10, <3>1 DEF DiscoveryInv, Settling
    <3> QED BY <1>2, <2>1, <3>2, <3>3
  <2> QED BY <2>2, <2>3
<1> QED BY <1>11, <1>12, <1>13 DEF DiscoveryInv

\* Discovery: the paths settle on the candidates once the interfaces have been
\* left alone for the grace period.
THEOREM Settlement == DiscoverySpec => []PathsSettle
<1>1. DiscoveryInit => DiscoveryInv
  BY DiscoveryStarts, ScanLimits
<1>2. DiscoveryInv /\ [DiscoveryNext]_discovery_vars => DiscoveryInv'
  <2>1. ASSUME DiscoveryInv, UNCHANGED discovery_vars PROVE DiscoveryInv'
    BY <2>1 DEF discovery_vars, DiscoveryInv, DiscoveryTypes, Waiting, Settling, Given, Candidates
  <2> QED BY <2>1, ScanLimits, PlugsKeeps, RescansKeeps DEF DiscoveryNext
<1>3. DiscoveryInv => PathsSettle
  <2> SUFFICES ASSUME DiscoveryInv PROVE PathsSettle
    OBVIOUS
  <2>1. \A p \in PathIds : bound[p] = None => missing[p] = 0
    BY DEF DiscoveryInv, Waiting
  <2>2. ASSUME quiet >= GraceScans PROVE {p \in PathIds : bound[p] # None} = Given
    <3>1. quiet >= 1 /\ GraceScans \in Nat
      BY <2>2, ScanLimits DEF ScanLimits, DiscoveryInv, DiscoveryTypes
    <3>2. \A p \in PathIds \ Given : bound[p] = None
      <4> SUFFICES ASSUME NEW p \in PathIds \ Given, bound[p] # None PROVE FALSE
        OBVIOUS
      <4>1. missing[p] >= quiet /\ missing[p] < GraceScans
        BY <3>1 DEF DiscoveryInv, Settling, Waiting
      <4>2. missing[p] \in Nat /\ quiet \in Nat
        BY <3>1 DEF DiscoveryInv, DiscoveryTypes
      <4> QED BY <2>2, <3>1, <4>1, <4>2
    <3>3. \A p \in Given : p \in PathIds /\ bound[p] # None
      BY <3>1 DEF DiscoveryInv, Settling, Given
    <3> QED BY <3>2, <3>3
  <2> QED BY <2>1, <2>2 DEF PathsSettle, Given
<1> QED BY <1>1, <1>2, <1>3, PTL DEF DiscoverySpec

=============================================================================
