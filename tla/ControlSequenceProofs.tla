------------------------- MODULE ControlSequenceProofs -------------------------
(***************************************************************************)
(* Proofs about the control connection.  ControlInv is inductive.  A frame *)
(* on its way to the client is in FromGateway, a set that only grows, so a *)
(* path the client takes was granted.  The acknowledgements on their way   *)
(* to the gateway name rising policies between the gateway's and the       *)
(* client's, so the one that arrives can only lead the gateway forward and *)
(* never past the client.                                                  *)
(***************************************************************************)
EXTENDS ControlSequence, OrderingProofs

-----------------------------------------------------------------------------
\* Frames and streams

\* The frames of the two machines.
LEMMA FrameTypes ==
  ASSUME NEW x \in Txs
  PROVE  /\ Hello(x) \in Frames /\ SessionAdmit(x) \in Frames /\ Ack(x) \in Frames
         /\ Reject(x) \in Frames /\ Close(x) \in Frames
         /\ \A p \in PathIds, e \in PathEpochs : PathAttached(x, p, e) \in Frames
BY DEF Frames, Hello, SessionAdmit, Ack, Reject, Close, PathAttached

\* What a frame's kind says about its other fields.
LEMMA FrameFields ==
  ASSUME NEW f \in Frames
  PROVE  /\ f.tx \in Txs
         /\ f.kind = "PathAttach" => f.nonce \in Nonces /\ f.pe \in PathEpochs
         /\ f.kind \in {"PathAttached", "PathDetach", "PathHealth"} =>
              f.path \in PathIds /\ f.pe \in PathEpochs
         /\ f.kind = "PolicyUpdate" => f.pe \in 1 .. MaxPolicy
<1>1. CASE f \in [tx : Txs, kind : {"ClientHello", "SessionAdmit", "Ack", "Reject", "Close"}]
  BY <1>1
<1>2. CASE f \in [tx : Txs, kind : {"PathAttach"}, nonce : Nonces, pe : PathEpochs]
  BY <1>2
<1>3. CASE f \in [tx : Txs, kind : {"PathAttached", "PathDetach", "PathHealth"},
                  path : PathIds, pe : PathEpochs]
  BY <1>3
<1>4. CASE f \in [tx : Txs, kind : {"PolicyUpdate"}, pe : 1 .. MaxPolicy]
  BY <1>4
<1> QED BY <1>1, <1>2, <1>3, <1>4 DEF Frames

\* What the two callers may ask for.
LEMMA RequestTypes ==
  ASSUME ControlBounds
  PROVE  /\ \A f \in ClientRequests : f \in Frames /\ f.kind # "Ack"
         /\ \A f \in GatewayRequests :
              /\ f \in Frames /\ f.kind \in {"PolicyUpdate", "Close"}
              /\ f.kind = "PolicyUpdate" => f.pe \in 1 .. MaxPolicy /\ f.tx = GatewayTx(f.pe)
              /\ f.kind = "Close" => f.tx = GatewayTx(0)
<1>1. ASSUME NEW f \in ClientRequests PROVE f \in Frames /\ f.kind # "Ack"
  BY DEF ClientRequests, Frames, Txs, PathAttach, PathDetach, PathHealth, Close
<1>2. ASSUME NEW f \in GatewayRequests
      PROVE  /\ f \in Frames /\ f.kind \in {"PolicyUpdate", "Close"}
             /\ f.kind = "PolicyUpdate" => f.pe \in 1 .. MaxPolicy /\ f.tx = GatewayTx(f.pe)
             /\ f.kind = "Close" => f.tx = GatewayTx(0)
  <2>1. CASE f = Close(GatewayTx(0))
    <3>1. GatewayTx(0) \in Txs
      BY DEF Txs, ControlBounds
    <3> QED BY <2>1, <3>1, FrameTypes DEF Close
  <2>2. ASSUME NEW e \in 1 .. MaxPolicy, f = PolicyUpdate(GatewayTx(e), e)
        PROVE  /\ f \in Frames /\ f.kind = "PolicyUpdate"
               /\ f.pe = e /\ f.tx = GatewayTx(e)
    <3>1. GatewayTx(e) \in Txs
      BY DEF Txs
    <3> QED BY <2>2, <3>1 DEF PolicyUpdate, Frames
  <2> QED BY <2>1, <2>2 DEF GatewayRequests
<1> QED BY <1>1, <1>2

\* A queue whose head was taken and a queue that got a frame.
LEMMA Queues ==
  ASSUME NEW S, NEW q \in Seq(S)
  PROVE  /\ q # <<>> => /\ Head(q) \in S /\ Tail(q) \in Seq(S)
                        /\ Head(q) = q[1] /\ 1 \in 1 .. Len(q)
                        /\ Len(Tail(q)) = Len(q) - 1
                        /\ \A i \in 1 .. Len(Tail(q)) :
                             i + 1 \in 1 .. Len(q) /\ Tail(q)[i] = q[i + 1]
         /\ \A f \in S : /\ Append(q, f) \in Seq(S)
                         /\ Len(Append(q, f)) = Len(q) + 1
                         /\ Append(q, f)[Len(q) + 1] = f
                         /\ \A i \in 1 .. Len(q) : Append(q, f)[i] = q[i]
OBVIOUS

\* A side sends, answers the frame at its head, or takes that frame.
LEMMA Streams ==
  ASSUME stream \in [Sides -> Seq(Frames)], NEW s \in Sides
  PROVE  LET o == Other(s)
         IN  /\ o \in Sides /\ o # s /\ Other(o) = s
             /\ \A f : Send(s, f) =>
                  /\ stream'[s] = Append(stream[s], f) /\ stream'[o] = stream[o]
                  /\ f \in Frames => stream' \in [Sides -> Seq(Frames)]
             /\ stream[s] # <<>> => \A f : Answer(s, f) =>
                  /\ stream'[s] = Tail(stream[s]) /\ stream'[o] = Append(stream[o], f)
                  /\ f \in Frames => stream' \in [Sides -> Seq(Frames)]
             /\ stream[s] # <<>> => (NoAnswer(s) =>
                  /\ stream'[s] = Tail(stream[s]) /\ stream'[o] = stream[o]
                  /\ stream' \in [Sides -> Seq(Frames)])
<1>1. Other(s) \in Sides /\ Other(s) # s /\ Other(Other(s)) = s
  BY DEF Other, Sides
<1>2. stream[s] \in Seq(Frames) /\ stream[Other(s)] \in Seq(Frames)
  BY <1>1
<1> HIDE DEF Frames, Sides
<1>3. ASSUME NEW f, Send(s, f)
      PROVE  /\ stream'[s] = Append(stream[s], f)
             /\ stream'[Other(s)] = stream[Other(s)]
             /\ f \in Frames => stream' \in [Sides -> Seq(Frames)]
  BY <1>1, <1>2, <1>3, Queues DEF Send
<1>4. ASSUME NEW f, stream[s] # <<>>, Answer(s, f)
      PROVE  /\ stream'[s] = Tail(stream[s])
             /\ stream'[Other(s)] = Append(stream[Other(s)], f)
             /\ f \in Frames => stream' \in [Sides -> Seq(Frames)]
  BY <1>1, <1>2, <1>4, Queues DEF Answer, Received
<1>5. ASSUME stream[s] # <<>>, NoAnswer(s)
      PROVE  /\ stream'[s] = Tail(stream[s])
             /\ stream'[Other(s)] = stream[Other(s)]
             /\ stream' \in [Sides -> Seq(Frames)]
  BY <1>1, <1>2, <1>5, Queues DEF NoAnswer, Received
<1> QED BY <1>1, <1>3, <1>4, <1>5

-----------------------------------------------------------------------------
\* Acknowledgements

\* A policy's transaction names the policy.
LEMMA EpochTypes ==
  ASSUME NEW f, AcksPolicy(f)
  PROVE  EpochOf(f) \in 1 .. MaxPolicy /\ EpochOf(f) \in Int /\ f.tx = GatewayTx(EpochOf(f))
<1>1. PICK e \in 1 .. MaxPolicy : f.tx = GatewayTx(e)
  BY DEF AcksPolicy
<1>2. EpochOf(f) = e
  BY <1>1 DEF EpochOf, GatewayTx
<1> QED BY <1>1, <1>2

\* The head acknowledgement is taken: what follows rises above it.
LEMMA AcksTail ==
  ASSUME NEW S, NEW q \in Seq(S), q # <<>>, NEW low \in Nat, NEW high \in Nat,
         AcksRise(q, low, high)
  PROVE  /\ AcksRise(Tail(q), low, high)
         /\ AcksPolicy(Head(q)) =>
              /\ low < EpochOf(Head(q)) /\ EpochOf(Head(q)) <= high
              /\ AcksRise(Tail(q), EpochOf(Head(q)), high)
<1> DEFINE t == Tail(q)
<1>1. /\ Head(q) = q[1] /\ 1 \in 1 .. Len(q) /\ Len(q) \in Nat
      /\ Len(t) = Len(q) - 1
      /\ \A i \in 1 .. Len(t) : i + 1 \in 1 .. Len(q) /\ t[i] = q[i + 1]
  BY Queues
<1> HIDE DEF t
<1>2. AcksRise(t, low, high)
  <2>1. \A i \in 1 .. Len(t) : AcksPolicy(t[i]) =>
          low < EpochOf(t[i]) /\ EpochOf(t[i]) <= high
    BY <1>1 DEF AcksRise
  <2>2. ASSUME NEW i \in 1 .. Len(t), NEW j \in 1 .. Len(t), i < j,
               AcksPolicy(t[i]), AcksPolicy(t[j])
        PROVE  EpochOf(t[i]) < EpochOf(t[j])
    <3>1. i + 1 < j + 1
      BY <2>2
    <3> QED BY <1>1, <2>2, <3>1 DEF AcksRise
  <2> QED BY <2>1, <2>2 DEF AcksRise
<1>3. ASSUME AcksPolicy(q[1])
      PROVE  /\ low < EpochOf(q[1]) /\ EpochOf(q[1]) <= high
             /\ AcksRise(t, EpochOf(q[1]), high)
  <2>1. ASSUME NEW i \in 1 .. Len(t), AcksPolicy(t[i])
        PROVE  EpochOf(q[1]) < EpochOf(t[i])
    <3>1. 1 < i + 1
      BY <1>1
    <3> QED BY <1>1, <1>3, <2>1, <3>1 DEF AcksRise
  <2> QED BY <1>1, <1>2, <1>3, <2>1 DEF AcksRise
<1> QED BY <1>1, <1>2, <1>3 DEF t

\* A frame that acknowledges no policy is sent.
LEMMA AcksOther ==
  ASSUME NEW S, NEW q \in Seq(S), NEW f \in S, NEW low, NEW high,
         AcksRise(q, low, high), ~AcksPolicy(f)
  PROVE  AcksRise(Append(q, f), low, high)
<1> DEFINE a == Append(q, f)
<1>1. /\ Len(q) \in Nat /\ Len(a) = Len(q) + 1 /\ a[Len(q) + 1] = f
      /\ \A i \in 1 .. Len(q) : a[i] = q[i]
  BY Queues
<1> HIDE DEF a
<1>2. \A i \in 1 .. Len(a) : AcksPolicy(a[i]) => i \in 1 .. Len(q) /\ a[i] = q[i]
  BY <1>1
<1>3. AcksRise(a, low, high)
  BY <1>2 DEF AcksRise
<1> QED BY <1>3 DEF a

\* The client acknowledges a policy newer than all before.
LEMMA AcksNewer ==
  ASSUME NEW S, NEW q \in Seq(S), NEW f \in S, NEW low \in Nat, NEW high \in Nat,
         AcksRise(q, low, high), low <= high, AcksPolicy(f), EpochOf(f) > high
  PROVE  AcksRise(Append(q, f), low, EpochOf(f))
<1> DEFINE a == Append(q, f)
           e == EpochOf(f)
<1>1. /\ Len(q) \in Nat /\ Len(a) = Len(q) + 1 /\ a[Len(q) + 1] = f
      /\ \A i \in 1 .. Len(q) : a[i] = q[i]
  BY Queues
<1>2. e \in Int /\ low < e /\ high < e
  BY EpochTypes
<1> HIDE DEF a, e
<1>3. ASSUME NEW i \in 1 .. Len(q), AcksPolicy(a[i])
      PROVE  /\ low < EpochOf(a[i]) /\ EpochOf(a[i]) < e
  <2>1. low < EpochOf(q[i]) /\ EpochOf(q[i]) <= high /\ EpochOf(q[i]) \in Int
    BY <1>1, <1>3, EpochTypes DEF AcksRise
  <2> QED BY <1>1, <1>2, <2>1
<1>4. EpochOf(a[Len(q) + 1]) = e
  BY <1>1 DEF e
<1>5. ASSUME NEW i \in 1 .. Len(a), AcksPolicy(a[i])
      PROVE  low < EpochOf(a[i]) /\ EpochOf(a[i]) <= e
  <2>1. CASE i \in 1 .. Len(q)
    <3>1. EpochOf(a[i]) \in Int
      BY <1>5, EpochTypes
    <3> QED BY <1>2, <1>3, <1>5, <2>1, <3>1
  <2>2. CASE i = Len(q) + 1
    BY <1>2, <1>4, <2>2
  <2> QED BY <1>1, <2>1, <2>2
<1>6. ASSUME NEW i \in 1 .. Len(a), NEW j \in 1 .. Len(a), i < j,
             AcksPolicy(a[i]), AcksPolicy(a[j])
      PROVE  EpochOf(a[i]) < EpochOf(a[j])
  <2>1. i \in 1 .. Len(q)
    BY <1>1, <1>6
  <2>2. CASE j \in 1 .. Len(q)
    BY <1>1, <1>6, <2>1, <2>2 DEF AcksRise
  <2>3. CASE j = Len(q) + 1
    BY <1>3, <1>4, <1>6, <2>1, <2>3
  <2> QED BY <1>1, <2>2, <2>3
<1> QED BY <1>5, <1>6 DEF AcksRise, a, e

\* No policy is acknowledged while the gateway has all the client has.
LEMMA AcksNone ==
  ASSUME NEW q, NEW low \in Nat, NEW high \in Nat, AcksRise(q, low, high), high <= low
  PROVE  \A l, h : AcksRise(q, l, h)
<1>1. ASSUME NEW i \in 1 .. Len(q), AcksPolicy(q[i]) PROVE FALSE
  <2>1. low < EpochOf(q[i]) /\ EpochOf(q[i]) <= high /\ EpochOf(q[i]) \in Int
    BY <1>1, EpochTypes DEF AcksRise
  <2> QED BY <2>1
<1> QED BY <1>1 DEF AcksRise

-----------------------------------------------------------------------------
\* What every step has to show

\* No side's policy goes back in this step.
Forward == \A s \in Sides : policy_epoch[s] <= policy_epoch'[s]

\* A grant is never taken back: attachments is never pruned.
LEMMA GrantedKept ==
  ASSUME ControlBounds,
         \A n \in Nonces : attachments[n] # None => attachments'[n] = attachments[n],
         NEW p \in PathIds, NEW e \in PathEpochs, Granted(p, e)
  PROVE  Granted(p, e)'
<1>1. PICK n \in Nonces : attachments[n] = [pe |-> e, path |-> p]
  BY DEF Granted
<1>2. attachments[n] # None
  BY <1>1 DEF ControlBounds
<1> QED BY <1>1, <1>2 DEF Granted

\* So what the gateway may have sent stays so.
LEMMA FromGatewayGrows ==
  ASSUME ControlBounds,
         \A n \in Nonces : attachments[n] # None => attachments'[n] = attachments[n],
         phase'["gateway"] = "AwaitHello" => phase["gateway"] = "AwaitHello"
  PROVE  FromGateway \subseteq FromGateway'
<1>1. ASSUME NEW f \in FromGateway PROVE f \in FromGateway'
  <2>1. f \in Frames
    BY DEF FromGateway
  <2>2. f.kind = "PathAttached" => Granted(f.path, f.pe)'
    BY <2>1, FrameFields, GrantedKept DEF FromGateway
  <2> QED BY <2>1, <2>2 DEF FromGateway
<1> QED BY <1>1

\* Paths a step unbinds, leaves alone, or binds to what was granted.
LEMMA PathsQuiet ==
  ASSUME PathsGranted, UNCHANGED <<attachments, next_path_id>>,
         \A s \in Sides, p \in PathIds :
           \/ protocol_paths'[s][p] \in {0, protocol_paths[s][p]}
           \/ Granted(p, protocol_paths'[s][p])
  PROVE  PathsGranted'
<1>2. ASSUME NEW s \in Sides, NEW p \in PathIds, protocol_paths'[s][p] # 0
      PROVE  \E n \in Nonces :
               attachments'[n] = [pe |-> protocol_paths'[s][p], path |-> p]
  <2>1. Granted(p, protocol_paths'[s][p])
    BY <1>2 DEF PathsGranted
  <2> QED BY <2>1 DEF Granted
<1>3. (Cardinality(Present(attachments)) =
         IF next_path_id = None THEN LastPathId ELSE next_path_id - 1)'
  BY DEF PathsGranted, Present
<1> QED BY <1>2, <1>3 DEF PathsGranted, Granted

\* A step that changes no policy and admits nobody.
LEMMA PolicyQuiet ==
  ASSUME PolicyOK, policy_epoch' = policy_epoch, Unadmitted' = Unadmitted,
         phase'["gateway"] = "AwaitHello" => phase["gateway"] = "AwaitHello",
         AcksRise(stream'["gateway"], policy_epoch["gateway"], policy_epoch["client"])
  PROVE  PolicyOK'
<1>1. AcksRise(stream["gateway"], policy_epoch["gateway"], policy_epoch["client"])'
  BY DEF AcksRise, AcksPolicy, EpochOf
<1>2. /\ phase'["gateway"] = "AwaitHello" => Unadmitted' /\ policy_epoch'["gateway"] = 0
      /\ IF Unadmitted'
         THEN policy_epoch'["client"] = 0 /\ policy_epoch'["gateway"] <= FirstPolicy
         ELSE /\ FirstPolicy <= policy_epoch'["client"]
              /\ policy_epoch'["gateway"] <= policy_epoch'["client"]
  BY DEF PolicyOK
<1> QED BY <1>1, <1>2 DEF PolicyOK

\* A table without its overdue entries.
LEMMA PrunedEntries ==
  ASSUME NEW m
  PROVE  /\ DOMAIN Pruned(m) = DOMAIN m
         /\ \A x \in DOMAIN m : Pruned(m)[x] # None => Pruned(m)[x] = m[x]
         /\ Pruned(m) = [x \in DOMAIN m |-> Pruned(m)[x]]
BY DEF Pruned

\* Pruning or answering a policy update keeps the table.
LEMMA PendingQuiet ==
  ASSUME PendingOK,
         \/ pending_policy' \in {pending_policy, Pruned(pending_policy)}
         \/ \E x : pending_policy' = [Pruned(pending_policy) EXCEPT ![x] = None]
  PROVE  PendingOK'
<1>1. /\ DOMAIN pending_policy' = DOMAIN pending_policy
      /\ \A x \in DOMAIN pending_policy :
           pending_policy'[x] # None => pending_policy'[x] = pending_policy[x]
  BY PrunedEntries
<1> QED BY <1>1 DEF PendingOK

\* A client step: the gateway's tables are its own.
LEMMA ClientStep ==
  ASSUME ControlBounds, ControlInv,
         UNCHANGED <<now, attachments, completed, next_path_id, pending_policy>>,
         phase' \in [Sides -> Phases], phase'["gateway"] = phase["gateway"],
         policy_epoch' \in [Sides -> Nat],
         protocol_paths' \in [Sides -> [PathIds -> PathEpochs \cup {0}]],
         \A s \in Sides, p \in PathIds :
           \/ protocol_paths'[s][p] \in {0, protocol_paths[s][p]}
           \/ Granted(p, protocol_paths'[s][p]),
         stream' \in [Sides -> Seq(Frames)],
         \/ stream'["client"] = stream["client"]
         \/ stream["client"] # <<>> /\ stream'["client"] = Tail(stream["client"]),
         PolicyOK'
  PROVE  ControlInv'
<1>1. TypeOK'
  BY DEF ControlInv, TypeOK
<1>2. PathsGranted'
  BY PathsQuiet DEF ControlInv
<1>3. FromGateway' = FromGateway
  BY DEF FromGateway, Granted
<1>4. stream'["client"] \in Seq(FromGateway)
  <2>1. stream["client"] \in Seq(FromGateway)
    BY DEF ControlInv, SentOK
  <2>2. stream["client"] # <<>> => Tail(stream["client"]) \in Seq(FromGateway)
    BY <2>1, Queues
  <2> QED BY <2>1, <2>2
<1>5. SentOK'
  BY <1>3, <1>4 DEF ControlInv, SentOK
<1>6. PendingOK'
  BY PendingQuiet DEF ControlInv
<1> QED BY <1>1, <1>2, <1>5, <1>6 DEF ControlInv

\* A gateway step: what it grants and sends.
LEMMA GatewayStep ==
  ASSUME ControlBounds, ControlInv, now' = now,
         phase' \in [Sides -> Phases],
         phase'["gateway"] = "AwaitHello" => phase["gateway"] = "AwaitHello",
         policy_epoch' \in [Sides -> Nat],
         protocol_paths' \in [Sides -> [PathIds -> PathEpochs \cup {0}]],
         attachments' \in [Nonces -> [pe : PathEpochs, path : PathIds] \cup {None}],
         next_path_id' \in PathIds \cup {None},
         \A n \in Nonces : attachments[n] # None => attachments'[n] = attachments[n],
         PathsGranted',
         completed' \in Seq([req : Frames, answer : FromGateway', exp : Nat]),
         stream' \in [Sides -> Seq(Frames)],
         \/ stream'["client"] = stream["client"]
         \/ \E f \in FromGateway' : stream'["client"] = Append(stream["client"], f),
         PolicyOK', PendingOK'
  PROVE  ControlInv'
<1>1. FromGateway \subseteq FromGateway'
  BY FromGatewayGrows
<1>2. FromGateway' \subseteq Frames
  BY DEF FromGateway
<1>3. completed' \in Seq([req : Frames, answer : Frames, exp : Nat])
  <2> DEFINE S == [req : Frames, answer : FromGateway', exp : Nat]
             T == [req : Frames, answer : Frames, exp : Nat]
  <2>1. S \subseteq T
    BY <1>2
  <2> HIDE DEF S, T
  <2>2. \A q \in Seq(S) : q \in Seq(T)
    BY <2>1
  <2> QED BY <2>2 DEF S, T
<1>4. TypeOK'
  BY <1>3 DEF ControlInv, TypeOK
<1>5. stream["client"] \in Seq(FromGateway')
  BY <1>1, SeqMonotonic DEF ControlInv, SentOK
<1>6. stream'["client"] \in Seq(FromGateway')
  <2>1. \A f \in FromGateway' : Append(stream["client"], f) \in Seq(FromGateway')
    BY <1>5, Queues
  <2> QED BY <1>5, <2>1
<1>7. SentOK'
  BY <1>6 DEF SentOK
<1> QED BY <1>4, <1>7 DEF ControlInv

-----------------------------------------------------------------------------
\* The client's steps

\* A client step that changes no policy, admits nobody and acknowledges no policy.
LEMMA ClientQuiet ==
  ASSUME ControlBounds, ControlInv,
         UNCHANGED <<now, policy_epoch, attachments, completed, next_path_id,
                     pending_policy>>,
         phase' \in [Sides -> Phases], phase'["gateway"] = phase["gateway"],
         Unadmitted' = Unadmitted,
         protocol_paths' \in [Sides -> [PathIds -> PathEpochs \cup {0}]],
         \A s \in Sides, p \in PathIds :
           \/ protocol_paths'[s][p] \in {0, protocol_paths[s][p]}
           \/ Granted(p, protocol_paths'[s][p]),
         stream' \in [Sides -> Seq(Frames)],
         \/ stream'["client"] = stream["client"]
         \/ stream["client"] # <<>> /\ stream'["client"] = Tail(stream["client"]),
         \/ stream'["gateway"] = stream["gateway"]
         \/ \E f \in Frames : /\ ~AcksPolicy(f)
                              /\ stream'["gateway"] = Append(stream["gateway"], f)
  PROVE  ControlInv' /\ Forward
<1>1. /\ stream["gateway"] \in Seq(Frames)
      /\ AcksRise(stream["gateway"], policy_epoch["gateway"], policy_epoch["client"])
  BY DEF ControlInv, TypeOK, PolicyOK, Sides
<1>2. AcksRise(stream'["gateway"], policy_epoch["gateway"], policy_epoch["client"])
  <2>1. CASE stream'["gateway"] = stream["gateway"]
    BY <1>1, <2>1
  <2>2. ASSUME NEW f \in Frames, ~AcksPolicy(f),
               stream'["gateway"] = Append(stream["gateway"], f)
        PROVE  AcksRise(stream'["gateway"], policy_epoch["gateway"], policy_epoch["client"])
    <3>1. AcksRise(Append(stream["gateway"], f), policy_epoch["gateway"],
                   policy_epoch["client"])
      BY <1>1, <2>2, AcksOther
    <3> QED BY <2>2, <3>1
  <2> QED BY <2>1, <2>2
<1>3. PolicyOK'
  BY <1>2, PolicyQuiet DEF ControlInv
<1>4. policy_epoch' \in [Sides -> Nat] /\ Forward
  BY DEF ControlInv, TypeOK, Forward
<1> QED BY <1>3, <1>4, ClientStep

\* on_outbound of the client.
LEMMA ClientSends ==
  ASSUME ControlBounds, ControlInv,
         \/ \E x \in ClientTxs : ClientHello(x)
         \/ \E f \in ClientRequests : ClientOutbound(f)
         \/ ClientExpires
  PROVE  ControlInv' /\ Forward
<1>1. /\ phase \in [Sides -> Phases] /\ stream \in [Sides -> Seq(Frames)]
      /\ protocol_paths \in [Sides -> [PathIds -> PathEpochs \cup {0}]]
      /\ "client" \in Sides /\ "gateway" \in Sides
  BY DEF ControlInv, TypeOK, Sides
<1>2. ASSUME NEW f \in Frames, ~AcksPolicy(f), Send("gateway", f)
      PROVE  /\ stream' \in [Sides -> Seq(Frames)]
             /\ stream'["client"] = stream["client"]
             /\ \E g \in Frames : ~AcksPolicy(g)
                  /\ stream'["gateway"] = Append(stream["gateway"], g)
  <2>1. Other("gateway") = "client"
    BY DEF Other
  <2> QED BY <1>1, <1>2, <2>1, Streams
<1>3. ASSUME NEW x \in ClientTxs, ClientHello(x)
      PROVE  ControlInv' /\ Forward
  <2>1. /\ UNCHANGED <<now, policy_epoch, attachments, completed, next_path_id,
                       pending_policy, protocol_paths>>
        /\ phase' = [phase EXCEPT !["client"] = "AwaitAdmit"]
        /\ phase["client"] = "AwaitHello" /\ Send("gateway", Hello(x))
    BY <1>3 DEF ClientHello, pendings, gateway_tables
  <2>2. Hello(x) \in Frames /\ ~AcksPolicy(Hello(x))
    <3>1. x \in Txs
      BY DEF Txs
    <3> QED BY <3>1, FrameTypes DEF AcksPolicy, Hello
  <2>3. /\ phase' \in [Sides -> Phases] /\ phase'["gateway"] = phase["gateway"]
        /\ Unadmitted' = Unadmitted
    BY <1>1, <2>1 DEF Phases, Unadmitted
  <2> QED BY <1>1, <1>2, <2>1, <2>2, <2>3, ClientQuiet
<1>4. ASSUME NEW f \in ClientRequests, ClientOutbound(f)
      PROVE  ControlInv' /\ Forward
  <2>1. /\ UNCHANGED <<now, policy_epoch, attachments, completed, next_path_id,
                       pending_policy, protocol_paths>>
        /\ phase' = phase \/ phase' = [phase EXCEPT !["client"] =
                                         IF f.kind = "Close" THEN "Closed" ELSE @]
        /\ phase["client"] = "Active" /\ Send("gateway", f)
    BY <1>4 DEF ClientOutbound, bindings, gateway_tables
  <2>2. f \in Frames /\ ~AcksPolicy(f)
    BY RequestTypes DEF AcksPolicy
  <2>3. /\ phase' \in [Sides -> Phases] /\ phase'["gateway"] = phase["gateway"]
        /\ Unadmitted' = Unadmitted
    BY <1>1, <2>1 DEF Phases, Unadmitted
  <2> QED BY <1>1, <1>2, <2>1, <2>2, <2>3, ClientQuiet
<1>5. CASE ClientExpires
  <2>1. /\ UNCHANGED <<now, policy_epoch, attachments, completed, next_path_id,
                       pending_policy, protocol_paths, stream>>
        /\ phase' = [phase EXCEPT !["client"] = "Closed"]
        /\ phase["client"] = "Active"
    BY <1>5 DEF ClientExpires, Expires, bindings, gateway_tables
  <2>2. /\ phase' \in [Sides -> Phases] /\ phase'["gateway"] = phase["gateway"]
        /\ Unadmitted' = Unadmitted
    BY <1>1, <2>1 DEF Phases, Unadmitted
  <2> QED BY <1>1, <2>1, <2>2, ClientQuiet
<1> QED BY <1>3, <1>4, <1>5

\* on_inbound of the client, for a frame that changes no policy.
LEMMA ClientTakesQuiet ==
  ASSUME ControlBounds, ControlInv, stream["client"] # <<>>,
         UNCHANGED <<now, policy_epoch, attachments, completed, next_path_id,
                     pending_policy>>,
         phase' \in [Sides -> Phases], phase'["gateway"] = phase["gateway"],
         Unadmitted' = Unadmitted,
         protocol_paths' \in [Sides -> [PathIds -> PathEpochs \cup {0}]],
         \A s \in Sides, p \in PathIds :
           \/ protocol_paths'[s][p] \in {0, protocol_paths[s][p]}
           \/ Granted(p, protocol_paths'[s][p]),
         \/ NoAnswer("client")
         \/ \E f \in Frames : ~AcksPolicy(f) /\ Answer("client", f)
  PROVE  ControlInv' /\ Forward
<1>1. stream \in [Sides -> Seq(Frames)] /\ "client" \in Sides
      /\ Other("client") = "gateway"
  BY DEF ControlInv, TypeOK, Sides, Other
<1>2. /\ stream' \in [Sides -> Seq(Frames)]
      /\ stream'["client"] = Tail(stream["client"])
      /\ \/ stream'["gateway"] = stream["gateway"]
         \/ \E f \in Frames : /\ ~AcksPolicy(f)
                              /\ stream'["gateway"] = Append(stream["gateway"], f)
  <2>1. CASE NoAnswer("client")
    BY <1>1, <2>1, Streams
  <2>2. ASSUME NEW f \in Frames, ~AcksPolicy(f), Answer("client", f)
        PROVE  /\ stream' \in [Sides -> Seq(Frames)]
               /\ stream'["client"] = Tail(stream["client"])
               /\ stream'["gateway"] = Append(stream["gateway"], f)
    BY <1>1, <2>2, Streams
  <2> QED BY <2>1, <2>2
<1> QED BY <1>2, ClientQuiet

\* The frame the client takes, and what it may answer.
LEMMA ClientHead ==
  ASSUME ControlInv, stream["client"] # <<>>
  PROVE  LET f == Head(stream["client"])
         IN  /\ f \in FromGateway /\ f \in Frames
             /\ Reject(f.tx) \in Frames /\ ~AcksPolicy(Reject(f.tx))
             /\ Ack(f.tx) \in Frames /\ Ack(f.tx).tx = f.tx /\ Ack(f.tx).kind = "Ack"
<1> DEFINE f == Head(stream["client"])
<1>1. stream["client"] \in Seq(FromGateway)
  BY DEF ControlInv, SentOK
<1>2. f \in FromGateway
  BY <1>1, Queues
<1> HIDE DEF f
<1>3. f \in Frames
  BY <1>2 DEF FromGateway
<1>4. f.tx \in Txs
  BY <1>3, FrameFields
<1>5. Reject(f.tx) \in Frames /\ Ack(f.tx) \in Frames
  BY <1>4, FrameTypes
<1>6. ~AcksPolicy(Reject(f.tx)) /\ Ack(f.tx).tx = f.tx /\ Ack(f.tx).kind = "Ack"
  BY DEF AcksPolicy, Reject, Ack
<1> QED BY <1>2, <1>3, <1>5, <1>6 DEF f

\* PathAttached: the path the client binds was granted.
LEMMA ClientAttachedStep ==
  ASSUME ControlBounds, ControlInv, stream["client"] # <<>>,
         ClientAttached(Head(stream["client"]), Pruned(pending_attaches)),
         UNCHANGED <<now, hello_tx, pending_policy, gateway_tables>>
  PROVE  ControlInv' /\ Forward
<1> DEFINE f == Head(stream["client"])
<1>1. /\ f \in FromGateway /\ f \in Frames
      /\ Reject(f.tx) \in Frames /\ ~AcksPolicy(Reject(f.tx))
  BY ClientHead
<1>2. /\ f.kind = "PathAttached" /\ UNCHANGED <<phase, policy_epoch>>
      /\ \/ /\ protocol_paths' = [protocol_paths EXCEPT !["client"][f.path] = f.pe]
            /\ NoAnswer("client")
         \/ /\ protocol_paths' = protocol_paths
            /\ Answer("client", Reject(f.tx))
  BY DEF ClientAttached
<1> HIDE DEF f
<1>3. f.path \in PathIds /\ f.pe \in PathEpochs /\ Granted(f.path, f.pe)
  BY <1>1, <1>2, FrameFields DEF FromGateway
<1>4. protocol_paths \in [Sides -> [PathIds -> PathEpochs \cup {0}]] /\ "client" \in Sides
  BY DEF ControlInv, TypeOK, Sides
<1>5. /\ protocol_paths' \in [Sides -> [PathIds -> PathEpochs \cup {0}]]
      /\ \A s \in Sides, p \in PathIds :
           \/ protocol_paths'[s][p] \in {0, protocol_paths[s][p]}
           \/ Granted(p, protocol_paths'[s][p])
  <2>1. CASE protocol_paths' = protocol_paths
    BY <1>4, <2>1
  <2>2. CASE protocol_paths' = [protocol_paths EXCEPT !["client"][f.path] = f.pe]
    <3>1. protocol_paths' \in [Sides -> [PathIds -> PathEpochs \cup {0}]]
      BY <1>3, <1>4, <2>2
    <3>2. ASSUME NEW s \in Sides, NEW p \in PathIds
          PROVE  \/ protocol_paths'[s][p] = protocol_paths[s][p]
                 \/ p = f.path /\ protocol_paths'[s][p] = f.pe
      BY <1>4, <2>2
    <3> QED BY <1>3, <3>1, <3>2
  <2> QED BY <1>2, <2>1, <2>2
<1>6. phase' \in [Sides -> Phases] /\ Unadmitted' = Unadmitted
  BY <1>2 DEF ControlInv, TypeOK, Unadmitted
<1>7. \/ NoAnswer("client")
      \/ \E g \in Frames : ~AcksPolicy(g) /\ Answer("client", g)
  BY <1>1, <1>2
<1> QED BY <1>2, <1>5, <1>6, <1>7, ClientTakesQuiet DEF gateway_tables

\* Ack and Reject: at most the path of the pending detach is unbound.
LEMMA ClientAnsweredStep ==
  ASSUME ControlBounds, ControlInv, stream["client"] # <<>>,
         ClientAnswered(Head(stream["client"]), Pruned(pending_detaches)),
         UNCHANGED <<now, hello_tx, pending_policy, gateway_tables>>
  PROVE  ControlInv' /\ Forward
<1>1. /\ UNCHANGED <<phase, policy_epoch>> /\ NoAnswer("client")
      /\ \/ protocol_paths' = protocol_paths
         \/ \E p : protocol_paths' = [protocol_paths EXCEPT !["client"][p] = 0]
  BY DEF ClientAnswered
<1>2. protocol_paths \in [Sides -> [PathIds -> PathEpochs \cup {0}]] /\ "client" \in Sides
  BY DEF ControlInv, TypeOK, Sides
<1>3. /\ protocol_paths' \in [Sides -> [PathIds -> PathEpochs \cup {0}]]
      /\ \A s \in Sides, p \in PathIds :
           protocol_paths'[s][p] \in {0, protocol_paths[s][p]}
  BY <1>1, <1>2
<1>4. phase' \in [Sides -> Phases] /\ Unadmitted' = Unadmitted
  BY <1>1 DEF ControlInv, TypeOK, Unadmitted
<1> QED BY <1>1, <1>3, <1>4, ClientTakesQuiet DEF gateway_tables

\* SessionAdmit: the gateway had not gone past the first policy.
LEMMA ClientAdmitted ==
  ASSUME ControlBounds, ControlInv, stream["client"] # <<>>,
         phase["client"] = "AwaitAdmit", Head(stream["client"]).kind = "SessionAdmit",
         phase' = [phase EXCEPT !["client"] = "Active"],
         policy_epoch' = [policy_epoch EXCEPT !["client"] = FirstPolicy],
         NoAnswer("client"), UNCHANGED protocol_paths,
         UNCHANGED <<now, hello_tx, pending_policy, gateway_tables>>
  PROVE  ControlInv' /\ Forward
<1>1. /\ phase \in [Sides -> Phases] /\ policy_epoch \in [Sides -> Nat]
      /\ stream \in [Sides -> Seq(Frames)] /\ Other("client") = "gateway"
      /\ Sides = {"client", "gateway"}
  BY DEF ControlInv, TypeOK, Sides, Other
<1>2. /\ stream' \in [Sides -> Seq(Frames)]
      /\ stream'["client"] = Tail(stream["client"])
      /\ stream'["gateway"] = stream["gateway"]
  BY <1>1, Streams
<1>3. /\ policy_epoch["client"] = 0 /\ policy_epoch["gateway"] \in Nat
      /\ policy_epoch["gateway"] <= FirstPolicy
      /\ AcksRise(stream["gateway"], policy_epoch["gateway"], 0)
  BY <1>1 DEF ControlInv, PolicyOK, Unadmitted
<1>4. phase["gateway"] # "AwaitHello"
  BY ClientHead DEF FromGateway
<1>5. /\ phase' \in [Sides -> Phases] /\ phase'["gateway"] = phase["gateway"]
      /\ ~Unadmitted' /\ policy_epoch' \in [Sides -> Nat]
      /\ policy_epoch'["gateway"] = policy_epoch["gateway"]
      /\ policy_epoch'["client"] = FirstPolicy
  BY <1>1 DEF Phases, Unadmitted, FirstPolicy
<1>6. AcksRise(stream'["gateway"], policy_epoch'["gateway"], policy_epoch'["client"])
  BY <1>1, <1>2, <1>3, AcksNone
<1>7. PolicyOK'
  <2>1. AcksRise(stream["gateway"], policy_epoch["gateway"], policy_epoch["client"])'
    BY <1>6 DEF AcksRise, AcksPolicy, EpochOf
  <2> QED BY <1>3, <1>4, <1>5, <2>1 DEF PolicyOK, FirstPolicy
<1>8. Forward
  BY <1>1, <1>3, <1>5 DEF Forward, FirstPolicy
<1>9. ControlInv'
  <2>1. /\ protocol_paths' \in [Sides -> [PathIds -> PathEpochs \cup {0}]]
        /\ \A s \in Sides, p \in PathIds : protocol_paths'[s][p] = protocol_paths[s][p]
    BY DEF ControlInv, TypeOK
  <2> QED BY <1>2, <1>5, <1>7, <2>1, ClientStep DEF gateway_tables
<1> QED BY <1>8, <1>9

\* PolicyUpdate: the acknowledgement that goes out leads all before it.
LEMMA ClientUpdated ==
  ASSUME ControlBounds, ControlInv, stream["client"] # <<>>,
         phase["client"] = "Active", phase' = phase,
         Head(stream["client"]).kind = "PolicyUpdate",
         NewerPolicy(Head(stream["client"]).pe), Takes(Head(stream["client"]).pe),
         Answer("client", Ack(Head(stream["client"]).tx)), UNCHANGED protocol_paths,
         UNCHANGED <<now, hello_tx, pending_policy, gateway_tables>>
  PROVE  ControlInv' /\ Forward
<1> DEFINE f == Head(stream["client"])
           a == Ack(f.tx)
<1>1. /\ phase \in [Sides -> Phases] /\ policy_epoch \in [Sides -> Nat]
      /\ stream \in [Sides -> Seq(Frames)] /\ Other("client") = "gateway"
      /\ Sides = {"client", "gateway"}
  BY DEF ControlInv, TypeOK, Sides, Other
<1>2. /\ f \in FromGateway /\ f \in Frames
      /\ a \in Frames /\ a.tx = f.tx /\ a.kind = "Ack"
  BY ClientHead
<1> HIDE DEF f, a
<1>3. f.pe \in 1 .. MaxPolicy /\ f.tx = GatewayTx(f.pe)
  BY <1>2, FrameFields DEF FromGateway, f
<1>4. AcksPolicy(a) /\ EpochOf(a) = f.pe
  BY <1>2, <1>3 DEF AcksPolicy, EpochOf, GatewayTx
<1>5. f.pe \in Nat /\ f.pe > policy_epoch["client"]
  BY <1>3 DEF NewerPolicy, f
<1>6. /\ stream' \in [Sides -> Seq(Frames)]
      /\ stream'["client"] = Tail(stream["client"])
      /\ stream'["gateway"] = Append(stream["gateway"], a)
  BY <1>1, <1>2, Streams DEF f, a
<1>7. /\ policy_epoch["client"] \in Nat /\ policy_epoch["gateway"] \in Nat
      /\ policy_epoch["gateway"] <= policy_epoch["client"]
      /\ FirstPolicy <= policy_epoch["client"]
      /\ AcksRise(stream["gateway"], policy_epoch["gateway"], policy_epoch["client"])
      /\ phase["gateway"] # "AwaitHello" /\ ~Unadmitted
      /\ stream["gateway"] \in Seq(Frames)
  BY <1>1 DEF ControlInv, PolicyOK, Unadmitted
<1>8. /\ policy_epoch' \in [Sides -> Nat]
      /\ policy_epoch'["gateway"] = policy_epoch["gateway"]
      /\ policy_epoch'["client"] = f.pe
  BY <1>1, <1>5 DEF Takes, f
<1>9. AcksRise(stream'["gateway"], policy_epoch'["gateway"], policy_epoch'["client"])
  <2>1. AcksRise(Append(stream["gateway"], a), policy_epoch["gateway"], EpochOf(a))
    BY <1>2, <1>4, <1>5, <1>7, AcksNewer
  <2> QED BY <1>4, <1>6, <1>8, <2>1
<1>10. PolicyOK'
  <2>1. AcksRise(stream["gateway"], policy_epoch["gateway"], policy_epoch["client"])'
    BY <1>9 DEF AcksRise, AcksPolicy, EpochOf
  <2>2. ~Unadmitted' /\ phase'["gateway"] # "AwaitHello"
    BY <1>7 DEF Unadmitted
  <2>3. FirstPolicy <= f.pe /\ policy_epoch["gateway"] <= f.pe
    BY <1>5, <1>7 DEF FirstPolicy
  <2> QED BY <1>8, <2>1, <2>2, <2>3 DEF PolicyOK, FirstPolicy
<1>11. Forward
  BY <1>1, <1>5, <1>7, <1>8 DEF Forward
<1>12. ControlInv'
  <2>1. /\ protocol_paths' \in [Sides -> [PathIds -> PathEpochs \cup {0}]]
        /\ \A s \in Sides, p \in PathIds : protocol_paths'[s][p] = protocol_paths[s][p]
        /\ phase' \in [Sides -> Phases]
    BY DEF ControlInv, TypeOK
  <2> QED BY <1>6, <1>8, <1>10, <2>1, ClientStep DEF gateway_tables
<1> QED BY <1>11, <1>12

\* Close, or a refusal: no policy is acknowledged.
LEMMA ClientRefuses ==
  ASSUME ControlBounds, ControlInv, stream["client"] # <<>>,
         \/ /\ Head(stream["client"]).kind = "Close" /\ phase["client"] = "Active"
            /\ phase' = [phase EXCEPT !["client"] = "Closed"]
            /\ Answer("client", Ack(Head(stream["client"]).tx))
         \/ /\ \/ phase' = phase
               \/ /\ phase["client"] = "Active"
                  /\ phase' = [phase EXCEPT !["client"] = "Closed"]
            /\ Answer("client", Reject(Head(stream["client"]).tx)),
         UNCHANGED <<policy_epoch, protocol_paths>>,
         UNCHANGED <<now, hello_tx, pending_policy, gateway_tables>>
  PROVE  ControlInv' /\ Forward
<1> DEFINE f == Head(stream["client"])
<1>1. /\ f \in FromGateway /\ f \in Frames
      /\ Reject(f.tx) \in Frames /\ ~AcksPolicy(Reject(f.tx))
      /\ Ack(f.tx) \in Frames /\ Ack(f.tx).tx = f.tx /\ Ack(f.tx).kind = "Ack"
  BY ClientHead
<1> HIDE DEF f
<1>2. f.kind = "Close" => ~AcksPolicy(Ack(f.tx))
  <2> SUFFICES ASSUME f.kind = "Close", NEW e \in 1 .. MaxPolicy, f.tx = GatewayTx(e)
               PROVE  FALSE
    BY <1>1 DEF AcksPolicy
  <2>1. f.tx = GatewayTx(0)
    BY <1>1 DEF FromGateway
  <2>2. GatewayTx(0)[2] = 0 /\ GatewayTx(e)[2] = e
    BY DEF GatewayTx
  <2>3. e # 0
    OBVIOUS
  <2> QED BY <2>1, <2>2, <2>3
<1>3. \E g \in Frames : ~AcksPolicy(g) /\ Answer("client", g)
  BY <1>1, <1>2 DEF f
<1>4. /\ phase \in [Sides -> Phases] /\ "client" \in Sides
      /\ phase' = phase \/ /\ phase["client"] = "Active"
                           /\ phase' = [phase EXCEPT !["client"] = "Closed"]
  BY DEF ControlInv, TypeOK, Sides
<1>5. /\ phase' \in [Sides -> Phases] /\ phase'["gateway"] = phase["gateway"]
      /\ Unadmitted' = Unadmitted
  BY <1>4 DEF Phases, Unadmitted, Sides
<1>6. /\ protocol_paths' \in [Sides -> [PathIds -> PathEpochs \cup {0}]]
      /\ \A s \in Sides, p \in PathIds : protocol_paths'[s][p] = protocol_paths[s][p]
  BY DEF ControlInv, TypeOK
<1> QED BY <1>3, <1>5, <1>6, ClientTakesQuiet DEF gateway_tables

\* on_inbound of the client.
LEMMA ClientInboundStep ==
  ASSUME ControlBounds, ControlInv, ClientInbound
  PROVE  ControlInv' /\ Forward
<1> DEFINE f == Head(stream["client"])
<1>1. /\ stream["client"] # <<>>
      /\ UNCHANGED <<now, hello_tx, pending_policy, gateway_tables>>
      /\ \/ /\ Expires("client")
            /\ phase' = [phase EXCEPT !["client"] = "Closed"]
            /\ Answer("client", Reject(f.tx))
            /\ UNCHANGED <<policy_epoch, protocol_paths>>
         \/ ClientAttached(f, Pruned(pending_attaches))
         \/ ClientAnswered(f, Pruned(pending_detaches))
         \/ ClientOther(f)
  BY DEF ClientInbound
<1>2. CASE /\ Expires("client")
           /\ phase' = [phase EXCEPT !["client"] = "Closed"]
           /\ Answer("client", Reject(f.tx))
           /\ UNCHANGED <<policy_epoch, protocol_paths>>
  BY <1>1, <1>2, ClientRefuses DEF Expires
<1>3. CASE ClientAttached(f, Pruned(pending_attaches))
  BY <1>1, <1>3, ClientAttachedStep
<1>4. CASE ClientAnswered(f, Pruned(pending_detaches))
  BY <1>1, <1>4, ClientAnsweredStep
<1>5. CASE ClientOther(f)
  <2> HIDE DEF f
  <2>1. /\ UNCHANGED protocol_paths
        /\ \/ /\ f.kind = "SessionAdmit" /\ phase["client"] = "AwaitAdmit"
              /\ phase' = [phase EXCEPT !["client"] = "Active"]
              /\ policy_epoch' = [policy_epoch EXCEPT !["client"] = FirstPolicy]
              /\ NoAnswer("client")
           \/ /\ f.kind = "PolicyUpdate" /\ phase["client"] = "Active"
              /\ NewerPolicy(f.pe) /\ Takes(f.pe) /\ Answer("client", Ack(f.tx))
              /\ phase' = phase
           \/ /\ f.kind = "Close" /\ phase["client"] = "Active"
              /\ phase' = [phase EXCEPT !["client"] = "Closed"]
              /\ Answer("client", Ack(f.tx)) /\ UNCHANGED policy_epoch
           \/ Answer("client", Reject(f.tx)) /\ UNCHANGED <<phase, policy_epoch>>
    BY <1>5 DEF ClientOther
  <2>2. CASE /\ f.kind = "SessionAdmit" /\ phase["client"] = "AwaitAdmit"
             /\ phase' = [phase EXCEPT !["client"] = "Active"]
             /\ policy_epoch' = [policy_epoch EXCEPT !["client"] = FirstPolicy]
             /\ NoAnswer("client")
    BY <1>1, <2>1, <2>2, ClientAdmitted DEF f
  <2>3. CASE /\ f.kind = "PolicyUpdate" /\ phase["client"] = "Active"
             /\ NewerPolicy(f.pe) /\ Takes(f.pe) /\ Answer("client", Ack(f.tx))
             /\ phase' = phase
    BY <1>1, <2>1, <2>3, ClientUpdated DEF f
  <2>4. CASE /\ f.kind = "Close" /\ phase["client"] = "Active"
             /\ phase' = [phase EXCEPT !["client"] = "Closed"]
             /\ Answer("client", Ack(f.tx)) /\ UNCHANGED policy_epoch
    BY <1>1, <2>1, <2>4, ClientRefuses DEF f
  <2>5. CASE Answer("client", Reject(f.tx)) /\ UNCHANGED <<phase, policy_epoch>>
    BY <1>1, <2>1, <2>5, ClientRefuses DEF f
  <2> QED BY <2>1, <2>2, <2>3, <2>4, <2>5
<1> QED BY <1>1, <1>2, <1>3, <1>4, <1>5

-----------------------------------------------------------------------------
\* The gateway's steps

\* A gateway step that changes no policy.
LEMMA GatewayQuiet ==
  ASSUME ControlInv, policy_epoch' = policy_epoch,
         phase' \in [Sides -> Phases], phase'["client"] = phase["client"],
         phase'["gateway"] = "AwaitHello" => phase["gateway"] = "AwaitHello",
         \/ stream'["gateway"] = stream["gateway"]
         \/ /\ stream["gateway"] # <<>>
            /\ stream'["gateway"] = Tail(stream["gateway"])
  PROVE  PolicyOK' /\ Forward /\ policy_epoch' \in [Sides -> Nat]
<1>1. /\ stream["gateway"] \in Seq(Frames) /\ policy_epoch \in [Sides -> Nat]
      /\ policy_epoch["gateway"] \in Nat /\ policy_epoch["client"] \in Nat
      /\ AcksRise(stream["gateway"], policy_epoch["gateway"], policy_epoch["client"])
  BY DEF ControlInv, TypeOK, PolicyOK, Sides
<1>2. AcksRise(stream'["gateway"], policy_epoch["gateway"], policy_epoch["client"])
  <2>1. CASE stream'["gateway"] = stream["gateway"]
    BY <1>1, <2>1
  <2>2. CASE /\ stream["gateway"] # <<>>
             /\ stream'["gateway"] = Tail(stream["gateway"])
    <3>1. AcksRise(Tail(stream["gateway"]), policy_epoch["gateway"], policy_epoch["client"])
      BY <1>1, <2>2, AcksTail
    <3> QED BY <2>2, <3>1
  <2> QED BY <2>1, <2>2
<1>3. Unadmitted' = Unadmitted
  BY DEF Unadmitted
<1>4. Forward
  BY <1>1 DEF Forward
<1> QED BY <1>1, <1>2, <1>3, <1>4, PolicyQuiet DEF ControlInv

\* What the gateway remembers, after the overdue answers are dropped.
LEMMA RememberedType ==
  ASSUME ControlBounds, ControlInv
  PROVE  Unexpired \in Seq([req : Frames, answer : FromGateway, exp : Nat])
<1> DEFINE C == [req : Frames, answer : FromGateway, exp : Nat]
           P == {i \in DOMAIN completed : completed[i].exp > now}
<1>1. completed \in Seq(C)
  BY DEF ControlInv, SentOK
<1>2. P \in SUBSET (1 .. Len(completed))
  BY <1>1
<1> HIDE DEF C, P
<1>3. Kept(completed, P) \in Seq(C)
  BY <1>1, <1>2, Retained
<1> QED BY <1>3 DEF Unexpired, C, P

\* remember keeps the type, whatever the step grants.
LEMMA RememberType ==
  ASSUME ControlBounds, ControlInv, FromGateway \subseteq FromGateway',
         NEW f \in Frames, NEW answer \in FromGateway',
         completed' = Unexpired \/ completed' = Remember(f, answer)
  PROVE  completed' \in Seq([req : Frames, answer : FromGateway', exp : Nat])
<1> DEFINE C == [req : Frames, answer : FromGateway, exp : Nat]
           D == [req : Frames, answer : FromGateway', exp : Nat]
           entry == [req |-> f, answer |-> answer, exp |-> now + CompletedTTL]
<1>1. Unexpired \in Seq(C)
  BY RememberedType
<1>2. C \subseteq D
  OBVIOUS
<1>3. entry \in D
  BY DEF ControlBounds, ControlInv, TypeOK
<1> HIDE DEF C, D, entry
<1>4. Unexpired \in Seq(D)
  BY <1>1, <1>2, SeqMonotonic
<1>5. CASE completed' = Unexpired
  BY <1>4, <1>5 DEF D
<1>6. CASE completed' = Remember(f, answer)
  <2>1. PICK kept \in {Unexpired, Tail(Unexpired)} :
          /\ completed' = Append(kept, entry)
          /\ kept = Tail(Unexpired) => Len(Unexpired) = CompletedCapacity
                                          \/ kept = Unexpired
    BY <1>6 DEF Remember, entry
  <2>2. kept \in Seq(D)
    <3>1. CASE kept = Unexpired
      BY <1>4, <3>1
    <3>2. CASE kept # Unexpired
      <4>1. kept = Tail(Unexpired) /\ Len(Unexpired) = CompletedCapacity
        BY <2>1, <3>2
      <4>2. Unexpired # <<>>
        BY <4>1 DEF ControlBounds
      <4> QED BY <1>4, <4>1, <4>2, Queues
    <3> QED BY <3>1, <3>2
  <2>3. Append(kept, entry) \in Seq(D)
    BY <1>3, <2>2, Queues
  <2> QED BY <2>1, <2>3 DEF D
<1> QED BY <1>5, <1>6

\* Answers that need no grant.
LEMMA PlainAnswers ==
  ASSUME NEW x \in Txs
  PROVE  /\ Reject(x) \in FromGateway /\ Reject(x) \in FromGateway'
         /\ Ack(x) \in FromGateway /\ Ack(x) \in FromGateway'
         /\ phase'["gateway"] # "AwaitHello" => SessionAdmit(x) \in FromGateway'
<1>1. /\ Reject(x) \in Frames /\ Ack(x) \in Frames /\ SessionAdmit(x) \in Frames
      /\ Reject(x).kind = "Reject" /\ Ack(x).kind = "Ack"
      /\ SessionAdmit(x).kind = "SessionAdmit"
  BY FrameTypes DEF Reject, Ack, SessionAdmit
<1> QED BY <1>1 DEF FromGateway

\* completed_action: a repeated answer was given before.
LEMMA ReplayType ==
  ASSUME ControlBounds, ControlInv, NEW f \in Frames, Answered(f) # {}
  PROVE  ReplayOf(f) \in FromGateway
<1> DEFINE i == CHOOSE k \in Answered(f) : \A j \in Answered(f) : k <= j
<1>1. Answered(f) \in SUBSET (1 .. Len(Unexpired)) /\ Len(Unexpired) \in Nat
  <2>1. Unexpired \in Seq([req : Frames, answer : FromGateway, exp : Nat])
    BY RememberedType
  <2>2. Len(Unexpired) \in Nat
    BY <2>1
  <2> QED BY <2>2 DEF Answered
<1>2. Answered(f) \in SUBSET Nat /\ IsFiniteSet(Answered(f))
  <2>1. IsFiniteSet(1 .. Len(Unexpired)) /\ (1 .. Len(Unexpired)) \subseteq Nat
    BY <1>1, FS_Interval
  <2> QED BY <1>1, <2>1, FS_Subset
<1>3. i \in Answered(f)
  <2>1. \E k \in Answered(f) : \A j \in Answered(f) : k <= j
    BY <1>2, Least
  <2> QED BY <2>1
<1>4. ReplayOf(f) = IF Unexpired[i].req = f THEN Unexpired[i].answer ELSE Reject(f.tx)
  BY DEF ReplayOf
<1> HIDE DEF i
<1>5. Unexpired[i].answer \in FromGateway
  <2>1. i \in 1 .. Len(Unexpired)
    BY <1>1, <1>3
  <2> DEFINE C == [req : Frames, answer : FromGateway, exp : Nat]
  <2>2. \A c \in C : c.answer \in FromGateway
    OBVIOUS
  <2>3. Unexpired \in Seq(C)
    BY RememberedType
  <2> HIDE DEF C
  <2>4. Unexpired[i] \in C
    BY <2>1, <2>3
  <2> QED BY <2>2, <2>4
<1>6. Reject(f.tx) \in FromGateway
  BY FrameFields, PlainAnswers
<1> QED BY <1>4, <1>5, <1>6

\* on_inbound of the gateway: a frame is answered, or taken without an answer.
LEMMA GatewayTakes ==
  ASSUME ControlBounds, ControlInv, stream["gateway"] # <<>>, now' = now,
         phase' \in [Sides -> Phases],
         phase'["gateway"] = "AwaitHello" => phase["gateway"] = "AwaitHello",
         policy_epoch' \in [Sides -> Nat],
         protocol_paths' \in [Sides -> [PathIds -> PathEpochs \cup {0}]],
         attachments' \in [Nonces -> [pe : PathEpochs, path : PathIds] \cup {None}],
         next_path_id' \in PathIds \cup {None},
         \A n \in Nonces : attachments[n] # None => attachments'[n] = attachments[n],
         PathsGranted', PolicyOK', PendingOK',
         NEW a \in FromGateway', Answer("gateway", a) \/ NoAnswer("gateway"),
         NEW f \in Frames,
         completed' = Unexpired \/ completed' = Remember(f, a)
  PROVE  ControlInv'
<1>1. FromGateway \subseteq FromGateway'
  BY FromGatewayGrows
<1>2. completed' \in Seq([req : Frames, answer : FromGateway', exp : Nat])
  BY <1>1, RememberType
<1>3. stream \in [Sides -> Seq(Frames)] /\ "gateway" \in Sides
      /\ Other("gateway") = "client" /\ a \in Frames
  BY DEF ControlInv, TypeOK, Sides, Other, FromGateway
<1>4. /\ stream' \in [Sides -> Seq(Frames)]
      /\ \/ stream'["client"] = stream["client"]
         \/ stream'["client"] = Append(stream["client"], a)
  <2>1. CASE Answer("gateway", a)
    BY <1>3, <2>1, Streams
  <2>2. CASE NoAnswer("gateway")
    BY <1>3, <2>2, Streams
  <2> QED BY <2>1, <2>2
<1> QED BY <1>2, <1>4, GatewayStep

\* Such a step that changes no policy and attaches nothing.
LEMMA GatewayTakesQuiet ==
  ASSUME ControlBounds, ControlInv, stream["gateway"] # <<>>,
         UNCHANGED <<now, policy_epoch, attachments, next_path_id>>,
         phase' \in [Sides -> Phases], phase'["client"] = phase["client"],
         phase'["gateway"] = "AwaitHello" => phase["gateway"] = "AwaitHello",
         protocol_paths' \in [Sides -> [PathIds -> PathEpochs \cup {0}]],
         \A s \in Sides, p \in PathIds :
           protocol_paths'[s][p] \in {0, protocol_paths[s][p]},
         \/ pending_policy' = Pruned(pending_policy)
         \/ \E x : pending_policy' = [Pruned(pending_policy) EXCEPT ![x] = None],
         NEW a \in FromGateway', Answer("gateway", a) \/ NoAnswer("gateway"),
         NEW f \in Frames,
         completed' = Unexpired \/ completed' = Remember(f, a)
  PROVE  ControlInv' /\ Forward
<1>1. stream \in [Sides -> Seq(Frames)] /\ "gateway" \in Sides
  BY DEF ControlInv, TypeOK, Sides
<1>2. stream'["gateway"] = Tail(stream["gateway"])
  BY <1>1, Streams
<1>3. PolicyOK' /\ Forward /\ policy_epoch' \in [Sides -> Nat]
  BY <1>2, GatewayQuiet
<1>4. PendingOK'
  BY PendingQuiet DEF ControlInv
<1>5. PathsGranted'
  BY PathsQuiet DEF ControlInv
<1>6. /\ attachments' \in [Nonces -> [pe : PathEpochs, path : PathIds] \cup {None}]
      /\ next_path_id' \in PathIds \cup {None}
  BY DEF ControlInv, TypeOK
<1>7. \A n \in Nonces : attachments'[n] = attachments[n]
  OBVIOUS
<1> QED BY <1>3, <1>4, <1>5, <1>6, <1>7, GatewayTakes

\* on_outbound of the gateway: a policy under its own transaction, or a close.
LEMMA GatewaySends ==
  ASSUME ControlBounds, ControlInv,
         GatewayExpires \/ \E f \in GatewayRequests : GatewayOutbound(f)
  PROVE  ControlInv' /\ Forward
<1>1. /\ phase \in [Sides -> Phases] /\ stream \in [Sides -> Seq(Frames)]
      /\ "client" \in Sides /\ "gateway" \in Sides
  BY DEF ControlInv, TypeOK, Sides
<1>2. /\ UNCHANGED <<now, policy_epoch, protocol_paths, attachments, completed,
                     next_path_id>>
      /\ phase["gateway"] = "Active"
      /\ phase' = phase \/ phase' = [phase EXCEPT !["gateway"] = "Closed"]
  BY DEF GatewayExpires, GatewayOutbound, Expires, bindings, gateway_tables
<1>3. /\ phase' \in [Sides -> Phases] /\ phase'["client"] = phase["client"]
      /\ phase'["gateway"] # "AwaitHello"
  BY <1>1, <1>2 DEF Phases
<1>4. FromGateway \subseteq FromGateway'
  BY <1>2, <1>3, FromGatewayGrows
<1>5. completed' \in Seq([req : Frames, answer : FromGateway', exp : Nat])
  <2> DEFINE C == [req : Frames, answer : FromGateway, exp : Nat]
             D == [req : Frames, answer : FromGateway', exp : Nat]
  <2>1. C \subseteq D
    BY <1>4
  <2>2. completed \in Seq(C)
    BY DEF ControlInv, SentOK
  <2> HIDE DEF C, D
  <2>3. completed' \in Seq(D)
    BY <1>2, <2>1, <2>2, SeqMonotonic
  <2> QED BY <2>3 DEF D
<1>6. /\ protocol_paths' \in [Sides -> [PathIds -> PathEpochs \cup {0}]]
      /\ attachments' \in [Nonces -> [pe : PathEpochs, path : PathIds] \cup {None}]
      /\ next_path_id' \in PathIds \cup {None}
      /\ \A n \in Nonces : attachments'[n] = attachments[n]
      /\ \A s \in Sides, p \in PathIds : protocol_paths'[s][p] = protocol_paths[s][p]
  BY <1>2 DEF ControlInv, TypeOK
<1>7. PathsGranted'
  BY <1>2, <1>6, PathsQuiet DEF ControlInv
<1>8. ASSUME stream'["gateway"] = stream["gateway"]
      PROVE  PolicyOK' /\ Forward /\ policy_epoch' \in [Sides -> Nat]
  BY <1>2, <1>3, <1>8, GatewayQuiet
<1>9. CASE GatewayExpires
  <2>1. stream' = stream /\ pending_policy' = Pruned(pending_policy)
    BY <1>9 DEF GatewayExpires
  <2>2. PendingOK'
    BY <2>1, PendingQuiet DEF ControlInv
  <2>3. PolicyOK' /\ Forward /\ policy_epoch' \in [Sides -> Nat]
    BY <1>8, <2>1
  <2> QED BY <1>1, <1>2, <1>3, <1>5, <1>6, <1>7, <2>1, <2>2, <2>3, GatewayStep
<1>10. ASSUME NEW f \in GatewayRequests, GatewayOutbound(f)
       PROVE  ControlInv' /\ Forward
  <2>1. /\ f \in Frames /\ f.kind \in {"PolicyUpdate", "Close"}
        /\ f.kind = "PolicyUpdate" => f.pe \in 1 .. MaxPolicy /\ f.tx = GatewayTx(f.pe)
        /\ f.kind = "Close" => f.tx = GatewayTx(0)
    BY RequestTypes
  <2>2. f \in FromGateway'
    BY <1>3, <2>1 DEF FromGateway
  <2>3. /\ Send("client", f)
        /\ \/ f.kind = "PolicyUpdate" /\ Registers(pending_policy, f)
           \/ pending_policy' = Pruned(pending_policy)
    BY <1>10 DEF GatewayOutbound
  <2>4. /\ stream' \in [Sides -> Seq(Frames)]
        /\ stream'["client"] = Append(stream["client"], f)
        /\ stream'["gateway"] = stream["gateway"]
    <3>1. Other("client") = "gateway"
      BY DEF Other
    <3> QED BY <1>1, <2>1, <2>3, <3>1, Streams
  <2>5. PendingOK'
    <3>1. CASE pending_policy' \in {pending_policy, Pruned(pending_policy)}
      BY <3>1, PendingQuiet DEF ControlInv
    <3>2. CASE /\ f.kind = "PolicyUpdate"
               /\ pending_policy' = [Pruned(pending_policy) EXCEPT ![f.tx] = Entry(f)]
      <4>1. /\ DOMAIN pending_policy' = DOMAIN pending_policy
            /\ \A x \in DOMAIN pending_policy :
                 \/ x = f.tx /\ pending_policy'[x] = Entry(f)
                 \/ pending_policy'[x] # None => pending_policy'[x] = pending_policy[x]
        BY <3>2, PrunedEntries
      <4>2. Entry(f).req.pe = f.pe
        BY DEF Entry
      <4> QED BY <2>1, <3>2, <4>1, <4>2 DEF ControlInv, PendingOK
    <3> QED BY <2>3, <3>1, <3>2 DEF Registers
  <2>6. PolicyOK' /\ Forward /\ policy_epoch' \in [Sides -> Nat]
    BY <1>8, <2>4
  <2> QED BY <1>1, <1>2, <1>3, <1>5, <1>6, <1>7, <2>2, <2>4, <2>5, <2>6, GatewayStep
<1> QED BY <1>9, <1>10

\* The frame the gateway takes.
LEMMA GatewayHead ==
  ASSUME ControlInv, stream["gateway"] # <<>>
  PROVE  Head(stream["gateway"]) \in Frames /\ Head(stream["gateway"]).tx \in Txs
<1>1. stream["gateway"] \in Seq(Frames)
  BY DEF ControlInv, TypeOK, Sides
<1>2. Head(stream["gateway"]) \in Frames
  BY <1>1, Queues
<1> QED BY <1>2, FrameFields

\* A frame that is refused, acknowledged or answered as before, and at most a
\* path unbound or the connection closed.
LEMMA GatewayPlain ==
  ASSUME ControlBounds, ControlInv, stream["gateway"] # <<>>,
         UNCHANGED <<now, policy_epoch, attachments, next_path_id>>,
         phase' = phase \/ phase' = [phase EXCEPT !["gateway"] = "Closed"],
         \/ protocol_paths' = protocol_paths
         \/ \E p : protocol_paths' = [protocol_paths EXCEPT !["gateway"][p] = 0],
         pending_policy' = Pruned(pending_policy),
         NEW a \in FromGateway, Answer("gateway", a),
         NEW f \in Frames,
         completed' = Unexpired \/ completed' = Remember(f, a)
  PROVE  ControlInv' /\ Forward
<1>1. /\ phase \in [Sides -> Phases]
      /\ protocol_paths \in [Sides -> [PathIds -> PathEpochs \cup {0}]]
      /\ "client" \in Sides /\ "gateway" \in Sides
  BY DEF ControlInv, TypeOK, Sides
<1>2. /\ phase' \in [Sides -> Phases] /\ phase'["client"] = phase["client"]
      /\ phase'["gateway"] = "AwaitHello" => phase["gateway"] = "AwaitHello"
  BY <1>1 DEF Phases
<1>3. /\ protocol_paths' \in [Sides -> [PathIds -> PathEpochs \cup {0}]]
      /\ \A s \in Sides, p \in PathIds :
           protocol_paths'[s][p] \in {0, protocol_paths[s][p]}
  <2>1. CASE protocol_paths' = protocol_paths
    BY <1>1, <2>1
  <2>2. ASSUME NEW q, protocol_paths' = [protocol_paths EXCEPT !["gateway"][q] = 0]
        PROVE  /\ protocol_paths' \in [Sides -> [PathIds -> PathEpochs \cup {0}]]
               /\ \A s \in Sides, p \in PathIds :
                    protocol_paths'[s][p] \in {0, protocol_paths[s][p]}
    BY <1>1, <2>2
  <2> QED BY <2>1, <2>2
<1>4. a \in FromGateway'
  BY <1>2, FromGatewayGrows
<1> QED BY <1>2, <1>3, <1>4, GatewayTakesQuiet

\* ClientHello: nothing was acknowledged before the first policy.
LEMMA GatewayHelloStep ==
  ASSUME ControlBounds, ControlInv, stream["gateway"] # <<>>,
         GatewayHello(Head(stream["gateway"])), now' = now
  PROVE  ControlInv' /\ Forward
<1> DEFINE f == Head(stream["gateway"])
<1>1. f \in Frames /\ f.tx \in Txs
  BY GatewayHead
<1> HIDE DEF f
<1>2. /\ UNCHANGED <<protocol_paths, attachments, next_path_id>>
      /\ \/ /\ phase["gateway"] = "AwaitHello"
            /\ phase' = [phase EXCEPT !["gateway"] = "Active"]
            /\ policy_epoch' = [policy_epoch EXCEPT !["gateway"] = FirstPolicy]
            /\ Replies(f, SessionAdmit(f.tx))
         \/ Replies(f, Reject(f.tx)) /\ UNCHANGED <<phase, policy_epoch>>
  BY DEF GatewayHello, f
<1>3. CASE Replies(f, Reject(f.tx)) /\ UNCHANGED <<phase, policy_epoch>>
  <2>1. Reject(f.tx) \in FromGateway
    BY <1>1, PlainAnswers
  <2> QED BY <1>1, <1>2, <1>3, <2>1, GatewayPlain DEF Replies
<1>4. CASE /\ phase["gateway"] = "AwaitHello"
           /\ phase' = [phase EXCEPT !["gateway"] = "Active"]
           /\ policy_epoch' = [policy_epoch EXCEPT !["gateway"] = FirstPolicy]
           /\ Replies(f, SessionAdmit(f.tx))
  <2>1. /\ phase \in [Sides -> Phases] /\ policy_epoch \in [Sides -> Nat]
        /\ stream \in [Sides -> Seq(Frames)] /\ Other("gateway") = "client"
        /\ Sides = {"client", "gateway"}
    BY DEF ControlInv, TypeOK, Sides, Other
  <2>2. /\ phase' \in [Sides -> Phases] /\ phase'["client"] = phase["client"]
        /\ phase'["gateway"] = "Active" /\ policy_epoch' \in [Sides -> Nat]
        /\ policy_epoch'["client"] = policy_epoch["client"]
        /\ policy_epoch'["gateway"] = FirstPolicy
    BY <1>4, <2>1 DEF Phases, FirstPolicy
  <2>3. /\ Unadmitted /\ policy_epoch["gateway"] = 0 /\ policy_epoch["client"] = 0
        /\ AcksRise(stream["gateway"], 0, 0) /\ stream["gateway"] \in Seq(Frames)
    BY <1>4, <2>1 DEF ControlInv, PolicyOK
  <2>4. SessionAdmit(f.tx) \in FromGateway'
    BY <1>1, <2>2, PlainAnswers
  <2>5. /\ Answer("gateway", SessionAdmit(f.tx)) /\ completed' = Remember(f, SessionAdmit(f.tx))
        /\ pending_policy' = Pruned(pending_policy)
    BY <1>4 DEF Replies
  <2>6. stream'["gateway"] = Tail(stream["gateway"])
    BY <2>1, <2>5, Streams
  <2>7. AcksRise(stream'["gateway"], policy_epoch'["gateway"], policy_epoch'["client"])
    BY <2>3, <2>6, AcksTail, AcksNone
  <2>8. PolicyOK'
    <3>1. AcksRise(stream["gateway"], policy_epoch["gateway"], policy_epoch["client"])'
      BY <2>7 DEF AcksRise, AcksPolicy, EpochOf
    <3>2. Unadmitted'
      BY <2>2, <2>3 DEF Unadmitted
    <3> QED BY <2>2, <2>3, <3>1, <3>2 DEF PolicyOK, FirstPolicy
  <2>9. PendingOK'
    BY <2>5, PendingQuiet DEF ControlInv
  <2>10. Forward
    BY <2>1, <2>2, <2>3 DEF Forward, FirstPolicy
  <2>11. /\ protocol_paths' \in [Sides -> [PathIds -> PathEpochs \cup {0}]]
         /\ attachments' \in [Nonces -> [pe : PathEpochs, path : PathIds] \cup {None}]
         /\ next_path_id' \in PathIds \cup {None}
         /\ \A n \in Nonces : attachments'[n] = attachments[n]
         /\ \A s \in Sides, p \in PathIds : protocol_paths'[s][p] = protocol_paths[s][p]
    BY <1>2 DEF ControlInv, TypeOK
  <2>12. PathsGranted'
    BY <1>2, <2>11, PathsQuiet DEF ControlInv
  <2> QED BY <1>1, <2>2, <2>4, <2>5, <2>8, <2>9, <2>10, <2>11, <2>12, GatewayTakes
<1> QED BY <1>2, <1>3, <1>4

\* PathAttach of a nonce that was seen, or one that is refused.
LEMMA GatewayAttachAgain ==
  ASSUME ControlBounds, ControlInv, stream["gateway"] # <<>>,
         NEW f \in Frames, f.kind = "PathAttach",
         UNCHANGED <<now, phase, policy_epoch, protocol_paths, attachments, next_path_id>>,
         \/ Replies(f, Reject(f.tx))
         \/ /\ AttachedBefore(f)
            /\ Replies(f, PathAttached(f.tx, attachments[f.nonce].path,
                                       attachments[f.nonce].pe))
  PROVE  ControlInv' /\ Forward
<1>1. f.tx \in Txs /\ f.nonce \in Nonces
  BY FrameFields
<1>2. CASE Replies(f, Reject(f.tx))
  <2>1. Reject(f.tx) \in FromGateway
    BY <1>1, PlainAnswers
  <2> QED BY <1>2, <2>1, GatewayPlain DEF Replies
<1>3. CASE /\ AttachedBefore(f)
           /\ Replies(f, PathAttached(f.tx, attachments[f.nonce].path,
                                      attachments[f.nonce].pe))
  <2> DEFINE old == attachments[f.nonce]
             a == PathAttached(f.tx, old.path, old.pe)
  <2>1. old \in [pe : PathEpochs, path : PathIds]
    BY <1>1, <1>3 DEF AttachedBefore, ControlInv, TypeOK
  <2>2. old.pe \in PathEpochs /\ old.path \in PathIds
        /\ old = [pe |-> old.pe, path |-> old.path]
    BY <2>1
  <2>3. Granted(old.path, old.pe)
    BY <1>1, <2>2 DEF Granted
  <2> HIDE DEF old
  <2>4. a \in Frames
    BY <1>1, <2>2, FrameTypes
  <2>5. a.kind = "PathAttached" /\ a.path = old.path /\ a.pe = old.pe
    BY DEF PathAttached
  <2> HIDE DEF a
  <2>6. a \in FromGateway
    BY <2>3, <2>4, <2>5 DEF FromGateway
  <2>7. Replies(f, a)
    BY <1>3 DEF a, old
  <2> QED BY <2>6, <2>7, GatewayPlain DEF Replies
<1> QED BY <1>2, <1>3

\* PathAttach of a new nonce: it gets the next identifier, and no other nonce does.
LEMMA GatewayAttachNew ==
  ASSUME ControlBounds, ControlInv, stream["gateway"] # <<>>,
         NEW f \in Frames, f.kind = "PathAttach", ~AttachedBefore(f),
         UNCHANGED <<now, phase, policy_epoch>>,
         next_path_id # None,
         Replies(f, PathAttached(f.tx, next_path_id, f.pe)),
         protocol_paths' = [protocol_paths EXCEPT !["gateway"][next_path_id] = f.pe],
         attachments' =
           [attachments EXCEPT ![f.nonce] = [pe |-> f.pe, path |-> next_path_id]],
         next_path_id' = IF next_path_id = LastPathId THEN None ELSE next_path_id + 1
  PROVE  ControlInv' /\ Forward
<1> DEFINE a == PathAttached(f.tx, next_path_id, f.pe)
<1>1. f.tx \in Txs /\ f.nonce \in Nonces /\ f.pe \in PathEpochs
  BY FrameFields
<1>2. /\ attachments \in [Nonces -> [pe : PathEpochs, path : PathIds] \cup {None}]
      /\ protocol_paths \in [Sides -> [PathIds -> PathEpochs \cup {0}]]
      /\ stream \in [Sides -> Seq(Frames)] /\ "gateway" \in Sides
      /\ next_path_id \in PathIds /\ LastPathId \in Nat /\ attachments[f.nonce] = None
  BY DEF ControlInv, TypeOK, Sides, ControlBounds, AttachedBefore
<1>3. /\ attachments' \in [Nonces -> [pe : PathEpochs, path : PathIds] \cup {None}]
      /\ protocol_paths' \in [Sides -> [PathIds -> PathEpochs \cup {0}]]
      /\ next_path_id' \in PathIds \cup {None}
      /\ \A n \in Nonces : attachments[n] # None => attachments'[n] = attachments[n]
      /\ attachments'[f.nonce] = [pe |-> f.pe, path |-> next_path_id]
  <2>1. attachments' \in [Nonces -> [pe : PathEpochs, path : PathIds] \cup {None}]
    BY <1>1, <1>2
  <2>2. protocol_paths' \in [Sides -> [PathIds -> PathEpochs \cup {0}]]
    BY <1>1, <1>2
  <2>3. next_path_id' \in PathIds \cup {None}
    BY <1>2 DEF PathIds
  <2>4. /\ \A n \in Nonces : attachments[n] # None => attachments'[n] = attachments[n]
        /\ attachments'[f.nonce] = [pe |-> f.pe, path |-> next_path_id]
    BY <1>1, <1>2
  <2> QED BY <2>1, <2>2, <2>3, <2>4
<1>4. ASSUME NEW s \in Sides, NEW p \in PathIds, protocol_paths'[s][p] # 0
      PROVE  \E n \in Nonces :
               attachments'[n] = [pe |-> protocol_paths'[s][p], path |-> p]
  <2>1. CASE protocol_paths'[s][p] = protocol_paths[s][p]
    <3>1. PICK n \in Nonces : attachments[n] = [pe |-> protocol_paths[s][p], path |-> p]
      BY <1>4, <2>1 DEF ControlInv, PathsGranted, Granted
    <3>2. protocol_paths[s][p] \in PathEpochs
      BY <1>2, <1>4, <2>1
    <3>3. attachments[n] # None
      BY <3>1, <3>2 DEF ControlBounds
    <3> QED BY <1>3, <2>1, <3>1, <3>3
  <2>2. CASE protocol_paths'[s][p] # protocol_paths[s][p]
    <3>1. p = next_path_id /\ protocol_paths'[s][p] = f.pe
      BY <1>2, <2>2
    <3> QED BY <1>1, <1>3, <3>1
  <2> QED BY <2>1, <2>2
<1>5. /\ Present(attachments') = Present(attachments) \cup {f.nonce}
      /\ f.nonce \notin Present(attachments) /\ IsFiniteSet(Present(attachments))
  <2>1. DOMAIN attachments = Nonces /\ DOMAIN attachments' = Nonces
    BY <1>2, <1>3
  <2>2. \A n \in Nonces : n # f.nonce => attachments'[n] = attachments[n]
    BY <1>2
  <2>3. attachments'[f.nonce] # None
    BY <1>1, <1>2, <1>3 DEF ControlBounds
  <2>4. IsFiniteSet(Present(attachments))
    BY <2>1, FS_Subset DEF Present, ControlBounds
  <2> QED BY <1>1, <1>2, <2>1, <2>2, <2>3, <2>4 DEF Present
<1>6. Cardinality(Present(attachments')) = next_path_id
  <2>1. Cardinality(Present(attachments)) = next_path_id - 1
    BY DEF ControlInv, PathsGranted
  <2>2. Cardinality(Present(attachments')) = Cardinality(Present(attachments)) + 1
    BY <1>5, FS_AddElement
  <2> QED BY <1>2, <2>1, <2>2 DEF PathIds
<1>7. next_path_id = IF next_path_id' = None THEN LastPathId ELSE next_path_id' - 1
  <2>1. next_path_id \in Nat /\ next_path_id + 1 \in Nat
    BY <1>2 DEF PathIds
  <2>2. next_path_id + 1 # None
    BY <2>1 DEF ControlBounds
  <2> QED BY <2>1, <2>2
<1>8. PathsGranted'
  BY <1>4, <1>6, <1>7 DEF PathsGranted, Granted, Present
<1>9. a \in FromGateway'
  <2>1. a \in Frames
    BY <1>1, <1>2, FrameTypes
  <2>2. a.kind = "PathAttached" /\ a.path = next_path_id /\ a.pe = f.pe
    BY DEF PathAttached
  <2> HIDE DEF a
  <2>3. \E n \in Nonces : attachments'[n] = [pe |-> a.pe, path |-> a.path]
    BY <1>1, <1>3, <2>2
  <2> QED BY <2>1, <2>2, <2>3 DEF FromGateway, Granted
<1>10. /\ Answer("gateway", a) /\ completed' = Remember(f, a)
       /\ pending_policy' = Pruned(pending_policy)
  BY DEF Replies
<1> HIDE DEF a
<1>11. stream'["gateway"] = Tail(stream["gateway"])
  BY <1>2, <1>10, Streams
<1>12. PendingOK'
  BY <1>10, PendingQuiet DEF ControlInv
<1>13. phase' \in [Sides -> Phases]
  BY DEF ControlInv, TypeOK
<1>14. PolicyOK' /\ Forward /\ policy_epoch' \in [Sides -> Nat]
  BY <1>11, <1>13, GatewayQuiet
<1> QED BY <1>3, <1>8, <1>9, <1>10, <1>12, <1>13, <1>14, GatewayTakes

\* Ack of a pending policy: the client has taken it, and it is newer than the
\* gateway's although the gateway does not compare.
LEMMA GatewayAcknowledged ==
  ASSUME ControlBounds, ControlInv, stream["gateway"] # <<>>,
         NEW f \in Frames, f = Head(stream["gateway"]), f.kind = "Ack",
         f.tx \in Present(Pruned(pending_policy)), phase["gateway"] = "Active",
         policy_epoch' = [policy_epoch EXCEPT
           !["gateway"] = Pruned(pending_policy)[f.tx].req.pe],
         pending_policy' = [Pruned(pending_policy) EXCEPT ![f.tx] = None],
         NoAnswer("gateway"), completed' = Unexpired,
         UNCHANGED <<now, phase, protocol_paths, attachments, next_path_id>>
  PROVE  ControlInv' /\ Forward
<1>1. /\ phase \in [Sides -> Phases] /\ policy_epoch \in [Sides -> Nat]
      /\ stream \in [Sides -> Seq(Frames)] /\ stream["gateway"] \in Seq(Frames)
      /\ Sides = {"client", "gateway"}
      /\ policy_epoch["client"] \in Nat /\ policy_epoch["gateway"] \in Nat
  BY DEF ControlInv, TypeOK, Sides
<1>2. /\ f.tx \in DOMAIN pending_policy /\ pending_policy[f.tx] # None
      /\ Pruned(pending_policy)[f.tx] = pending_policy[f.tx]
  BY PrunedEntries DEF Present
<1>3. PICK e \in 1 .. MaxPolicy : f.tx = GatewayTx(e) /\ pending_policy[f.tx].req.pe = e
  BY <1>2 DEF ControlInv, PendingOK
<1>4. AcksPolicy(f) /\ EpochOf(f) = e /\ e \in Nat
  <2>1. f.tx \in {GatewayTx(k) : k \in 1 .. MaxPolicy}
    BY <1>3
  <2>2. f.tx = <<"gateway", e>>
    BY <1>3 DEF GatewayTx
  <2>3. f.tx[2] = e
    BY <2>2
  <2>4. e \in Nat
    BY DEF ControlBounds
  <2> QED BY <2>1, <2>3, <2>4 DEF AcksPolicy, EpochOf
<1>5. /\ policy_epoch["gateway"] < e /\ e <= policy_epoch["client"]
      /\ AcksRise(Tail(stream["gateway"]), e, policy_epoch["client"])
  <2>1. AcksRise(stream["gateway"], policy_epoch["gateway"], policy_epoch["client"])
    BY DEF ControlInv, PolicyOK
  <2> QED BY <1>1, <1>4, <2>1, AcksTail
<1>6. /\ policy_epoch' \in [Sides -> Nat] /\ policy_epoch'["gateway"] = e
      /\ policy_epoch'["client"] = policy_epoch["client"]
  BY <1>1, <1>2, <1>3, <1>4
<1>7. stream'["gateway"] = Tail(stream["gateway"])
  BY <1>1, Streams
<1>8. PolicyOK'
  <2>1. AcksRise(stream'["gateway"], policy_epoch'["gateway"], policy_epoch'["client"])
    BY <1>5, <1>6, <1>7
  <2>2. AcksRise(stream["gateway"], policy_epoch["gateway"], policy_epoch["client"])'
    BY <2>1 DEF AcksRise, AcksPolicy, EpochOf
  <2>3. ~Unadmitted
    BY <1>1, <1>3, <1>5 DEF ControlInv, PolicyOK
  <2>4. ~Unadmitted' /\ FirstPolicy <= policy_epoch["client"]
    BY <2>3 DEF Unadmitted, ControlInv, PolicyOK
  <2> QED BY <1>5, <1>6, <2>2, <2>4 DEF PolicyOK
<1>9. Forward
  BY <1>1, <1>5, <1>6 DEF Forward
<1>10. PendingOK'
  BY PendingQuiet DEF ControlInv
<1>11. /\ protocol_paths' \in [Sides -> [PathIds -> PathEpochs \cup {0}]]
       /\ attachments' \in [Nonces -> [pe : PathEpochs, path : PathIds] \cup {None}]
       /\ next_path_id' \in PathIds \cup {None} /\ phase' \in [Sides -> Phases]
       /\ \A n \in Nonces : attachments'[n] = attachments[n]
       /\ \A s \in Sides, p \in PathIds : protocol_paths'[s][p] = protocol_paths[s][p]
  BY DEF ControlInv, TypeOK
<1>12. PathsGranted'
  BY <1>11, PathsQuiet DEF ControlInv
<1>13. Reject(f.tx) \in FromGateway'
  BY FrameFields, PlainAnswers
<1> QED BY <1>6, <1>8, <1>9, <1>10, <1>11, <1>12, <1>13, GatewayTakes

\* Ack and Reject.
LEMMA GatewayAnsweredStep ==
  ASSUME ControlBounds, ControlInv, stream["gateway"] # <<>>, now' = now,
         GatewayAnswered(Head(stream["gateway"]))
  PROVE  ControlInv' /\ Forward
<1> DEFINE f == Head(stream["gateway"])
<1>1. f \in Frames /\ f.tx \in Txs
  BY GatewayHead
<1>2. Reject(f.tx) \in FromGateway /\ Reject(f.tx) \in FromGateway'
  BY <1>1, PlainAnswers
<1>3. /\ completed' = Unexpired
      /\ UNCHANGED <<phase, protocol_paths, attachments, next_path_id>>
  BY DEF GatewayAnswered
<1>4. CASE ~(phase["gateway"] = "Active" /\ f.tx \in Present(Pruned(pending_policy)))
  <2>1. /\ pending_policy' = Pruned(pending_policy)
        /\ Answer("gateway", Reject(f.tx)) /\ UNCHANGED policy_epoch
    BY <1>4 DEF GatewayAnswered
  <2> HIDE DEF f
  <2> QED BY <1>1, <1>2, <1>3, <2>1, GatewayPlain
<1>5. CASE phase["gateway"] = "Active" /\ f.tx \in Present(Pruned(pending_policy))
  <2>1. /\ pending_policy' = [Pruned(pending_policy) EXCEPT ![f.tx] = None]
        /\ policy_epoch' = IF f.kind # "Ack" THEN policy_epoch
             ELSE [policy_epoch EXCEPT
                    !["gateway"] = Pruned(pending_policy)[f.tx].req.pe]
        /\ NoAnswer("gateway")
    BY <1>5 DEF GatewayAnswered
  <2>2. CASE f.kind = "Ack"
    BY <1>1, <1>3, <1>5, <2>1, <2>2, GatewayAcknowledged
  <2>3. CASE f.kind # "Ack"
    <3>1. /\ phase' \in [Sides -> Phases] /\ policy_epoch' = policy_epoch
          /\ protocol_paths' \in [Sides -> [PathIds -> PathEpochs \cup {0}]]
          /\ \A s \in Sides, p \in PathIds :
               protocol_paths'[s][p] = protocol_paths[s][p]
      BY <1>3, <2>1, <2>3 DEF ControlInv, TypeOK
    <3>2. \E x : pending_policy' = [Pruned(pending_policy) EXCEPT ![x] = None]
      BY <2>1
    <3>3. NoAnswer("gateway")
      BY <2>1
    <3> HIDE DEF f
    <3> QED BY <1>1, <1>2, <1>3, <3>1, <3>2, <3>3, GatewayTakesQuiet
  <2> QED BY <2>2, <2>3
<1> QED BY <1>4, <1>5

\* on_inbound of the gateway.
LEMMA GatewayInboundStep ==
  ASSUME ControlBounds, ControlInv, GatewayInbound
  PROVE  ControlInv' /\ Forward
<1> DEFINE f == Head(stream["gateway"])
<1>1. /\ stream["gateway"] # <<>> /\ now' = now
      /\ \/ /\ Expires("gateway")
            /\ phase' = [phase EXCEPT !["gateway"] = "Closed"]
            /\ completed' = Unexpired
            /\ pending_policy' = Pruned(pending_policy)
            /\ Answer("gateway", Reject(f.tx))
            /\ UNCHANGED <<policy_epoch, protocol_paths, attachments, next_path_id>>
         \/ GatewayReplays(f)
         \/ GatewayHello(f) \/ GatewayAttach(f) \/ GatewayPathRequest(f)
         \/ GatewayClose(f) \/ GatewayAnswered(f)
  BY DEF GatewayInbound
<1>2. f \in Frames /\ f.tx \in Txs
  BY <1>1, GatewayHead
<1>3. Reject(f.tx) \in FromGateway /\ Ack(f.tx) \in FromGateway
  BY <1>2, PlainAnswers
<1>4. CASE GatewayHello(f)
  BY <1>1, <1>4, GatewayHelloStep
<1>5. CASE GatewayAnswered(f)
  BY <1>1, <1>5, GatewayAnsweredStep
<1> HIDE DEF f
<1>6. CASE /\ Expires("gateway")
           /\ phase' = [phase EXCEPT !["gateway"] = "Closed"]
           /\ completed' = Unexpired
           /\ pending_policy' = Pruned(pending_policy)
           /\ Answer("gateway", Reject(f.tx))
           /\ UNCHANGED <<policy_epoch, protocol_paths, attachments, next_path_id>>
  BY <1>1, <1>2, <1>3, <1>6, GatewayPlain
<1>7. CASE GatewayReplays(f)
  <2>1. ReplayOf(f) \in FromGateway
    BY <1>2, <1>7, ReplayType DEF GatewayReplays
  <2> QED BY <1>1, <1>2, <1>7, <2>1, GatewayPlain DEF GatewayReplays
<1>8. CASE GatewayAttach(f)
  <2>1. /\ f.kind = "PathAttach" /\ UNCHANGED <<phase, policy_epoch>>
        /\ \/ /\ \/ Replies(f, Reject(f.tx))
                 \/ /\ AttachedBefore(f)
                    /\ Replies(f, PathAttached(f.tx, attachments[f.nonce].path,
                                               attachments[f.nonce].pe))
              /\ UNCHANGED <<protocol_paths, attachments, next_path_id>>
           \/ /\ ~AttachedBefore(f) /\ next_path_id # None
              /\ Replies(f, PathAttached(f.tx, next_path_id, f.pe))
              /\ protocol_paths' =
                   [protocol_paths EXCEPT !["gateway"][next_path_id] = f.pe]
              /\ attachments' = [attachments EXCEPT
                   ![f.nonce] = [pe |-> f.pe, path |-> next_path_id]]
              /\ next_path_id' = IF next_path_id = LastPathId THEN None
                                                              ELSE next_path_id + 1
    BY <1>8 DEF GatewayAttach
  <2> QED BY <1>1, <1>2, <2>1, GatewayAttachAgain, GatewayAttachNew
<1>9. CASE GatewayPathRequest(f)
  <2>1. /\ UNCHANGED <<phase, policy_epoch, attachments, next_path_id>>
        /\ \/ protocol_paths' = protocol_paths
           \/ \E p : protocol_paths' = [protocol_paths EXCEPT !["gateway"][p] = 0]
        /\ Replies(f, Ack(f.tx)) \/ Replies(f, Reject(f.tx))
    BY <1>9 DEF GatewayPathRequest
  <2> QED BY <1>1, <1>2, <1>3, <2>1, GatewayPlain DEF Replies
<1>10. CASE GatewayClose(f)
  <2>1. /\ UNCHANGED <<policy_epoch, protocol_paths, attachments, next_path_id>>
        /\ phase' = phase \/ phase' = [phase EXCEPT !["gateway"] = "Closed"]
        /\ Replies(f, Ack(f.tx)) \/ Replies(f, Reject(f.tx))
    BY <1>10 DEF GatewayClose
  <2> QED BY <1>1, <1>2, <1>3, <2>1, GatewayPlain DEF Replies
<1> QED BY <1>1, <1>4, <1>5, <1>6, <1>7, <1>8, <1>9, <1>10

-----------------------------------------------------------------------------
\* The theorems

\* The connection before any frame.
LEMMA InitControl ==
  ASSUME ControlBounds, ControlInit
  PROVE  ControlInv
<1>1. TypeOK
  <2>1. 1 \in PathIds
    BY DEF PathIds, ControlBounds
  <2>2. <<>> \in Seq(Frames) /\ <<>> \in Seq([req : Frames, answer : Frames, exp : Nat])
    OBVIOUS
  <2> QED BY <2>1, <2>2 DEF ControlInit, TypeOK, Phases
<1>2. PathsGranted
  <2>1. Present(attachments) = {}
    BY DEF ControlInit, Present
  <2>2. Cardinality(Present(attachments)) = 0
    BY <2>1, FS_EmptySet
  <2>3. next_path_id = 1 /\ next_path_id # None
    BY DEF ControlInit, ControlBounds
  <2> QED BY <2>2, <2>3 DEF ControlInit, PathsGranted
<1>3. SentOK
  BY DEF ControlInit, SentOK, Sides
<1>4. PolicyOK
  BY DEF ControlInit, PolicyOK, AcksRise, Unadmitted, Sides, FirstPolicy
<1>5. PendingOK
  BY DEF ControlInit, PendingOK
<1> QED BY <1>1, <1>2, <1>3, <1>4, <1>5 DEF ControlInv

\* One step per actor.
LEMMA NextControl ==
  ASSUME ControlBounds, ControlInv, [ControlNext]_control_vars
  PROVE  ControlInv' /\ Forward
<1>1. CASE \/ \E x \in ClientTxs : ClientHello(x)
           \/ \E f \in ClientRequests : ClientOutbound(f)
           \/ ClientExpires
  BY <1>1, ClientSends
<1>2. CASE GatewayExpires \/ \E f \in GatewayRequests : GatewayOutbound(f)
  BY <1>2, GatewaySends
<1>3. CASE ClientInbound
  BY <1>3, ClientInboundStep
<1>4. CASE GatewayInbound
  BY <1>4, GatewayInboundStep
<1>5. CASE ControlTick \/ UNCHANGED control_vars
  <2>1. /\ UNCHANGED <<phase, policy_epoch, protocol_paths, attachments, completed,
                       next_path_id, pending_policy, stream>>
        /\ now' \in Nat
    BY <1>5 DEF ControlTick, control_vars, bindings, pendings, gateway_tables, ControlInv, TypeOK
  <2>2. TypeOK'
    BY <2>1 DEF ControlInv, TypeOK
  <2>3. PathsGranted' /\ PendingOK'
    BY <2>1 DEF ControlInv, PathsGranted, PendingOK, Granted, Present
  <2>4. SentOK'
    <3>1. FromGateway' = FromGateway
      BY <2>1 DEF FromGateway, Granted
    <3> QED BY <2>1, <3>1 DEF ControlInv, SentOK
  <2>5. PolicyOK' /\ Forward
    BY <2>1, <2>2, GatewayQuiet DEF TypeOK
  <2> QED BY <2>2, <2>3, <2>4, <2>5 DEF ControlInv
<1> QED BY <1>1, <1>2, <1>3, <1>4, <1>5 DEF ControlNext

\* ControlInv holds in every reachable state.
THEOREM Inductive == ControlSpec => []ControlInv
<1>1. ControlInit => ControlInv
  BY InitControl, ControlAssumption
<1>2. ControlInv /\ [ControlNext]_control_vars => ControlInv'
  BY NextControl, ControlAssumption
<1> QED BY <1>1, <1>2, PTL DEF ControlSpec

\* Every path either side believes in was granted to a nonce, and the identifiers
\* given out are as many as the nonces that hold one.
THEOREM Granting == ControlSpec => []PathsGranted
<1>1. ControlInv => PathsGranted
  BY DEF ControlInv
<1> QED BY <1>1, Inductive, PTL

\* The gateway puts no policy into force that the client has not taken.
THEOREM Following == ControlSpec => []PolicyFollows
<1>1. ControlInv => PolicyFollows
  BY DEF ControlInv, PolicyOK, PolicyFollows, Unadmitted
<1> QED BY <1>1, Inductive, PTL

\* No side's policy ever goes back, although the gateway does not compare.
THEOREM Advancing == ControlSpec => PolicyAdvances
<1>1. ControlInv /\ [ControlNext]_control_vars => [Forward]_control_vars
  BY NextControl, ControlAssumption
<1> QED BY <1>1, Inductive, PTL DEF ControlSpec, PolicyAdvances, Forward
=============================================================================
