--------------------------- MODULE ControlSequence ---------------------------
(***************************************************************************)
(* The reliable control connection of V2: one ControlConnectionState on    *)
(* the client and one on the gateway (sg-protocol, v2/control/state.rs),   *)
(* joined by the two directions of an ordered stream.  A frame that a      *)
(* handler answers is answered in the same step.                           *)
(*                                                                         *)
(* There is one session per connection.  Reject codes, tickets, addresses  *)
(* and policies are not distinguished.  The caller of the two machines     *)
(* (external) numbers its requests and may send one again; the gateway's   *)
(* transactions are its own, one per policy epoch.                         *)
(***************************************************************************)
EXTENDS Naturals, Sequences, FiniteSets, Ordering, Option

CONSTANTS
  ClientTxs,                \* transaction identifiers of the client's caller
  Nonces,                   \* path nonces
  PathEpochs,               \* path epochs the client asks for
  LastPathId,               \* u16::MAX
  CompletedCapacity,        \* completed_request_capacity
  CompletedTTL,             \* completed_request_ttl_ms
  AttachmentCapacity,       \* attachment_capacity
  PendingCapacity,          \* pending_attach_capacity, pending_policy_update_capacity
  PendingTTL,               \* pending_attach_ttl_ms, pending_policy_update_ttl_ms
  ExpiresAt,                \* expiry of the verified admission
  MaxPolicy,                \* bound on policy epochs
  MaxInFlight,              \* bound on frames in the two directions
  MaxTime                   \* bound on the clock

Sides == {"client", "gateway"}
Other(s) == IF s = "client" THEN "gateway" ELSE "client"
PathIds == 1 .. LastPathId
GatewayTx(e) == <<"gateway", e>>
Txs == ClientTxs \cup {GatewayTx(e) : e \in 0 .. MaxPolicy}

\* What the proofs need of the constants: ControlConnectionState::new refuses a
\* zero capacity.
ControlBounds ==
  /\ IsFiniteSet(Nonces)
  /\ LastPathId \in Nat \ {0} /\ MaxPolicy \in Nat
  /\ CompletedCapacity \in Nat \ {0} /\ CompletedTTL \in Nat
  /\ None \notin Nat \cup [pe : PathEpochs, path : PathIds]
ASSUME ControlAssumption == ControlBounds

VARIABLES
  now,
  phase,             \* ConnectionPhase of each side
  policy_epoch,      \* of each side
  protocol_paths,    \* path epoch of each bound path, per side (0: none)
  pending_attaches,  \* client: request and deadline by transaction
  pending_detaches,  \* client: request and deadline by transaction
  pending_policy,    \* gateway: policy epoch and deadline by transaction
  attachments,       \* gateway: request and path by nonce, never pruned
  completed,         \* gateway: answered requests, oldest first
  next_path_id,      \* gateway: None once the space is exhausted
  hello_tx,          \* client: hello_transaction_id
  stream             \* frames on their way to each side

gateway_tables == <<attachments, completed, next_path_id>>
pendings == <<pending_attaches, pending_detaches, pending_policy>>
bindings == <<policy_epoch, protocol_paths, hello_tx>>
control_vars == <<now, phase, bindings, pendings, gateway_tables, stream>>

-----------------------------------------------------------------------------
\* Frames

Hello(x) == [tx |-> x, kind |-> "ClientHello"]
SessionAdmit(x) == [tx |-> x, kind |-> "SessionAdmit"]
PathAttach(x, n, e) == [tx |-> x, kind |-> "PathAttach", nonce |-> n, pe |-> e]
PathAttached(x, p, e) == [tx |-> x, kind |-> "PathAttached", path |-> p, pe |-> e]
PathDetach(x, p, e) == [tx |-> x, kind |-> "PathDetach", path |-> p, pe |-> e]
PathHealth(x, p, e) == [tx |-> x, kind |-> "PathHealth", path |-> p, pe |-> e]
PolicyUpdate(x, e) == [tx |-> x, kind |-> "PolicyUpdate", pe |-> e]
Ack(x) == [tx |-> x, kind |-> "Ack"]
Reject(x) == [tx |-> x, kind |-> "Reject"]
Close(x) == [tx |-> x, kind |-> "Close"]

\* The admission the gateway verified grants the first policy epoch.
FirstPolicy == 1

Present(m) == {k \in DOMAIN m : m[k] # None}
Send(s, f) == stream' = [stream EXCEPT ![s] = Append(@, f)]
Received(s) == [stream EXCEPT ![s] = Tail(@)]
Answer(s, f) ==
  stream' = [Received(s) EXCEPT ![Other(s)] = Append(@, f)]
NoAnswer(s) == stream' = Received(s)

\* prune_pending_attaches and its siblings: a table without its overdue entries.
Pruned(m) == [k \in DOMAIN m |->
                IF m[k] # None /\ m[k].exp > now THEN m[k] ELSE None]

\* prune_completed
Unexpired == Kept(completed, {i \in DOMAIN completed : completed[i].exp > now})

\* expire_if_needed: an Active side whose admission ran out.
Expires(s) == phase[s] = "Active" /\ ExpiresAt <= now

Entry(v) == [req |-> v, exp |-> now + PendingTTL]

\* remember: the oldest answer makes room for the new one.
Remember(f, answer) ==
  LET kept == IF Len(Unexpired) = CompletedCapacity THEN Tail(Unexpired)
                                                    ELSE Unexpired
  IN Append(kept, [req |-> f, answer |-> answer, exp |-> now + CompletedTTL])

-----------------------------------------------------------------------------
\* Client

\* on_outbound prunes first, and an expired admission closes the connection.
ClientExpires ==
  /\ Expires("client")
  /\ phase' = [phase EXCEPT !["client"] = "Closed"]
  /\ pending_attaches' = Pruned(pending_attaches)
  /\ pending_detaches' = Pruned(pending_detaches)
  /\ UNCHANGED <<now, bindings, pending_policy, gateway_tables, stream>>

Room == Len(stream["client"]) + Len(stream["gateway"]) < MaxInFlight

ClientHello(x) ==
  /\ Room /\ phase["client"] = "AwaitHello"
  /\ phase' = [phase EXCEPT !["client"] = "AwaitAdmit"]
  /\ hello_tx' = x
  /\ Send("gateway", Hello(x))
  /\ UNCHANGED <<now, policy_epoch, protocol_paths, pendings, gateway_tables>>

\* A table takes request f under its transaction: a new entry, or the same
\* request sent again; another request under that transaction is refused.
Registers(m, f) ==
  IF Pruned(m)[f.tx] # None
  THEN Pruned(m)[f.tx].req = f /\ m' = Pruned(m)
  ELSE /\ Cardinality(Present(Pruned(m))) < PendingCapacity
       /\ m' = [Pruned(m) EXCEPT ![f.tx] = Entry(f)]

ClientOutbound(f) ==
  /\ Room /\ phase["client"] = "Active" /\ ~Expires("client")
  /\ Send("gateway", f)
  /\ \/ /\ f.kind = "PathAttach"
        /\ Registers(pending_attaches, f)
        /\ pending_detaches' = Pruned(pending_detaches)
        /\ UNCHANGED phase
     \/ /\ f.kind = "PathDetach"
        /\ protocol_paths["client"][f.path] = f.pe
        /\ Registers(pending_detaches, f)
        /\ pending_attaches' = Pruned(pending_attaches)
        /\ UNCHANGED phase
     \/ /\ f.kind \in {"PathHealth", "Close"}
        /\ f.kind = "PathHealth" => protocol_paths["client"][f.path] = f.pe
        /\ phase' = [phase EXCEPT
             !["client"] = IF f.kind = "Close" THEN "Closed" ELSE @]
        /\ pending_attaches' = Pruned(pending_attaches)
        /\ pending_detaches' = Pruned(pending_detaches)
  /\ UNCHANGED <<now, bindings, pending_policy, gateway_tables>>

\* The requests an Active client can make.
ClientRequests ==
  {PathAttach(x, n, e) : x \in ClientTxs, n \in Nonces, e \in PathEpochs}
    \cup {PathDetach(x, p, e) : x \in ClientTxs, p \in PathIds, e \in PathEpochs}
    \cup {PathHealth(x, p, e) : x \in ClientTxs, p \in PathIds, e \in PathEpochs}
    \cup {Close(x) : x \in ClientTxs}

\* Mutant: the client takes any policy it is sent.
NewerPolicyAny(e) == TRUE

NewerPolicy(e) == e > policy_epoch["client"]

\* Mutant: the client acknowledges a policy and applies it later.
TakesLater(e) == UNCHANGED policy_epoch

Takes(e) == policy_epoch' = [policy_epoch EXCEPT !["client"] = e]

\* PathAttached: only for the pending request it answers, and never with an
\* epoch that is not newer than the path's.
AttachedOK(f, pending) ==
  /\ pending[f.tx] # None
  /\ pending[f.tx].req.pe = f.pe
  /\ protocol_paths["client"][f.path] < f.pe

ClientAttached(f, attach) ==
  /\ f.kind = "PathAttached" /\ phase["client"] = "Active"
  /\ IF AttachedOK(f, attach)
     THEN /\ pending_attaches' = [attach EXCEPT ![f.tx] = None]
          /\ protocol_paths' = [protocol_paths EXCEPT !["client"][f.path] = f.pe]
          /\ NoAnswer("client")
     ELSE /\ pending_attaches' = attach
          /\ Answer("client", Reject(f.tx))
          /\ UNCHANGED protocol_paths
  /\ pending_detaches' = Pruned(pending_detaches)
  /\ UNCHANGED <<phase, policy_epoch>>

\* Ack and Reject end a pending detach; only the Ack removes the path.
ClientAnswered(f, detach) ==
  /\ f.kind \in {"Ack", "Reject"} /\ phase["client"] = "Active"
  /\ pending_detaches' = [detach EXCEPT ![f.tx] = None]
  /\ protocol_paths' =
       IF /\ f.kind = "Ack" /\ detach[f.tx] # None
          /\ protocol_paths["client"][detach[f.tx].req.path] = detach[f.tx].req.pe
       THEN [protocol_paths EXCEPT !["client"][detach[f.tx].req.path] = 0]
       ELSE protocol_paths
  /\ pending_attaches' = Pruned(pending_attaches)
  /\ NoAnswer("client")
  /\ UNCHANGED <<phase, policy_epoch>>

\* SessionAdmit, PolicyUpdate, Close, and whatever the phase does not allow.
ClientOther(f) ==
  /\ \/ /\ f.kind = "SessionAdmit" /\ phase["client"] = "AwaitAdmit"
        /\ f.tx = hello_tx /\ now < ExpiresAt
        /\ phase' = [phase EXCEPT !["client"] = "Active"]
        /\ policy_epoch' = [policy_epoch EXCEPT !["client"] = FirstPolicy]
        /\ NoAnswer("client")
     \/ /\ f.kind = "PolicyUpdate" /\ phase["client"] = "Active"
        /\ NewerPolicy(f.pe)
        /\ Takes(f.pe)
        /\ Answer("client", Ack(f.tx))
        /\ UNCHANGED phase
     \/ /\ f.kind = "Close" /\ phase["client"] = "Active"
        /\ phase' = [phase EXCEPT !["client"] = "Closed"]
        /\ Answer("client", Ack(f.tx))
        /\ UNCHANGED policy_epoch
     \/ /\ \/ phase["client"] # "Active"
              /\ ~(f.kind = "SessionAdmit" /\ phase["client"] = "AwaitAdmit"
                     /\ f.tx = hello_tx /\ now < ExpiresAt)
           \/ f.kind = "PolicyUpdate" /\ phase["client"] = "Active" /\ ~NewerPolicy(f.pe)
           \/ f.kind = "SessionAdmit" /\ phase["client"] = "Active"
        /\ Answer("client", Reject(f.tx))
        /\ UNCHANGED <<phase, policy_epoch>>
  /\ pending_attaches' = Pruned(pending_attaches)
  /\ pending_detaches' = Pruned(pending_detaches)
  /\ UNCHANGED protocol_paths

ClientInbound ==
  /\ stream["client"] # <<>>
  /\ LET f == Head(stream["client"])
     IN IF Expires("client")
        THEN /\ phase' = [phase EXCEPT !["client"] = "Closed"]
             /\ pending_attaches' = Pruned(pending_attaches)
             /\ pending_detaches' = Pruned(pending_detaches)
             /\ Answer("client", Reject(f.tx))
             /\ UNCHANGED <<policy_epoch, protocol_paths>>
        ELSE \/ ClientAttached(f, Pruned(pending_attaches))
             \/ ClientAnswered(f, Pruned(pending_detaches))
             \/ ClientOther(f)
  /\ UNCHANGED <<now, hello_tx, pending_policy, gateway_tables>>

-----------------------------------------------------------------------------
\* Gateway

GatewayExpires ==
  /\ Expires("gateway")
  /\ phase' = [phase EXCEPT !["gateway"] = "Closed"]
  /\ pending_policy' = Pruned(pending_policy)
  /\ UNCHANGED <<now, bindings, pending_attaches, pending_detaches,
                 gateway_tables, stream>>

GatewayOutbound(f) ==
  /\ Room /\ phase["gateway"] = "Active" /\ ~Expires("gateway")
  /\ Send("client", f)
  /\ \/ /\ f.kind = "PolicyUpdate"
        /\ f.pe > policy_epoch["gateway"]
        /\ Registers(pending_policy, f)
        /\ UNCHANGED phase
     \/ /\ f.kind = "Close"
        /\ pending_policy' = Pruned(pending_policy)
        /\ phase' = [phase EXCEPT !["gateway"] = "Closed"]
  /\ UNCHANGED <<now, bindings, pending_attaches, pending_detaches, gateway_tables>>

GatewayRequests ==
  {PolicyUpdate(GatewayTx(e), e) : e \in 1 .. MaxPolicy} \cup {Close(GatewayTx(0))}

\* completed_action: the answer to a transaction that is still remembered.
Answered(f) == {i \in 1 .. Len(Unexpired) : Unexpired[i].req.tx = f.tx}
ReplayOf(f) ==
  LET i == CHOOSE i \in Answered(f) : \A j \in Answered(f) : i <= j
  IN IF Unexpired[i].req = f THEN Unexpired[i].answer ELSE Reject(f.tx)

GatewayReplays(f) ==
  /\ Answered(f) # {}
  /\ Answer("gateway", ReplayOf(f))
  /\ completed' = Unexpired
  /\ pending_policy' = Pruned(pending_policy)
  /\ UNCHANGED <<phase, policy_epoch, protocol_paths, attachments, next_path_id>>

\* A request that gets, and whose transaction keeps, its answer.
Replies(f, answer) ==
  /\ Answer("gateway", answer)
  /\ completed' = Remember(f, answer)
  /\ pending_policy' = Pruned(pending_policy)

GatewayHello(f) ==
  /\ f.kind = "ClientHello"
  /\ IF phase["gateway"] = "AwaitHello" /\ now < ExpiresAt
     THEN /\ phase' = [phase EXCEPT !["gateway"] = "Active"]
          /\ policy_epoch' = [policy_epoch EXCEPT !["gateway"] = FirstPolicy]
          /\ Replies(f, SessionAdmit(f.tx))
     ELSE Replies(f, Reject(f.tx)) /\ UNCHANGED <<phase, policy_epoch>>
  /\ UNCHANGED <<protocol_paths, attachments, next_path_id>>

\* Mutant: the gateway does not look the nonce up.
AttachedBeforeNever(f) == FALSE

AttachedBefore(f) == attachments[f.nonce] # None

\* PathAttach: a nonce that was seen gets the path it got; a new one the next
\* identifier, until the table or the identifier space is full.
GatewayAttach(f) ==
  /\ f.kind = "PathAttach"
  /\ LET old == attachments[f.nonce]
     IN \/ /\ phase["gateway"] = "Active" /\ AttachedBefore(f)
           /\ Replies(f, IF old.pe = f.pe THEN PathAttached(f.tx, old.path, old.pe)
                                          ELSE Reject(f.tx))
           /\ UNCHANGED <<protocol_paths, attachments, next_path_id>>
        \/ /\ phase["gateway"] = "Active" /\ ~AttachedBefore(f)
           /\ Cardinality(Present(attachments)) # AttachmentCapacity
           /\ next_path_id # None
           /\ Replies(f, PathAttached(f.tx, next_path_id, f.pe))
           /\ protocol_paths' =
                [protocol_paths EXCEPT !["gateway"][next_path_id] = f.pe]
           /\ attachments' = [attachments EXCEPT
                ![f.nonce] = [pe |-> f.pe, path |-> next_path_id]]
           /\ next_path_id' = IF next_path_id = LastPathId THEN None
                                                           ELSE next_path_id + 1
        \/ /\ \/ phase["gateway"] # "Active"
              \/ /\ ~AttachedBefore(f)
                 /\ \/ Cardinality(Present(attachments)) = AttachmentCapacity
                    \/ next_path_id = None
           /\ Replies(f, Reject(f.tx))
           /\ UNCHANGED <<protocol_paths, attachments, next_path_id>>
  /\ UNCHANGED <<phase, policy_epoch>>

\* The requests gateway_inbound hands to gateway_path_request.
NamesPath(f) == f.kind \in {"PathDetach", "PathHealth"}

\* gateway_path_request: detach and health name a bound path and its epoch.
GatewayPathRequest(f) ==
  /\ NamesPath(f)
  /\ IF phase["gateway"] = "Active" /\ protocol_paths["gateway"][f.path] = f.pe
     THEN /\ Replies(f, Ack(f.tx))
          /\ protocol_paths' = IF f.kind = "PathHealth" THEN protocol_paths
               ELSE [protocol_paths EXCEPT !["gateway"][f.path] = 0]
     ELSE Replies(f, Reject(f.tx)) /\ UNCHANGED protocol_paths
  /\ UNCHANGED <<phase, policy_epoch, attachments, next_path_id>>

GatewayClose(f) ==
  /\ f.kind = "Close"
  /\ IF phase["gateway"] = "Active"
     THEN Replies(f, Ack(f.tx)) /\ phase' = [phase EXCEPT !["gateway"] = "Closed"]
     ELSE Replies(f, Reject(f.tx)) /\ UNCHANGED phase
  /\ UNCHANGED <<policy_epoch, protocol_paths, attachments, next_path_id>>

\* Ack and Reject end a pending policy update; an Ack puts it into force.
GatewayAnswered(f) ==
  LET pending == Pruned(pending_policy)
  IN /\ f.kind \in {"Ack", "Reject"}
     /\ IF phase["gateway"] = "Active" /\ f.tx \in Present(pending)
        THEN /\ pending_policy' = [pending EXCEPT ![f.tx] = None]
             /\ policy_epoch' = IF f.kind # "Ack" THEN policy_epoch
                  ELSE [policy_epoch EXCEPT !["gateway"] = pending[f.tx].req.pe]
             /\ NoAnswer("gateway")
        ELSE /\ pending_policy' = pending
             /\ Answer("gateway", Reject(f.tx))
             /\ UNCHANGED policy_epoch
     /\ completed' = Unexpired
     /\ UNCHANGED <<phase, protocol_paths, attachments, next_path_id>>

GatewayInbound ==
  /\ stream["gateway"] # <<>>
  /\ LET f == Head(stream["gateway"])
     IN IF Expires("gateway")
        THEN /\ phase' = [phase EXCEPT !["gateway"] = "Closed"]
             /\ completed' = Unexpired
             /\ pending_policy' = Pruned(pending_policy)
             /\ Answer("gateway", Reject(f.tx))
             /\ UNCHANGED <<policy_epoch, protocol_paths, attachments, next_path_id>>
        ELSE \/ GatewayReplays(f)
             \/ /\ Answered(f) = {}
                /\ \/ GatewayHello(f) \/ GatewayAttach(f) \/ GatewayPathRequest(f)
                   \/ GatewayClose(f) \/ GatewayAnswered(f)
  /\ UNCHANGED <<now, hello_tx, pending_attaches, pending_detaches>>

-----------------------------------------------------------------------------
ControlTick == now < MaxTime /\ now' = now + 1
          /\ UNCHANGED <<phase, bindings, pendings, gateway_tables, stream>>

ControlInit ==
  /\ now = 0
  /\ phase = [s \in Sides |-> "AwaitHello"]
  /\ policy_epoch = [s \in Sides |-> 0]
  /\ protocol_paths = [s \in Sides |-> [p \in PathIds |-> 0]]
  /\ pending_attaches = [x \in Txs |-> None]
  /\ pending_detaches = [x \in Txs |-> None]
  /\ pending_policy = [x \in Txs |-> None]
  /\ attachments = [n \in Nonces |-> None]
  /\ completed = <<>>
  /\ next_path_id = 1
  /\ hello_tx = None
  /\ stream = [s \in Sides |-> <<>>]

ControlNext ==
  \/ \E x \in ClientTxs : ClientHello(x)
  \/ \E f \in ClientRequests : ClientOutbound(f)
  \/ \E f \in GatewayRequests : GatewayOutbound(f)
  \/ ClientInbound \/ GatewayInbound
  \/ ClientExpires \/ GatewayExpires
  \/ ControlTick

ControlSpec == ControlInit /\ [][ControlNext]_control_vars

-----------------------------------------------------------------------------
\* Properties

Granted(p, e) == \E n \in Nonces : attachments[n] = [pe |-> e, path |-> p]

\* The identifiers given out are exactly the attached nonces', one each, and
\* every path either side believes in is the answer some nonce got: a request
\* repeated after its transaction was forgotten never takes a second path
\* (the nonce lookup of gateway_inbound, "survives completed cache eviction
\* without reallocation").
PathsGranted ==
  /\ \A s \in Sides, p \in PathIds :
       protocol_paths[s][p] # 0 => Granted(p, protocol_paths[s][p])
  /\ Cardinality(Present(attachments)) =
       IF next_path_id = None THEN LastPathId ELSE next_path_id - 1

\* The gateway never puts into force a policy the client has not taken: an
\* update counts once its own acknowledgement arrives, whatever was sent
\* again, rejected as stale or pruned in between.
PolicyFollows ==
  phase["client"] = "Active" => policy_epoch["gateway"] <= policy_epoch["client"]

\* Neither side ever goes back to an older policy, although the gateway
\* takes over whatever epoch is pending under the acknowledged transaction
\* without comparing it with its own.
PolicyAdvances ==
  [][\A s \in Sides : policy_epoch[s] <= policy_epoch'[s]]_control_vars

-----------------------------------------------------------------------------
\* The inductive invariant behind the theorems of ControlSequenceProofs.

Phases == {"AwaitHello", "AwaitAdmit", "Active", "Closed"}
Frames ==
  [tx : Txs, kind : {"ClientHello", "SessionAdmit", "Ack", "Reject", "Close"}]
    \cup [tx : Txs, kind : {"PathAttach"}, nonce : Nonces, pe : PathEpochs]
    \cup [tx : Txs, kind : {"PathAttached", "PathDetach", "PathHealth"},
          path : PathIds, pe : PathEpochs]
    \cup [tx : Txs, kind : {"PolicyUpdate"}, pe : 1 .. MaxPolicy]

\* Types of the two machines and of the stream between them.
TypeOK ==
  /\ now \in Nat
  /\ phase \in [Sides -> Phases]
  /\ policy_epoch \in [Sides -> Nat]
  /\ protocol_paths \in [Sides -> [PathIds -> PathEpochs \cup {0}]]
  /\ attachments \in [Nonces -> [pe : PathEpochs, path : PathIds] \cup {None}]
  /\ next_path_id \in PathIds \cup {None}
  /\ stream \in [Sides -> Seq(Frames)]
  /\ completed \in Seq([req : Frames, answer : Frames, exp : Nat])

\* What the gateway may have sent: paths it granted, policies and a close under
\* its own transactions, and before the hello no admission and no policy.
FromGateway ==
  {f \in Frames :
     /\ f.kind = "PathAttached" => Granted(f.path, f.pe)
     /\ f.kind = "PolicyUpdate" => f.tx = GatewayTx(f.pe)
     /\ f.kind = "Close" => f.tx = GatewayTx(0)
     /\ f.kind \in {"SessionAdmit", "PolicyUpdate"} => phase["gateway"] # "AwaitHello"}

\* The answers on their way and those that may be repeated.
SentOK ==
  /\ stream["client"] \in Seq(FromGateway)
  /\ completed \in Seq([req : Frames, answer : FromGateway, exp : Nat])

\* An acknowledgement of a policy, and the policy.
AcksPolicy(f) == f.kind = "Ack" /\ f.tx \in {GatewayTx(e) : e \in 1 .. MaxPolicy}
EpochOf(f) == f.tx[2]

\* The policies acknowledged in q rise, above low and up to high.
AcksRise(q, low, high) ==
  /\ \A i \in 1 .. Len(q) : AcksPolicy(q[i]) => low < EpochOf(q[i]) /\ EpochOf(q[i]) <= high
  /\ \A i, j \in 1 .. Len(q) :
       i < j /\ AcksPolicy(q[i]) /\ AcksPolicy(q[j]) => EpochOf(q[i]) < EpochOf(q[j])

\* The acknowledgements on their way lead the gateway's policy up to the client's.
Unadmitted == phase["client"] \in {"AwaitHello", "AwaitAdmit"}
PolicyOK ==
  /\ phase["gateway"] = "AwaitHello" => Unadmitted /\ policy_epoch["gateway"] = 0
  /\ IF Unadmitted
     THEN policy_epoch["client"] = 0 /\ policy_epoch["gateway"] <= FirstPolicy
     ELSE /\ FirstPolicy <= policy_epoch["client"]
          /\ policy_epoch["gateway"] <= policy_epoch["client"]
  /\ AcksRise(stream["gateway"], policy_epoch["gateway"], policy_epoch["client"])

\* A pending update is of the policy its transaction stands for.
PendingOK ==
  \A x \in DOMAIN pending_policy : pending_policy[x] # None =>
    \E e \in 1 .. MaxPolicy : x = GatewayTx(e) /\ pending_policy[x].req.pe = e

ControlInv == TypeOK /\ PathsGranted /\ SentOK /\ PolicyOK /\ PendingOK
=============================================================================
