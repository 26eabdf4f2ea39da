------------------------------ MODULE KillSwitch ------------------------------
(***************************************************************************)
(* Selected-app protection: FwpmEngine installs a permit filter for every  *)
(* selected application and then the deny-all, removes them again, and     *)
(* rolls back an install that fails. Every filter is added and deleted in  *)
(* a transaction of its own, which may fail; the filters of a session go   *)
(* with the session. Building a filter and arbitration by weight are left  *)
(* to the operating system.                                                *)
(***************************************************************************)
EXTENDS Naturals, Sequences, SequencesExt, Option

CONSTANTS
  Apps,               \* applications that can be selected
  MaxApps,            \* bound on the applications of a policy
  MaxFilterId         \* bound on the filter identifiers the system hands out

\* The deny-all is for no application.
ASSUME AllIsNoApp == "all" \notin Apps
ASSUME PolicyBound == MaxApps \in Nat

VARIABLES
  open,               \* the session to the filter engine
  installed, closed,  \* the fields of FwpmEngine
  filters,            \* live filters: identifier |-> application or "all"
  next_id,            \* the system's identifier counter
  call,               \* the call under way
  report,             \* the InstallReport the caller holds: its permits and deny-all
  failed_delete       \* history: a deletion failed in this session

protection_vars == <<open, installed, closed, filters, next_id, call, report, failed_delete>>

NoCall == [pc |-> "idle", todo |-> <<>>, done |-> <<>>]

\* FwpmEngine::with_backend
NewEngine == installed' = FALSE /\ closed' = FALSE /\ failed_delete' = FALSE

\* imp::WfpSession::open: it needs an elevated process and the filter service.
OpensSession ==
  /\ ~open
  /\ open' = TRUE /\ NewEngine
  /\ UNCHANGED <<filters, next_id, call, report>>

\* install: refused when installed or closed.
InstallStarts(policy) ==
  /\ open /\ call = NoCall /\ ~installed /\ ~closed
  /\ call' = [NoCall EXCEPT !.pc = "install", !.todo = policy]
  /\ UNCHANGED <<open, installed, closed, filters, next_id, report, failed_delete>>

\* One filter for an application or for all, in a transaction of its own.
AddFilter(target) ==
  /\ next_id < MaxFilterId /\ next_id' = next_id + 1
  /\ filters' = [i \in DOMAIN filters \union {next_id} |->
                   IF i = next_id THEN target ELSE filters[i]]

InstallReport(permits, deny) == [permits |-> permits, deny |-> deny]

\* A permit for the next application, in a transaction; without any left, the
\* deny-all, which completes the install.
AddsNext ==
  /\ call.pc = "install"
  /\ \/ /\ call.todo # <<>> /\ AddFilter(Head(call.todo))
        /\ call' = [call EXCEPT !.todo = Tail(@), !.done = Append(@, next_id)]
        /\ UNCHANGED <<installed, report>>
     \/ /\ call.todo = <<>> /\ AddFilter("all")
        /\ installed' = TRUE /\ call' = NoCall
        /\ report' = InstallReport(call.done, next_id)
  /\ UNCHANGED <<open, closed, failed_delete>>

AddFails ==
  /\ call.pc = "install"
  /\ call' = IF call.done = <<>> THEN NoCall
             ELSE [pc |-> "rollback", todo |-> call.done, done |-> <<>>]
  /\ UNCHANGED <<open, installed, closed, filters, next_id, report, failed_delete>>

\* Mutant: the deny-all is the first to go.
DenyFirst(r) == <<r.deny>> \o r.permits

Ordered(r) == Append(r.permits, r.deny)

\* uninstall does not ask whether the engine is closed.
UninstallStarts ==
  /\ open /\ call = NoCall /\ installed /\ report # None
  /\ call' = [pc |-> "uninstall", todo |-> Ordered(report), done |-> <<>>]
  /\ UNCHANGED <<open, installed, closed, filters, next_id, report, failed_delete>>

\* delete_filters: one transaction for each identifier.
Deletes ==
  LET last == Len(call.todo) = 1
  IN /\ call.pc \in {"rollback", "uninstall"} /\ ~closed
     /\ Head(call.todo) \in DOMAIN filters
     /\ filters' = [i \in DOMAIN filters \ {Head(call.todo)} |-> filters[i]]
     /\ call' = IF last THEN NoCall ELSE [call EXCEPT !.todo = Tail(@)]
     /\ installed' = (installed /\ ~(last /\ call.pc = "uninstall"))
     /\ UNCHANGED <<open, closed, next_id, report, failed_delete>>

\* The identifier is gone already, the session is closed, or the transaction
\* fails; what is left of the list stays live and installed stays as it is.
DeleteFails ==
  /\ call.pc \in {"rollback", "uninstall"}
  /\ call' = NoCall /\ failed_delete' = TRUE
  /\ UNCHANGED <<open, installed, closed, filters, next_id, report>>

\* close, the system drops the filters of the session.
ClosesSession ==
  /\ open /\ call = NoCall /\ ~closed
  /\ closed' = TRUE /\ filters' = << >>
  /\ UNCHANGED <<open, installed, next_id, call, report, failed_delete>>

\* The engine is dropped, or the process dies in the middle of a call.
Dies ==
  /\ open
  /\ open' = FALSE /\ filters' = << >> /\ call' = NoCall /\ report' = None
  /\ UNCHANGED <<installed, closed, next_id, failed_delete>>

ProtectionInit ==
  /\ open = FALSE /\ installed = FALSE /\ closed = FALSE /\ failed_delete = FALSE
  /\ filters = << >> /\ next_id = 1 /\ call = NoCall /\ report = None

Policies == {p \in SeqOf(Apps, MaxApps) : IsInjective(p)}

ProtectionNext ==
  \/ OpensSession \/ \E p \in Policies : InstallStarts(p)
  \/ AddsNext \/ AddFails \/ UninstallStarts \/ Deletes \/ DeleteFails
  \/ ClosesSession \/ Dies

ProtectionSpec == ProtectionInit /\ [][ProtectionNext]_protection_vars

-----------------------------------------------------------------------------
Live == {filters[i] : i \in DOMAIN filters}

\* An application that was not selected gets no network from the moment the
\* install returned until the uninstall returned, even half way through it and
\* after it failed; between calls the live filters are exactly those of the
\* report, and none without one, unless a deletion has failed; and a session
\* that is gone leaves none behind.
FiltersFollow ==
  /\ open /\ installed /\ ~closed => "all" \in Live
  /\ ~open \/ closed => Live = {}
  /\ open /\ call = NoCall /\ ~closed /\ ~failed_delete =>
       DOMAIN filters = IF installed THEN ToSet(Ordered(report)) ELSE {}
  /\ call.pc = "install" => "all" \notin Live \/ failed_delete
=============================================================================
