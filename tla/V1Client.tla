------------------------------- MODULE V1Client -------------------------------
(***************************************************************************)
(* The V1 client engine: the uplink loop, the failure handling every       *)
(* reader, keepalive and probe task runs, probe accounting, and the rescan *)
(* that adds and removes paths. A step ends wherever the code releases a   *)
(* lock or awaits.                                                         *)
(***************************************************************************)
EXTENDS V1Session

CONSTANTS
  Tasks,              \* tasks that may run fail_path at the same time
  Threshold,          \* probe_failure_threshold
  GraceTicks          \* RESCAN_GRACE_TICKS

VARIABLES
  session,            \* the session of V1Session; a transport is its path
  metrics,            \* per path: None (unmetered), "up", "lossy", "down"
  misses,             \* probe_misses
  absent_for,         \* scans a bound path has been missing in a row
  forgetting,         \* removed paths whose health is not dropped yet
  notified,           \* the path the gateway was told about
  notified_weights,   \* the weights it was told about, None before the first
  failing,            \* fail_path in progress, by task
  uplink,             \* the uplink loop
  steady              \* history: nothing changed since its snapshot

client_vars == <<session, metrics, misses, absent_for, forgetting, notified, notified_weights,
          failing, uplink, steady>>

Unchanged == UNCHANGED <<session, metrics, misses, absent_for, forgetting>>

-----------------------------------------------------------------------------
\* choose_path, WeightedBondingScheduler::update_from and preferred_path

\* is_eligible; a path nobody has measured is taken to be usable.
Usable(p) == metrics[p] \in {"up", None}
Eligible == {p \in Bound(session) : Usable(p)}

\* The paths whose score may be above zero.
Scored == {p \in Eligible : metrics[p] = "up"}

\* Mutant: the health of a path does not count.
ChoosesAny(current) ==
  IF Bound(session) = {} THEN {None} ELSE {Lowest(Bound(session))}

\* The best score wins: a measured path over an unmeasured one, and any over
\* an unreachable one. When all are, the current path or the lowest is kept.
Chooses(current) ==
  IF Scored # {} THEN Scored
  ELSE LET rest == IF Eligible # {} THEN Eligible ELSE Bound(session)
       IN {IF current \in rest THEN current ELSE Lowest(rest)}

\* The bonding weights of a snapshot of the paths, and the preferred one.
Weighted(ids) == {p \in ids : Usable(p)}
Preferred(ids) == IF Weighted(ids) = {} THEN {None} ELSE Weighted(ids)

-----------------------------------------------------------------------------
\* announce_path, advertise_weights: first the gate, then the datagram

Resting == [pc |-> "idle", path |-> None, ids |-> {}]

\* The last steps of fail_path and of an uplink iteration. A PathSelect that
\* cannot be sent stays announced.
Announces(t) ==
  /\ t.pc = "announce" /\ notified' = t.path
  /\ UNCHANGED notified_weights

Advertises(t) ==
  /\ t.pc = "advertise"
  /\ notified_weights' =
       IF Cardinality(Weighted(Bound(session))) < 2 THEN notified_weights
       ELSE Weighted(Bound(session))
  /\ UNCHANGED notified

-----------------------------------------------------------------------------
\* fail_path

FailStarts(t, dead) ==
  /\ failing[t] = Resting /\ metrics[dead] # "down"
  /\ failing' = [failing EXCEPT ![t] = [Resting EXCEPT !.pc = "mark", !.path = dead]]
  /\ Unchanged /\ UNCHANGED <<notified, notified_weights, uplink, steady>>

FailMarks(t) ==
  /\ failing[t].pc = "mark"
  /\ metrics' = [metrics EXCEPT ![failing[t].path] = "down"] /\ steady' = FALSE
  /\ failing' = [failing EXCEPT ![t].pc = "promote"]
  /\ UNCHANGED <<session, misses, absent_for, forgetting, notified, notified_weights, uplink>>

FailPromotes(t) ==
  /\ failing[t].pc = "promote"
  /\ \/ /\ Bound(session) = {} /\ UNCHANGED session
        /\ failing' = [failing EXCEPT ![t] = Resting]
     \/ \E best \in IF Bound(session) = {} THEN {} ELSE Chooses(session.active) :
          /\ session' = SetActive(session, best)
          /\ failing' = [failing EXCEPT ![t] =
               IF best = session.active THEN Resting
               ELSE [Resting EXCEPT !.pc = "announce", !.path = best]]
  /\ UNCHANGED <<metrics, misses, absent_for, forgetting, notified, notified_weights, uplink,
                 steady>>

FailAnnounces(t) ==
  /\ \/ /\ Announces(failing[t])
        /\ failing' = [failing EXCEPT ![t] = [Resting EXCEPT !.pc = "advertise"]]
     \/ Advertises(failing[t]) /\ failing' = [failing EXCEPT ![t] = Resting]
  /\ Unchanged /\ UNCHANGED <<uplink, steady>>

-----------------------------------------------------------------------------
\* probe_loop and the PathStatus replies, which also reach a removed path

\* record_probe, by its effect on eligibility: the loss estimate decays slowly
\* with the answers; a lost probe may take it over the limit, and only
\* fail_path makes a path unreachable.
RecordProbe(health, answered) ==
  IF health \in {None, "up"} THEN IF answered THEN {"up"} ELSE {"up", "lossy"}
  ELSE IF answered THEN {"up", "lossy"} ELSE {health}

ProbeAnswered(p) ==
  /\ \E health \in RecordProbe(metrics[p], TRUE) :
       metrics' = [metrics EXCEPT ![p] = health]
  /\ misses' = [misses EXCEPT ![p] = 0]
  /\ steady' = (steady /\ metrics' = metrics)
  /\ UNCHANGED <<session, absent_for, forgetting, notified, notified_weights, failing, uplink>>

ProbeLost(t, p) ==
  /\ failing[t] = Resting
  /\ \E health \in RecordProbe(metrics[p], FALSE) :
       metrics' = [metrics EXCEPT ![p] = health]
  /\ steady' = (steady /\ metrics' = metrics)
  /\ misses' = [misses EXCEPT ![p] = IF @ + 1 >= Threshold THEN 0 ELSE @ + 1]
  /\ failing' = IF misses[p] + 1 >= Threshold /\ metrics[p] # "down"
                THEN [failing EXCEPT ![t] = [Resting EXCEPT !.pc = "mark", !.path = p]]
                ELSE failing
  /\ UNCHANGED <<session, absent_for, forgetting, notified, notified_weights, uplink>>

-----------------------------------------------------------------------------
\* uplink_loop

Snapshot ==
  /\ uplink = Resting
  /\ uplink' = [Resting EXCEPT !.pc = "decide", !.ids = Bound(session)]
  /\ steady' = TRUE
  /\ Unchanged /\ UNCHANGED <<notified, notified_weights, failing>>

\* A packet nobody can carry is dropped; its sequence number is used up.
Prefers ==
  /\ uplink.pc = "decide"
  /\ \E p \in Preferred(uplink.ids) :
       uplink' = IF p = None THEN Resting
                 ELSE [Resting EXCEPT !.pc = "activate", !.path = p]
  /\ Unchanged /\ UNCHANGED <<notified, notified_weights, failing, steady>>

Activates ==
  /\ uplink.pc = "activate"
  /\ session' = SetActive(session, uplink.path)
  /\ uplink' = [uplink EXCEPT !.pc = "announce"]
  /\ UNCHANGED <<metrics, misses, absent_for, forgetting, notified, notified_weights, failing,
                 steady>>

UplinkAnnounces ==
  /\ \/ Announces(uplink) /\ uplink' = [Resting EXCEPT !.pc = "advertise"]
     \/ Advertises(uplink) /\ uplink' = [uplink EXCEPT !.pc = "send"]
  /\ Unchanged /\ UNCHANGED <<failing, steady>>

\* The packet, and its duplicate when the path is degraded.
Transmits ==
  /\ uplink.pc = "send" /\ uplink' = Resting
  /\ Unchanged /\ UNCHANGED <<notified, notified_weights, failing, steady>>

-----------------------------------------------------------------------------
\* rescan_loop

AddsPath(p) ==
  /\ p \notin Bound(session) /\ forgetting = {}
  /\ session' = AddPath(session, p, p) /\ steady' = FALSE
  /\ metrics' = [metrics EXCEPT ![p] = IF @ = None THEN "up" ELSE @]
  /\ UNCHANGED <<misses, absent_for, forgetting, notified, notified_weights, failing, uplink>>

\* One scan: the paths it saw keep or clear their count, the others move on,
\* and those missing for the grace period leave the session.
Scans(listed) ==
  LET bound == Bound(session)
      count == [p \in Paths |-> IF p \in listed THEN 0 ELSE absent_for[p] + 1]
      gone == {p \in bound : count[p] >= GraceTicks}
  IN /\ forgetting = {} /\ forgetting' = gone
     /\ session' = RemovePaths(session, gone)
     /\ absent_for' = [p \in Paths |-> IF p \in gone THEN 0
                                      ELSE IF p \in bound THEN count[p] ELSE absent_for[p]]
     /\ steady' = (steady /\ gone = {})
     /\ UNCHANGED <<metrics, misses, notified, notified_weights, failing, uplink>>

\* The health of a removed path is dropped after the path.
Forgets ==
  /\ forgetting # {} /\ forgetting' = {}
  /\ metrics' = [p \in Paths |-> IF p \in forgetting THEN None ELSE metrics[p]]
  /\ misses' = [p \in Paths |-> IF p \in forgetting THEN 0 ELSE misses[p]]
  /\ UNCHANGED <<session, absent_for, notified, notified_weights, failing, uplink, steady>>

-----------------------------------------------------------------------------
Start ==
  LET first == AddPath(NewSession, Lowest(Paths), Lowest(Paths))
  IN [first EXCEPT !.paths = [p \in Paths |-> p]]

ClientInit ==
  /\ session = Start /\ notified = Lowest(Paths)
  /\ metrics = [p \in Paths |-> None]
  /\ misses = [p \in Paths |-> 0] /\ absent_for = [p \in Paths |-> 0]
  /\ notified_weights = None /\ forgetting = {}
  /\ failing = [t \in Tasks |-> Resting] /\ uplink = Resting /\ steady = FALSE

ClientNext ==
  \/ \E t \in Tasks : \/ \E p \in Paths : FailStarts(t, p) \/ ProbeLost(t, p)
                      \/ FailMarks(t) \/ FailPromotes(t) \/ FailAnnounces(t)
  \/ \E p \in Paths : ProbeAnswered(p) \/ AddsPath(p)
  \/ Snapshot \/ Prefers \/ Activates \/ UplinkAnnounces \/ Transmits
  \/ \E listed \in SUBSET Paths : Scans(listed)
  \/ Forgets

ClientSpec == ClientInit /\ [][ClientNext]_client_vars

-----------------------------------------------------------------------------
\* A stale decision heals: an uplink iteration during which nothing changed
\* leaves a usable path active, whatever promotions of earlier failures were
\* still under way, so a lost path is not used for more than one packet.
FailoverHeals ==
  uplink.pc = "send" /\ steady => session.active \in Eligible
=============================================================================
