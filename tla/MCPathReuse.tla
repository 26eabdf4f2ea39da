----------------------------- MODULE MCPathReuse -----------------------------
(***************************************************************************)
(* SessionManager with a history variable: when each path identifier of a  *)
(* session was last given back by a committed path.                        *)
(***************************************************************************)
EXTENDS SessionManager

VARIABLE freed

Committed(x, p) == x # None /\ x.paths[p] # None /\ ~x.paths[p].reserved

ReuseInit == Init /\ freed = [s \in Sessions |-> NoPaths]

ReuseNext ==
  /\ Next
  /\ freed' = [s \in Sessions |->
       IF sessions'[s] = None THEN NoPaths
       ELSE [p \in PathIds |->
               IF Committed(sessions[s], p) /\ ~Committed(sessions'[s], p)
               THEN now ELSE freed[s][p]]]

ReuseSpec == ReuseInit /\ [][ReuseNext]_<<vars, freed>>

\* "Recently detached IDs are not reused until this bounded quarantine
\* expires": an identifier comes back only path_tombstone_ttl_ms after it was
\* given back.  (The quarantine of the run holds every identifier, so none is
\* evicted.)
NoEarlyReuse ==
  [][\A s \in Live, p \in PathIds :
       /\ sessions'[s] # None
       /\ sessions[s].paths[p] = None /\ sessions'[s].paths[p] # None
       /\ freed[s][p] # None
       => now >= freed[s][p] + TombstoneTTL]_<<vars, freed>>
=============================================================================
