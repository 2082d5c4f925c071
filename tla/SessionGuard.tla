---------------------------- MODULE SessionGuard -----------------------------
(***************************************************************************)
(* What the backend promises of a session's status and its incidents, as   *)
(* one object that every request changes in a single step: an incident is  *)
(* opened only together with the isolation of its session and is closed    *)
(* once; only an operator's PATCH takes a session out of a terminal state; *)
(* a session that was registered stays so.                                 *)
(*                                                                         *)
(* Overlap says that requests may overlap. Then a request may act upon a   *)
(* status that is no longer true: it may revive a session or isolate one   *)
(* that has ended. Nothing else becomes possible.                          *)
(***************************************************************************)
CONSTANTS Incidents, Overlap

VARIABLES
    status,    \* "ABSENT" before the registration
    incident,  \* "NONE", "OPEN" or "RESOLVED"
    released   \* an operator has taken the session out of its isolation

vars == <<status, incident, released>>

Statuses == {"ACTIVE", "PAUSED", "TERMINATED", "ISOLATED"}
Live == {"ACTIVE", "PAUSED"}

Init ==
    /\ status = "ABSENT"
    /\ incident = [i \in Incidents |-> "NONE"]
    /\ released = FALSE

\* A registration, of a new session or of a paused one, or a BLOCK decision,
\* which sets a paused session active.
Activate ==
    /\ status \in Live \cup {"ABSENT"} \/ Overlap
    /\ status' = "ACTIVE"
    /\ UNCHANGED <<incident, released>>

\* An ISOLATE decision.
Isolate(i) ==
    /\ status \in Live \/ (Overlap /\ status # "ABSENT")
    /\ incident[i] = "NONE"
    /\ incident' = [incident EXCEPT ![i] = "OPEN"]
    /\ status' = "ISOLATED"
    /\ released' = FALSE

\* An operator sets the status.
Set(s) ==
    /\ status # "ABSENT"
    /\ status' = s
    /\ released' = (s # "ISOLATED" /\ (released \/ status = "ISOLATED"))
    /\ UNCHANGED incident

Close(i) ==
    /\ incident[i] = "OPEN"
    /\ incident' = [incident EXCEPT ![i] = "RESOLVED"]
    /\ UNCHANGED <<status, released>>

Next ==
    \/ Activate
    \/ \E i \in Incidents : Isolate(i) \/ Close(i)
    \/ \E s \in Statuses : Set(s)

Spec == Init /\ [][Next]_vars

-----------------------------------------------------------------------------
\* Without overlapping requests an open incident keeps its session isolated,
\* until an operator releases it.
OpenMeansIsolated ==
    ~Overlap /\ ~released => \A i \in Incidents : incident[i] = "OPEN" => status = "ISOLATED"
==============================================================================
