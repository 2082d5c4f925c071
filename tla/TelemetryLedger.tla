--------------------------- MODULE TelemetryLedger ---------------------------
(***************************************************************************)
(* What telemetry ingestion promises of the event log, whatever happens to *)
(* batches, to Redis and to the process: an event gets at most one verdict *)
(* and keeps it, and a client is told that an event was accepted only when *)
(* it is stored as valid.                                                  *)
(***************************************************************************)
CONSTANT Events

VARIABLES
    verdict,  \* the verdict stored for each event
    acked     \* the events a client was told are accepted

vars == <<verdict, acked>>

Undecided == {e \in Events : verdict[e] = "NONE"}

Init ==
    /\ verdict = [e \in Events |-> "NONE"]
    /\ acked = {}

\* One batch: V is stored as valid, R as rejected, and the answer arrives or not.
Record(V, R) ==
    /\ verdict' = [e \in Events |-> IF e \in V THEN "VALID"
                                    ELSE IF e \in R THEN "REJECTED" ELSE verdict[e]]
    /\ acked' \in {acked, acked \cup V}

Next == \E V, R \in SUBSET Undecided : V \cap R = {} /\ Record(V, R)

Spec == Init /\ [][Next]_vars

-----------------------------------------------------------------------------
\* What a client was told is accepted is stored as valid.
AckedIsStored == \A e \in acked : verdict[e] = "VALID"
==============================================================================
