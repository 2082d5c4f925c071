------------------------- MODULE MCTelemetryIngest ---------------------------
(***************************************************************************)
(* Three events of two SDK instances, sent alone, in order, or resent out  *)
(* of order after a later one. One may go out under another session.       *)
(***************************************************************************)
EXTENDS TelemetryIngest, TLC

CONSTANTS e1, e2, e3, s1, s2

MCEvents == {e1, e2, e3}
MCInstances == {s1, s2}
MCBatches == {<<e1, e2>>, <<e3>>}
MCMisdirected == {<<e3>>}
MCSeqNo == [e \in MCEvents |-> IF e = e2 THEN 2 ELSE 1]
Symmetry == Permutations(Requests)

MCInstance == [e \in MCEvents |-> IF e = e3 THEN s2 ELSE s1]
==============================================================================
