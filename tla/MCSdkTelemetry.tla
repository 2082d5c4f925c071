--------------------------- MODULE MCSdkTelemetry ----------------------------
(***************************************************************************)
(* One instance with one fire-and-forget call and one request it has given *)
(* up on, that may change from the session s1 it was configured with to s2 *)
(* and back.                                                               *)
(***************************************************************************)
EXTENDS SdkTelemetry

CONSTANTS s1, s2, stray, orphan

MCSessions == {s1, s2}
MCStrays == {stray}
MCOrphans == {orphan}
==============================================================================
