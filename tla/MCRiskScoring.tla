---------------------------- MODULE MCRiskScoring ----------------------------
(***************************************************************************)
(* RiskScoring over scores around every boundary of the policy, under the  *)
(* shipped thresholds but for a LOW_CONFIDENCE_MAX at which the isolation  *)
(* rule can fire at all (the lowest fused score is 43).                    *)
(***************************************************************************)
EXTENDS RiskScoring

MCAnomalies == {0, 15, 28, 29, 33, 44, 45, 49, 50, 51, 52, 53, 55, 60, 61, 62, 75, 85, 95, 100}
MCFeatureSets ==
    {{}, {"TYPING_DWELL_ANOMALY"}, {"SCROLL_VELOCITY_ANOMALY"},
     {"TYPING_FLIGHT_ANOMALY", "SCROLL_VELOCITY_ANOMALY"}}
==============================================================================
