-------------------------- MODULE MCRiskEvaluation ---------------------------
(***************************************************************************)
(* RiskEvaluation under the shipped thresholds, but for a LOW_CONFIDENCE_  *)
(* MAX at which the isolation rule can fire, with one assessment for each  *)
(* decision the policy can reach.                                          *)
(***************************************************************************)
EXTENDS RiskEvaluation, TLC

MCAssessments ==
    { [confidence |-> 30, risk |-> "LOW",  codes |-> {"COLD_START_NO_BASELINE"}],
      [confidence |-> 30, risk |-> "HIGH", codes |-> {"COLD_START_NO_BASELINE"}],
      [confidence |-> 30, risk |-> "CRITICAL",
       codes |-> {"COLD_START_NO_BASELINE", "ACTION_RISK_CRITICAL"}],
      [confidence |-> 43, risk |-> "CRITICAL",
       codes |-> {"BEHAVIOR_ANOMALY", "SIGNIFICANT_DRIFT", "ACTION_RISK_CRITICAL"}] }

Symmetry == Permutations(Requests) \cup Permutations(Incidents)
==============================================================================
