----------------------------- MODULE RiskScoring -----------------------------
(***************************************************************************)
(* One evaluation after another, each of any evidence the service can      *)
(* gather and any action: the policy alone, without the hysteresis and     *)
(* without anything that evaluations share.                                *)
(***************************************************************************)
EXTENDS TrustPolicy

CONSTANTS
    Anomalies,       \* the anomaly scores that are tried, in hundredths
    FeatureSets      \* the sets of deviating features that are tried

ASSUME ScoringAssumption ==
    Anomalies \subseteq 0 .. 100 /\ FeatureSets \subseteq SUBSET FeatureCodes

VARIABLES
    evidence,   \* what the engines report of the session
    action,     \* the action to be judged: [base, inferred, amount]
    incident,   \* the session has an open incident
    confidence, \* the score, once evaluated
    decision    \* what the policy says, once evaluated

vars == <<evidence, action, incident, confidence, decision>>

Actions == [base : BaseRisks, inferred : BOOLEAN, amount : Amounts]

Codes(e, a) == EvidenceCodes(e) \cup ActionCodes(a.base, a.inferred, a.amount)
Risk(a) == ActionRisk(a.base, a.amount)

Init ==
    /\ evidence \in {e \in Evidence(Anomalies, FeatureSets) : Gatherable(e)}
    /\ action \in Actions
    /\ incident \in BOOLEAN
    /\ confidence = 0
    /\ decision = "NONE"

\* _evaluate_inner, from the evidence to the policy's answer.
Evaluate ==
    /\ decision = "NONE"
    /\ confidence' \in Confidences(evidence, incident)
    /\ decision' = Decide(confidence', Risk(action), Codes(evidence, action), incident)
    /\ UNCHANGED <<evidence, action, incident>>

Next == Evaluate

Spec == Init /\ [][Next]_vars

-----------------------------------------------------------------------------
TypeOK ==
    /\ evidence \in Evidence(Anomalies, FeatureSets)
    /\ action \in Actions
    /\ incident \in BOOLEAN
    /\ confidence \in 0 .. 100
    /\ decision \in Decisions \cup {"NONE"}

severity == [ALLOW |-> 0, STEP_UP |-> 1, BLOCK |-> 2, ISOLATE |-> 3]

\* No outcome of judging action `a` on evidence `e` is milder than the decision
\* that was reached.
NoMilder(e, a) ==
    \A c \in Confidences(e, incident) :
        severity[Decide(c, Risk(a), Codes(e, a), incident)] >= severity[decision]

(***************************************************************************)
(* Without an open incident a session is isolated only for a CRITICAL      *)
(* action, at a critically low confidence, and when the behaviour itself   *)
(* deviates or drifts: the amount and the risk of one action are a single  *)
(* source of evidence, and missing evidence is none.                       *)
(***************************************************************************)
IsolationIsCorroborated ==
    decision = "ISOLATE" /\ ~incident =>
        /\ Risk(action) = "CRITICAL" /\ confidence <= LowConfidenceMax
        /\ evidence.drift \/ evidence.anomaly >= 50 \/ evidence.features # {}

(***************************************************************************)
(* Behaviour that deviates more from the baseline is never judged milder,  *)
(* across the rounding of the score and the boundaries of the policy.      *)
(***************************************************************************)
MoreAnomalyNeverMilder ==
    decision # "NONE" /\ evidence.trusted =>
        \A x \in Anomalies :
            x > evidence.anomaly => NoMilder([evidence EXCEPT !.anomaly = x], action)

\* The catalog risk an action counts with, and the amount that counts.
BaseOf(a) == IF a.base = "BLANK" THEN "MEDIUM" ELSE a.base
CountedAmount(a) == IF a.base = "BLANK" THEN "none" ELSE a.amount

amountRank == [none |-> 0, small |-> 1, large |-> 2, huge |-> 3]
riskRank == [LOW |-> 0, MEDIUM |-> 1, HIGH |-> 2, CRITICAL |-> 3]

(***************************************************************************)
(* An action of a higher catalog risk, or with a larger amount, is never   *)
(* judged milder at the same confidence: the amount escalates a risk and   *)
(* never lowers one, and the policy's rows are ordered.                    *)
(*                                                                         *)
(* A blank type is the exception the engine makes: it is judged as a       *)
(* MEDIUM action without an amount, so that a blank type with an amount    *)
(* that would escalate any other type may be judged milder than a LOW      *)
(* action of that amount.                                                  *)
(***************************************************************************)
RiskierActionNeverMilder ==
    decision # "NONE" =>
        \A a \in Actions :
            /\ riskRank[BaseOf(a)] >= riskRank[BaseOf(action)]
            /\ amountRank[CountedAmount(a)] >= amountRank[CountedAmount(action)]
            => severity[Decide(confidence, Risk(a), Codes(evidence, a), incident)]
                 >= severity[decision]
==============================================================================
