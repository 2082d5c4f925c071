----------------------------- MODULE TrustPolicy -----------------------------
(***************************************************************************)
(* The pure part of a risk evaluation: how an action's risk, the evidence  *)
(* about a session and the policy's settings become one of the four        *)
(* security decisions, and how the hysteresis rule may hold an earlier one *)
(* (engines/action, engines/risk, engines/policy, _apply_hysteresis).      *)
(*                                                                         *)
(* Scores are integers: a signal s in 0.0 .. 1.0 of the code is the number *)
(* of hundredths 0 .. 100, a confidence is the code's own 0 .. 100.        *)
(***************************************************************************)
EXTENDS Integers, FiniteSets

CONSTANTS
    HighThreshold,        \* settings.HIGH_CONFIDENCE_THRESHOLD      (80)
    ModerateThreshold,    \* settings.MODERATE_CONFIDENCE_THRESHOLD  (60)
    GuardedThreshold,     \* settings.GUARDED_CONFIDENCE_THRESHOLD   (30)
    LowConfidenceMax,     \* settings.LOW_CONFIDENCE_MAX             (30)
    ColdStartConfidence,  \* settings.COLD_START_CONFIDENCE          (30)
    HoldCooldown,         \* settings.HYSTERESIS_COOLDOWN_SECONDS    (60)
    EscalationCooldown    \* settings.HYSTERESIS_ESCALATION_COOLDOWN_SECONDS (15)

\* The settings are plain integers read from the environment; the code checks
\* nothing about how they are ordered.
ASSUME SettingsAssumption ==
    /\ {HighThreshold, ModerateThreshold, GuardedThreshold,
        LowConfidenceMax, ColdStartConfidence} \subseteq 0 .. 100
    /\ {HoldCooldown, EscalationCooldown} \subseteq Nat

ActionRiskLevel == {"LOW", "MEDIUM", "HIGH", "CRITICAL"}
Decisions == {"ALLOW", "STEP_UP", "BLOCK", "ISOLATE"}
Strict == {"BLOCK", "ISOLATE"}
Loose == {"ALLOW", "STEP_UP"}

-----------------------------------------------------------------------------
(* Action risk *)

\* An amount as the engine tells amounts apart: absent or 0, below 25,000,
\* from 25,000, from 100,000.
Amounts == {"none", "small", "large", "huge"}

\* What the engine makes of an action's type before it looks at the amount: the
\* risk of its catalog entry or of its prefix, or "BLANK" for a type of white
\* space only, which the request schema admits.
BaseRisks == ActionRiskLevel \cup {"BLANK"}

\* Mutant: a large amount sets the risk instead of raising it.
AmountSetsRisk(base, amount) ==
    IF base = "BLANK" THEN "MEDIUM"
    ELSE IF amount = "huge" THEN "CRITICAL" ELSE IF amount = "large" THEN "HIGH" ELSE base

\* The risk of an action. A blank type is judged before the amount is looked at.
ActionRisk(base, amount) ==
    IF base = "BLANK" THEN "MEDIUM"
    ELSE IF amount = "huge" THEN "CRITICAL"
    ELSE IF amount = "large" /\ base \in {"LOW", "MEDIUM"} THEN "HIGH"
    ELSE base

\* The codes the action contributes. An inferred action keeps its own reason,
\* so its amount never adds LARGE_AMOUNT_ESCALATION.
ActionCodes(base, inferred, amount) ==
    (IF ActionRisk(base, amount) = "CRITICAL" THEN {"ACTION_RISK_CRITICAL"} ELSE {})
    \cup (IF base = "BLANK" THEN {"UNKNOWN_ACTION_TYPE"}
          ELSE IF inferred THEN {"INFERRED_ACTION_TYPE"}
          ELSE IF amount = "huge" THEN {"LARGE_AMOUNT_ESCALATION"}
          ELSE IF amount = "large" /\ base \in {"LOW", "MEDIUM"}
                 THEN {"AMOUNT_ESCALATION"} ELSE {})

-----------------------------------------------------------------------------
(* Evidence about the session *)

\* The features whose deviation from the baseline has a code of its own.
FeatureCodes == {"TYPING_DWELL_ANOMALY", "TYPING_FLIGHT_ANOMALY",
                 "MOUSE_KINEMATICS_ANOMALY", "CLICK_CADENCE_ANOMALY",
                 "SCROLL_VELOCITY_ANOMALY"}

\* trusted: the subject has a trusted baseline. anomaly, features, drift: what
\* the behavioural engines make of it. device: the session names a device that
\* has a profile ("matched"), one that has none ("unmatched"), or no device.
Evidence(anomalies, features) ==
    [trusted : BOOLEAN, anomaly : anomalies, features : features,
     drift : BOOLEAN, device : {"matched", "unmatched", "none"}]

\* Evidence the service can gather: without a trusted baseline there is no
\* score and no drift; the trusted baseline was itself found by the session's
\* device, so a named device is then a known one.
Gatherable(e) ==
    IF e.trusted THEN e.device # "unmatched"
                 ELSE e.anomaly = 0 /\ e.features = {} /\ ~e.drift

IsAnomaly(e) == e.anomaly >= 50 \/ \E f, g \in e.features : f # g

EvidenceCodes(e) ==
    IF ~e.trusted THEN {"COLD_START_NO_BASELINE"}
    ELSE e.features
         \cup (IF IsAnomaly(e) THEN {"BEHAVIOR_ANOMALY"} ELSE {})
         \cup (IF e.drift THEN {"SIGNIFICANT_DRIFT"} ELSE {})
         \cup (IF e.device = "unmatched" THEN {"NEW_DEVICE"}
               ELSE IF e.device = "none" THEN {"NO_DEVICE_EVIDENCE"} ELSE {})
         \cup {"NO_NETWORK_EVIDENCE"}

DeviceSignal(device) ==
    CASE device = "matched" -> 100 [] device = "unmatched" -> 40 [] device = "none" -> 60

\* Mutant: the anomaly is taken for the signal.
InvertedComposite(e) == 45 * e.anomaly + 25 * DeviceSignal(e.device) + 15 * 85 + 15 * 100

\* Mutant: weights that sum to more than 1.
OverweightComposite(e) == 45 * (100 - e.anomaly) + 25 * DeviceSignal(e.device) + 15 * 85 + 25 * 100

\* Behaviour, device, network (always 0.85) and session history (always 1.0),
\* weighted 45 : 25 : 15 : 15, in ten-thousandths.
Composite(e) == 45 * (100 - e.anomaly) + 25 * DeviceSignal(e.device) + 15 * 85 + 15 * 100

\* round(composite * 100). On an exact half the float sum may lie on either
\* side of it and round() goes to the even neighbour: both are outcomes.
RoundedScores(x) ==
    IF x % 100 = 50 THEN {x \div 100, x \div 100 + 1} ELSE {(x + 50) \div 100}

\* The confidences one evaluation can come to.
Confidences(e, openIncident) ==
    IF openIncident THEN {15}
    ELSE IF ~e.trusted THEN {ColdStartConfidence}
    ELSE RoundedScores(Composite(e))

-----------------------------------------------------------------------------
(* The policy *)

\* Codes that are distinct sources of evidence, and the family each counts for
\* (AMOUNT is the family the code calls ACTION, a reserved word here).
FamilyMembers ==
    [BEHAVIOR  |-> {"TYPING_DWELL_ANOMALY", "MOUSE_KINEMATICS_ANOMALY",
                    "CLICK_CADENCE_ANOMALY", "BEHAVIOR_ANOMALY"},
     DEVICE    |-> {"NEW_DEVICE", "NEW_OR_CHANGED_DEVICE", "UNKNOWN_SESSION_DEVICE"},
     NETWORK   |-> {"SUSPICIOUS_NETWORK"},
     DRIFT     |-> {"SIGNIFICANT_DRIFT"},
     REPLAY    |-> {"REPLAY_DETECTED"},
     INTEGRITY |-> {"MISSING_INTEGRITY"},
     SEQUENCE  |-> {"SEQUENCE_ANOMALY"},
     AMOUNT    |-> {"ACTION_RISK_CRITICAL", "LARGE_AMOUNT_ESCALATION"}]

Families(codes) == {f \in DOMAIN FamilyMembers : codes \cap FamilyMembers[f] # {}}

\* Mutant: signals are counted one by one, not by family.
EachCodeCorrelates(codes) ==
    \E c, d \in codes \cap UNION {FamilyMembers[f] : f \in DOMAIN FamilyMembers} : c # d

Correlated(codes) == \E f, g \in Families(codes) : f # g

Rule(risk, priority, min, decision) ==
    [risk |-> risk, priority |-> priority, min |-> min, decision |-> decision]

\* The built-in v1 policy, without the incident rule, which decide() applies first.
Rules ==
    { Rule("LOW",      1, 0,                 "ALLOW"),
      Rule("MEDIUM",   2, GuardedThreshold,  "ALLOW"),
      Rule("MEDIUM",   3, 0,                 "STEP_UP"),
      Rule("HIGH",     2, ModerateThreshold, "ALLOW"),
      Rule("HIGH",     3, GuardedThreshold,  "STEP_UP"),
      Rule("HIGH",     4, 0,                 "BLOCK"),
      Rule("CRITICAL", 2, HighThreshold,     "ALLOW"),
      Rule("CRITICAL", 3, ModerateThreshold, "STEP_UP"),
      Rule("CRITICAL", 4, 0,                 "BLOCK"),
      Rule("CRITICAL", 5, 0,                 "ISOLATE") }

\* The permissive rules that `confidence` satisfies; decide() takes the first
\* in order of priority.
Matching(confidence, risk) ==
    {r \in Rules : r.risk = risk /\ r.decision # "ISOLATE" /\ confidence >= r.min}

FirstMatch(confidence, risk) ==
    CHOOSE r \in Matching(confidence, risk) :
        \A q \in Matching(confidence, risk) : r.priority <= q.priority

Isolates(confidence, risk, codes) ==
    /\ \E r \in Rules : r.risk = risk /\ r.decision = "ISOLATE"
    /\ confidence <= LowConfidenceMax
    /\ Correlated(codes)

\* Mutant: the incident rule matches the risk level its table row names.
IncidentRuleForCritical(confidence, risk, codes, openIncident) ==
    IF (openIncident /\ risk = "CRITICAL") \/ Isolates(confidence, risk, codes) THEN "ISOLATE"
    ELSE FirstMatch(confidence, risk).decision

Decide(confidence, risk, codes, openIncident) ==
    IF openIncident \/ Isolates(confidence, risk, codes) THEN "ISOLATE"
    ELSE FirstMatch(confidence, risk).decision

\* Mutant: the shorter cooldown for both holds.
ShortHold(previous, age, decision) ==
    IF /\ age < EscalationCooldown
       /\ \/ previous \in Strict /\ decision \in Loose
          \/ previous = "STEP_UP" /\ decision = "ALLOW"
    THEN previous ELSE decision

\* The hysteresis rule: `previous` ("NONE" when Redis has no state) was stored
\* `age` seconds ago and the policy now says `decision`.
ApplyHysteresis(previous, age, decision) ==
    IF previous \in Strict /\ decision \in Loose /\ age < HoldCooldown THEN previous
    ELSE IF previous = "STEP_UP" /\ decision = "ALLOW" /\ age < EscalationCooldown THEN "STEP_UP"
    ELSE decision
==============================================================================
