-------------------------- MODULE RiskScoringProofs --------------------------
(***************************************************************************)
(* What is proved of RiskScoring, for every value of the settings and of   *)
(* the scores: type correctness, that isolation without an incident is     *)
(* corroborated, and that under the shipped settings it never happens.     *)
(***************************************************************************)
EXTENDS RiskScoring, TrustPolicyProofs

LEMMA AnomalyRange == \A e \in Evidence(Anomalies, FeatureSets) : e.anomaly \in 0 .. 100
<1>1. \A e \in Evidence(Anomalies, FeatureSets) : e.anomaly \in Anomalies
    BY DEF Evidence
<1>2. Anomalies \subseteq 0 .. 100
    BY ScoringAssumption
<1> QED BY <1>1, <1>2

\* Composite scores, and those of evidence that a trusted baseline gives.
Composites == 0 .. 10000
TrustedComposites == 4275 .. 10000

\* Rounding moves no score across the ends of the scale, and none of at least
\* 42.75 below 43.
LEMMA RoundingRange ==
    ASSUME NEW x \in Composites, NEW c \in RoundedScores(x)
    PROVE  c \in 0 .. 100 /\ (x \in TrustedComposites => c >= 43)
<1>1. x \in Int /\ 0 <= x /\ x <= 10000 /\ (x \in TrustedComposites => x >= 4275)
    BY DEF Composites, TrustedComposites
<1>2. CASE x % 100 = 50
    <2>1. c = x \div 100 \/ c = x \div 100 + 1
        BY <1>2 DEF RoundedScores
    <2>2. x \div 100 \in 0 .. 99 /\ (x >= 4275 => x \div 100 >= 43)
        BY <1>1, <1>2
    <2> QED BY <1>1, <2>1, <2>2
<1>3. CASE x % 100 # 50
    <2>1. c = (x + 50) \div 100
        BY <1>3 DEF RoundedScores
    <2>2. (x + 50) \div 100 \in 0 .. 100 /\ (x >= 4275 => (x + 50) \div 100 >= 43)
        BY <1>1
    <2> QED BY <1>1, <2>1, <2>2
<1> QED BY <1>2, <1>3

\* Without deviating behaviour the evidence the service gathers is all of one
\* family, that of the action itself.
LEMMA QuietEvidenceIsUncorrelated ==
    ASSUME NEW e \in Evidence(Anomalies, FeatureSets), NEW a \in Actions, Gatherable(e),
           ~e.drift, e.anomaly < 50, e.features = {}
    PROVE  ~Correlated(Codes(e, a))
<1> DEFINE quiet == {"COLD_START_NO_BASELINE", "NO_DEVICE_EVIDENCE", "NO_NETWORK_EVIDENCE",
                     "ACTION_RISK_CRITICAL", "INFERRED_ACTION_TYPE",
                     "UNKNOWN_ACTION_TYPE", "LARGE_AMOUNT_ESCALATION", "AMOUNT_ESCALATION"}
<1>1. ~IsAnomaly(e)
    <2>1. e.anomaly \in Int
        BY AnomalyRange
    <2> QED BY <2>1 DEF IsAnomaly
<1>2. EvidenceCodes(e) \subseteq quiet
    BY <1>1 DEF EvidenceCodes, Gatherable, Evidence
<1>3. ActionCodes(a.base, a.inferred, a.amount) \subseteq quiet
    BY DEF ActionCodes
<1>4. \A f \in DOMAIN FamilyMembers : f # "AMOUNT" => quiet \cap FamilyMembers[f] = {}
    BY DEF FamilyMembers
<1>5. Families(Codes(e, a)) \subseteq {"AMOUNT"}
    BY <1>2, <1>3, <1>4 DEF Families, Codes
<1> QED BY <1>5 DEF Correlated

\* A decision to isolate without an open incident was made by the policy's
\* isolation rule.
LEMMA IsolatedByRule ==
    ASSUME NEW c \in 0 .. 100, NEW risk \in ActionRiskLevel, NEW codes,
           Decide(c, risk, codes, FALSE) = "ISOLATE"
    PROVE  risk = "CRITICAL" /\ c <= LowConfidenceMax /\ Correlated(codes)
<1>1. FirstMatch(c, risk).decision # "ISOLATE"
    BY FirstMatchExists DEF Matching
<1>2. Isolates(c, risk, codes)
    BY <1>1 DEF Decide
<1>3. risk = "CRITICAL"
    BY <1>2 DEF Isolates, Rules, Rule
<1> QED BY <1>2, <1>3 DEF Isolates

LEMMA ScoreRange ==
    ASSUME NEW e \in Evidence(Anomalies, FeatureSets), NEW open \in BOOLEAN
    PROVE  \A c \in Confidences(e, open) : c \in 0 .. 100
<1>1. e.anomaly \in 0 .. 100 /\ e.device \in {"matched", "unmatched", "none"}
    BY AnomalyRange DEF Evidence
<1>2. DeviceSignal(e.device) \in 40 .. 100
    BY <1>1 DEF DeviceSignal
<1>3. Composite(e) \in Composites
    <2>1. \A a \in 0 .. 100, d \in 40 .. 100 :
             45 * (100 - a) + 25 * d + 15 * 85 + 15 * 100 \in Composites
        BY DEF Composites
    <2> QED BY <1>1, <1>2, <2>1 DEF Composite
<1>4. \A c \in RoundedScores(Composite(e)) : c \in 0 .. 100
    BY <1>3, RoundingRange
<1>5. ColdStartConfidence \in 0 .. 100
    BY SettingsAssumption
<1> QED BY <1>3, <1>4, <1>5 DEF Confidences

LEMMA RiskLevel == \A a \in Actions : Risk(a) \in ActionRiskLevel
BY DEF Actions, Risk, ActionRisk, BaseRisks, ActionRiskLevel

\* The inductive invariant: a decision is the policy's answer to evidence that
\* can be gathered and to a confidence it can score.
Judged ==
    /\ TypeOK /\ Gatherable(evidence)
    /\ decision # "NONE" =>
         /\ confidence \in Confidences(evidence, incident)
         /\ decision = Decide(confidence, Risk(action), Codes(evidence, action), incident)

\* Every decision is the policy's answer to evidence the service can gather.
THEOREM AlwaysJudged == Spec => []Judged
<1>1. Init => Judged
    <2> SUFFICES ASSUME Init PROVE Judged
        OBVIOUS
    <2>1. evidence \in Evidence(Anomalies, FeatureSets) /\ Gatherable(evidence)
        BY DEF Init
    <2> QED BY <2>1 DEF Init, Judged, TypeOK
<1>2. Judged /\ [Next]_vars => Judged'
    <2> SUFFICES ASSUME Judged, [Next]_vars PROVE Judged'
        OBVIOUS
    <2>1. CASE Evaluate
        <3>1. UNCHANGED <<evidence, action, incident>>
            BY <2>1 DEF Evaluate
        <3>2. confidence' \in Confidences(evidence, incident) /\ confidence' \in 0 .. 100
            BY <2>1, ScoreRange DEF Evaluate, Judged, TypeOK
        <3>3. decision' = Decide(confidence', Risk(action), Codes(evidence, action), incident)
            BY <2>1 DEF Evaluate
        <3>4. decision' \in Decisions
            BY <3>2, <3>3, DecideType, RiskLevel DEF Judged, TypeOK
        <3> QED BY <3>1, <3>2, <3>3, <3>4 DEF Judged, TypeOK
    <2>2. CASE UNCHANGED vars
        BY <2>2 DEF vars, Judged, TypeOK
    <2> QED BY <2>1, <2>2 DEF Next
<1> QED BY <1>1, <1>2, PTL DEF Spec

\* Type correctness; the fused score stays within 0 .. 100.
THEOREM ScoringTypeCorrect == Spec => []TypeOK
BY AlwaysJudged, PTL DEF Judged

\* Whatever the settings, a session without an incident is isolated only on
\* behavioural evidence, for a CRITICAL action and at a critically low score.
THEOREM IsolationAlwaysCorroborated == Spec => []IsolationIsCorroborated
<1>1. Judged => IsolationIsCorroborated
    <2> SUFFICES ASSUME Judged, decision = "ISOLATE", ~incident
                 PROVE  /\ Risk(action) = "CRITICAL" /\ confidence <= LowConfidenceMax
                        /\ evidence.drift \/ evidence.anomaly >= 50 \/ evidence.features # {}
        BY DEF IsolationIsCorroborated
    <2>1. Decide(confidence, Risk(action), Codes(evidence, action), FALSE) = "ISOLATE"
        BY DEF Judged, TypeOK
    <2>2. /\ Risk(action) = "CRITICAL" /\ confidence <= LowConfidenceMax
          /\ Correlated(Codes(evidence, action))
        BY <2>1, IsolatedByRule, RiskLevel DEF Judged, TypeOK
    <2>3. evidence.anomaly \in Int /\ evidence.drift \in BOOLEAN
        BY AnomalyRange DEF Judged, TypeOK, Evidence
    <2> QED BY <2>2, <2>3, QuietEvidenceIsUncorrelated DEF Judged, TypeOK
<1> QED BY <1>1, AlwaysJudged, PTL

\* The lowest score that evidence of deviating behaviour can come to is 43. With
\* LOW_CONFIDENCE_MAX below it, as shipped (30), the isolation rule never fires:
\* only an open incident isolates a session.
THEOREM ShippedPolicyIsolatesOnIncidentOnly ==
    ASSUME LowConfidenceMax < 43 PROVE Spec => [](decision = "ISOLATE" => incident)
<1>1. Judged /\ IsolationIsCorroborated => (decision = "ISOLATE" => incident)
    <2> SUFFICES ASSUME Judged, IsolationIsCorroborated, decision = "ISOLATE", ~incident
                 PROVE  FALSE
        OBVIOUS
    <2>1. evidence.anomaly \in 0 .. 100
        BY AnomalyRange DEF Judged, TypeOK
    <2>2. evidence.trusted /\ evidence.device \in {"matched", "none"}
        BY <2>1 DEF IsolationIsCorroborated, Judged, TypeOK, Gatherable, Evidence
    <2>3. confidence \in RoundedScores(Composite(evidence))
        BY <2>2 DEF Judged, Confidences
    <2>4. PICK x \in Composites : x = Composite(evidence) /\ x \in TrustedComposites
        <3>1. DeviceSignal(evidence.device) \in 60 .. 100
            BY <2>2 DEF DeviceSignal
        <3>2. \A a \in 0 .. 100, d \in 60 .. 100 :
                 LET x == 45 * (100 - a) + 25 * d + 15 * 85 + 15 * 100
                 IN x \in Composites /\ x \in TrustedComposites
            BY DEF Composites, TrustedComposites
        <3> QED BY <2>1, <3>1, <3>2 DEF Composite
    <2>5. \A c \in RoundedScores(x) : c >= 43
        BY <2>4, RoundingRange
    <2>6. confidence \in Int /\ confidence <= LowConfidenceMax /\ LowConfidenceMax \in Int
        <3>1. LowConfidenceMax \in Int
            BY SettingsAssumption
        <3> QED BY <3>1 DEF IsolationIsCorroborated, Judged, TypeOK
    <2> QED BY <2>3, <2>4, <2>5, <2>6
<1> QED BY <1>1, AlwaysJudged, IsolationAlwaysCorroborated, PTL

\* What the policy says of an action of a subject without a trusted baseline.
ColdStartDecision(risk) ==
    IF risk \in {"LOW", "MEDIUM"} THEN "ALLOW" ELSE IF risk = "HIGH" THEN "STEP_UP" ELSE "BLOCK"

\* With COLD_START_CONFIDENCE between the guarded and the moderate threshold, as
\* shipped, an unlearned subject without an incident is judged by the action
\* alone: nothing of the session makes the decision stricter or milder.
THEOREM ColdStartIsJudgedByTheAction ==
    ASSUME GuardedThreshold <= ColdStartConfidence, ColdStartConfidence < ModerateThreshold,
           ModerateThreshold <= HighThreshold
    PROVE  Spec => [](decision # "NONE" /\ ~evidence.trusted /\ ~incident
                        => decision = ColdStartDecision(Risk(action)))
<1>1. Judged /\ IsolationIsCorroborated =>
        (decision # "NONE" /\ ~evidence.trusted /\ ~incident
           => decision = ColdStartDecision(Risk(action)))
    <2> SUFFICES ASSUME Judged, IsolationIsCorroborated,
                        decision # "NONE", ~evidence.trusted, ~incident
                 PROVE  decision = ColdStartDecision(Risk(action))
        OBVIOUS
    <2>1. confidence = ColdStartConfidence /\ confidence \in 0 .. 100
        BY DEF Judged, TypeOK, Confidences
    <2>2. decision # "ISOLATE"
        BY AnomalyRange DEF IsolationIsCorroborated, Judged, Gatherable, TypeOK
    <2>3. Risk(action) \in ActionRiskLevel
        BY RiskLevel DEF Judged, TypeOK
    <2>4. decision = Permitted(confidence, Risk(action))
        BY <2>1, <2>2, <2>3, PolicyTable DEF Judged, Decide
    <2> QED BY <2>1, <2>3, <2>4, SettingsAssumption
            DEF Permitted, ColdStartDecision, ActionRiskLevel
<1> QED BY <1>1, AlwaysJudged, IsolationAlwaysCorroborated, PTL

-----------------------------------------------------------------------------
(* Monotonicity *)

\* severity, as the function that the runs use.
LEMMA SeverityOf == \A d \in Decisions : severity[d] = Severity(d)
BY DEF severity, Severity, Decisions

\* A score that is not higher permits nothing milder.
LEMMA LowerScorePermitsLess ==
    ASSUME NEW c \in 0 .. 100, NEW d \in 0 .. 100, d <= c, NEW risk \in ActionRiskLevel
    PROVE  Severity(Permitted(d, risk)) >= Severity(Permitted(c, risk))
BY SettingsAssumption DEF Severity, Permitted

\* Worse evidence, that is codes of as many families and a score that is not
\* higher, is never judged milder.
LEMMA DecideMonotone ==
    ASSUME NEW c \in 0 .. 100, NEW d \in 0 .. 100, d <= c, NEW risk \in ActionRiskLevel,
           NEW codes, NEW more, Correlated(codes) => Correlated(more), NEW open \in BOOLEAN
    PROVE  severity[Decide(d, risk, more, open)] >= severity[Decide(c, risk, codes, open)]
<1>1. Decide(d, risk, more, open) \in Decisions /\ Decide(c, risk, codes, open) \in Decisions
    BY DecideType
<1>2. CASE open \/ Isolates(d, risk, more)
    BY <1>1, <1>2, SeverityOf DEF Decide, Severity, Decisions
<1>3. CASE ~open /\ ~Isolates(d, risk, more)
    <2>1. ~Isolates(c, risk, codes)
        BY <1>3, SettingsAssumption DEF Isolates
    <2>2. /\ Decide(d, risk, more, open) = Permitted(d, risk)
          /\ Decide(c, risk, codes, open) = Permitted(c, risk)
        BY <1>3, <2>1, PolicyTable DEF Decide
    <2> QED BY <1>1, <2>2, SeverityOf, LowerScorePermitsLess
<1> QED BY <1>2, <1>3

\* Scores that differ by at least half a point do not change order in rounding.
LEMMA RoundingMonotone ==
    ASSUME NEW x \in Composites, NEW y \in Composites, y + 45 <= x,
           NEW c \in RoundedScores(x), NEW d \in RoundedScores(y)
    PROVE  d <= c
<1>1. x \in Int /\ y \in Int /\ x >= 0 /\ y >= 0
    BY DEF Composites
<1>2. /\ c \in Int /\ 100 * c - 50 <= x /\ x <= 100 * c + 50
      /\ d \in Int /\ 100 * d - 50 <= y /\ y <= 100 * d + 50
    BY <1>1 DEF RoundedScores
<1>3. 100 * d - 50 + 45 <= 100 * c + 50
    BY <1>1, <1>2
<1>4. 100 * (d - c) <= 55
    BY <1>2, <1>3
<1> QED BY <1>2, <1>4

LEMMA CompositeRange ==
    ASSUME NEW e \in Evidence(Anomalies, FeatureSets)
    PROVE  Composite(e) \in Composites
<1>1. e.anomaly \in 0 .. 100 /\ e.device \in {"matched", "unmatched", "none"}
    BY AnomalyRange DEF Evidence
<1>2. DeviceSignal(e.device) \in 40 .. 100
    BY <1>1 DEF DeviceSignal
<1>3. \A a \in 0 .. 100, d \in 40 .. 100 :
         45 * (100 - a) + 25 * d + 15 * 85 + 15 * 100 \in Composites
    BY DEF Composites
<1> QED BY <1>1, <1>2, <1>3 DEF Composite

\* For all settings, behaviour that deviates more is never judged milder, across
\* the rounding of the score and the boundaries of the policy.
THEOREM MoreAnomalyIsNeverMilder == Spec => []MoreAnomalyNeverMilder
<1>1. Judged => MoreAnomalyNeverMilder
    <2> SUFFICES ASSUME Judged, decision # "NONE", evidence.trusted,
                        NEW x \in Anomalies, x > evidence.anomaly
                 PROVE  NoMilder([evidence EXCEPT !.anomaly = x], action)
        BY DEF MoreAnomalyNeverMilder
    <2> DEFINE e == [evidence EXCEPT !.anomaly = x]
    <2>1. evidence \in Evidence(Anomalies, FeatureSets) /\ incident \in BOOLEAN /\ action \in Actions
          /\ confidence \in 0 .. 100 /\ confidence \in Confidences(evidence, incident)
          /\ decision = Decide(confidence, Risk(action), Codes(evidence, action), incident)
        BY DEF Judged, TypeOK
    <2>2. /\ e \in Evidence(Anomalies, FeatureSets) /\ e.anomaly = x
          /\ e.trusted = evidence.trusted /\ e.device = evidence.device
          /\ e.features = evidence.features /\ e.drift = evidence.drift
        BY <2>1 DEF Evidence
    <2>3. evidence.anomaly \in 0 .. 100 /\ x \in 0 .. 100 /\ evidence.trusted = TRUE
        BY <2>1, <2>2, AnomalyRange DEF Evidence
    <2> HIDE DEF e
    <2>4. EvidenceCodes(evidence) \subseteq EvidenceCodes(e)
        <3>1. IsAnomaly(evidence) => IsAnomaly(e)
            BY <2>2, <2>3 DEF IsAnomaly
        <3> QED BY <2>2, <2>3, <3>1 DEF EvidenceCodes
    <2>5. Correlated(Codes(evidence, action)) => Correlated(Codes(e, action))
        <3>1. Codes(evidence, action) \subseteq Codes(e, action)
            BY <2>4 DEF Codes
        <3>2. Families(Codes(evidence, action)) \subseteq Families(Codes(e, action))
            BY <3>1 DEF Families
        <3> QED BY <3>2 DEF Correlated
    <2>6. ASSUME NEW c \in Confidences(e, incident) PROVE c \in 0 .. 100 /\ c <= confidence
        <3>1. c \in 0 .. 100
            BY <2>1, <2>2, ScoreRange
        <3>2. CASE incident
            BY <2>1, <3>1, <3>2 DEF Confidences
        <3>3. CASE ~incident
            <4>1. /\ c \in RoundedScores(Composite(e))
                  /\ confidence \in RoundedScores(Composite(evidence))
                BY <2>1, <2>2, <2>3, <3>3 DEF Confidences
            <4>2. Composite(e) \in Composites /\ Composite(evidence) \in Composites
                BY <2>1, <2>2, CompositeRange
            <4>3. Composite(e) + 45 <= Composite(evidence)
                <5>1. DeviceSignal(evidence.device) \in Int
                    BY <2>1 DEF DeviceSignal, Evidence
                <5> QED BY <2>2, <2>3, <5>1 DEF Composite
            <4> QED BY <3>1, <4>1, <4>2, <4>3, RoundingMonotone
        <3> QED BY <2>1, <3>2, <3>3
    <2>7. Risk(action) \in ActionRiskLevel
        BY <2>1, RiskLevel
    <2> QED BY <2>1, <2>5, <2>6, <2>7, DecideMonotone DEF NoMilder, e
<1> QED BY <1>1, AlwaysJudged, PTL

\* The codes of an action that matters to isolation are those of its risk.
LEMMA SameFamilies ==
    ASSUME NEW e, NEW a \in Actions, NEW b \in Actions, Risk(a) = "CRITICAL", Risk(b) = "CRITICAL"
    PROVE  Correlated(Codes(e, a)) => Correlated(Codes(e, b))
<1>1. ASSUME NEW x \in Actions, Risk(x) = "CRITICAL"
      PROVE  Families(Codes(e, x)) = Families(EvidenceCodes(e)) \cup {"AMOUNT"}
    <2>1. /\ "ACTION_RISK_CRITICAL" \in ActionCodes(x.base, x.inferred, x.amount)
          /\ ActionCodes(x.base, x.inferred, x.amount) \subseteq
               {"ACTION_RISK_CRITICAL", "INFERRED_ACTION_TYPE", "UNKNOWN_ACTION_TYPE",
                "LARGE_AMOUNT_ESCALATION", "AMOUNT_ESCALATION"}
        BY <1>1 DEF ActionCodes, Risk
    <2>2. \A f \in DOMAIN FamilyMembers :
            f # "AMOUNT" => ActionCodes(x.base, x.inferred, x.amount) \cap FamilyMembers[f] = {}
        BY <2>1 DEF FamilyMembers
    <2>3. "AMOUNT" \in DOMAIN FamilyMembers /\ "ACTION_RISK_CRITICAL" \in FamilyMembers["AMOUNT"]
        BY DEF FamilyMembers
    <2> QED BY <2>1, <2>2, <2>3 DEF Families, Codes
<1>2. Families(Codes(e, a)) = Families(Codes(e, b))
    BY <1>1
<1> QED BY <1>2 DEF Correlated

\* The order of the risk levels, and of the amounts.
Rank(risk) == IF risk = "LOW" THEN 0 ELSE IF risk = "MEDIUM" THEN 1 ELSE IF risk = "HIGH" THEN 2 ELSE 3

\* An amount raises the catalog's risk and never lowers it, in either argument;
\* a blank type stands for a MEDIUM action without an amount.
LEMMA RiskMonotone ==
    ASSUME NEW a \in Actions, NEW b \in Actions,
           riskRank[BaseOf(b)] >= riskRank[BaseOf(a)],
           amountRank[CountedAmount(b)] >= amountRank[CountedAmount(a)]
    PROVE  Rank(Risk(b)) >= Rank(Risk(a))
<1>1. /\ BaseOf(a) \in ActionRiskLevel /\ BaseOf(b) \in ActionRiskLevel
      /\ CountedAmount(a) \in Amounts /\ CountedAmount(b) \in Amounts
    BY DEF Actions, BaseOf, CountedAmount, BaseRisks, ActionRiskLevel, Amounts
<1>2. \A r \in ActionRiskLevel : riskRank[r] = Rank(r)
    BY DEF riskRank, Rank, ActionRiskLevel
<1>3. /\ amountRank["none"] = 0 /\ amountRank["small"] = 1
      /\ amountRank["large"] = 2 /\ amountRank["huge"] = 3
    BY DEF amountRank
<1>4. Rank(BaseOf(b)) >= Rank(BaseOf(a))
    BY <1>1, <1>2
<1>5. /\ CountedAmount(a) = "huge" => CountedAmount(b) = "huge"
      /\ CountedAmount(a) = "large" => CountedAmount(b) \in {"large", "huge"}
    BY <1>1, <1>3 DEF Amounts
<1>6. \A x \in Actions : Risk(x) = ActionRisk(BaseOf(x), CountedAmount(x))
    BY DEF Risk, ActionRisk, BaseOf, CountedAmount
<1> QED BY <1>1, <1>4, <1>5, <1>6 DEF ActionRisk, Rank, ActionRiskLevel

\* With thresholds in the order of the shipped ones, an action of a higher catalog
\* risk or a larger amount is never judged milder at the same confidence. A blank
\* type counts as MEDIUM, and its amount not at all.
THEOREM RiskierActionIsNeverMilder ==
    ASSUME GuardedThreshold <= ModerateThreshold, ModerateThreshold <= HighThreshold
    PROVE  Spec => []RiskierActionNeverMilder
<1>1. Judged => RiskierActionNeverMilder
    <2> SUFFICES ASSUME Judged, decision # "NONE", NEW a \in Actions,
                        riskRank[BaseOf(a)] >= riskRank[BaseOf(action)],
                        amountRank[CountedAmount(a)] >= amountRank[CountedAmount(action)]
                 PROVE  severity[Decide(confidence, Risk(a), Codes(evidence, a), incident)]
                          >= severity[decision]
        BY DEF RiskierActionNeverMilder
    <2>1. /\ action \in Actions /\ incident \in BOOLEAN /\ confidence \in 0 .. 100
          /\ decision = Decide(confidence, Risk(action), Codes(evidence, action), incident)
        BY DEF Judged, TypeOK
    <2>2. Risk(a) \in ActionRiskLevel /\ Risk(action) \in ActionRiskLevel
        BY <2>1, RiskLevel
    <2> DEFINE d == Decide(confidence, Risk(a), Codes(evidence, a), incident)
    <2>3. d \in Decisions /\ decision \in Decisions
        BY <2>1, <2>2, DecideType
    <2>4. Rank(Risk(a)) >= Rank(Risk(action))
        BY <2>1, RiskMonotone
    <2>5. CASE decision = "ISOLATE"
        <3>1. CASE incident
            BY <2>3, <2>5, <3>1, SeverityOf DEF Decide, Severity
        <3>2. CASE ~incident
            <4>1. /\ Risk(action) = "CRITICAL" /\ confidence <= LowConfidenceMax
                  /\ Correlated(Codes(evidence, action))
                BY <2>1, <2>2, <2>5, <3>2, IsolatedByRule
            <4>2. Risk(a) = "CRITICAL"
                BY <2>2, <2>4, <4>1 DEF Rank, ActionRiskLevel
            <4>3. Correlated(Codes(evidence, a))
                BY <2>1, <4>1, <4>2, SameFamilies
            <4>4. Rule("CRITICAL", 5, 0, "ISOLATE") \in Rules
                BY DEF Rules
            <4>5. Isolates(confidence, Risk(a), Codes(evidence, a))
                BY <4>1, <4>2, <4>3, <4>4 DEF Isolates, Rule
            <4> QED BY <2>3, <2>5, <4>5, SeverityOf DEF Decide, Severity
        <3> QED BY <2>1, <3>1, <3>2
    <2>6. CASE decision # "ISOLATE"
        <3>1. decision = Permitted(confidence, Risk(action))
            BY <2>1, <2>2, <2>6, PolicyTable DEF Decide
        <3>2. d = "ISOLATE" \/ d = Permitted(confidence, Risk(a))
            BY <2>1, <2>2, PolicyTable DEF Decide
        <3>3. Severity(Permitted(confidence, Risk(a))) >= Severity(Permitted(confidence, Risk(action)))
            BY <2>1, <2>2, <2>4, SettingsAssumption DEF Severity, Permitted, Rank, ActionRiskLevel
        <3>4. Severity(decision) \in 0 .. 3 /\ Severity("ISOLATE") = 3
            BY DEF Severity
        <3> HIDE DEF d
        <3>5. Severity(d) >= Severity(decision)
            BY <3>1, <3>2, <3>3, <3>4
        <3> QED BY <2>3, <3>5, SeverityOf DEF d
    <2> QED BY <2>5, <2>6
<1> QED BY <1>1, AlwaysJudged, PTL
==============================================================================
