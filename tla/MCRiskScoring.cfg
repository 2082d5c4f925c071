CONSTANTS
    HighThreshold = 80
    ModerateThreshold = 60
    GuardedThreshold = 30
    LowConfidenceMax = 50
    ColdStartConfidence = 30
    HoldCooldown = 60
    EscalationCooldown = 15
    Anomalies <- MCAnomalies
    FeatureSets <- MCFeatureSets
SPECIFICATION Spec
INVARIANTS
    TypeOK
    IsolationIsCorroborated
    MoreAnomalyNeverMilder
    RiskierActionNeverMilder
\* One evaluation is one step; there is nothing to do after it.
CHECK_DEADLOCK FALSE
