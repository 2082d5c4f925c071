CONSTANTS
    HighThreshold = 80
    ModerateThreshold = 60
    GuardedThreshold = 30
    LowConfidenceMax = 50
    ColdStartConfidence = 30
    HoldCooldown = 4
    EscalationCooldown = 2
    DecisionTTL = 6
    DurableRedis = TRUE
    Requests = {r1}
    Incidents = {i1, i2, i3}
    Assessments <- MCAssessments
SPECIFICATION Spec
PROPERTY ReisolationIsJustified
