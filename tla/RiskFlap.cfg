CONSTANTS
    HighThreshold = 80
    ModerateThreshold = 60
    GuardedThreshold = 30
    LowConfidenceMax = 50
    ColdStartConfidence = 30
    HoldCooldown = 2
    EscalationCooldown = 1
    DecisionTTL = 3
    DurableRedis = TRUE
    Requests = {r1, r2}
    Incidents = {i1, i2}
    Assessments <- MCAssessments
SYMMETRY Symmetry
SPECIFICATION Spec
PROPERTY NoFlap
