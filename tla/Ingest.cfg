CONSTANTS
    e1 = e1
    e2 = e2
    e3 = e3
    s1 = s1
    s2 = s2
    None = None
    Requests = {r1, r2}
    Events <- MCEvents
    Instances <- MCInstances
    Batches <- MCBatches
    Misdirected <- MCMisdirected
    SeqNo <- MCSeqNo
    Instance <- MCInstance
    SessionLimit = 1
    MaxBatches = 3
SYMMETRY Symmetry
SPECIFICATION Spec
INVARIANTS
    TypeOK
    OneInstanceUnlessRaced
    MarkersAccountedFor
PROPERTIES
    InOrder
    AcceptedLateOnlyInProgress
    LedgerSpec
