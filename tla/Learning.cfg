CONSTANTS
    h1 = h1
    h2 = h2
    Worker = Worker
    e1 = e1
    e2 = e2
    f = f
    a = a
    b = b
    n = n
    s = s
    a1 = a1
    a2 = a2
    anon = anon
    system = system
    acme = acme
    Handlers <- MCHandlers
    Events <- MCEvents
    Sessions <- MCSessions
    Tenants <- MCTenants
    Batches <- MCBatches
    SessionOf <- MCSessionOf
    TenantOf <- MCTenantOf
    Anonymous <- MCAnonymous
    Featureless <- MCFeatureless
    Degraded <- MCDegraded
    WorkerTenant = system
    QueueMax = 1
    SessionConfidence = 80
    PromoteMin = 80
    MinObservations = 2
    MaxBatches = 3
SPECIFICATION FairSpec
CHECK_DEADLOCK FALSE
INVARIANTS
    TypeOK
    OneWriterLosesNothing
    LearnedIsStored
    LearnedOnce
    TrustedIsBacked
    
    WorkerNeverWaits
    UnusableNeedsTwoWriters
PROPERTIES
    WorkerDrainsQueue
    WorkerProgress
