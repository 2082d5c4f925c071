CONSTANTS
    s1 = s1
    s2 = s2
    stray = stray
    orphan = orphan
    Flush = Flush
    Strays <- MCStrays
    Orphans <- MCOrphans
    Sessions <- MCSessions
    Header = s1
    QueueSizes = {1, 2}
    BatchSize = 1
    MaxRetries = 1
    ServerMax = 2
    MaxPackets = 3
    MaxDisturbances = 0
SPECIFICATION Spec
PROPERTY UndeliveredIsBuffered
