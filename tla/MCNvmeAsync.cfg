CONSTANTS
    r1 = r1
    r2 = r2
    Requests <- TwoRequests
    Parts <- TwoAndOne
    QueueSize = 3
    CqSize = 3
    Cids = 65536
    MaxReads = 2
    FaultSets <- Situations
SPECIFICATION FairSpec
INVARIANTS
    RingsAgree
    RequestOutlivesItsParts
    SuccessMeansTransferred
PROPERTY
    AsyncQueueDrains
