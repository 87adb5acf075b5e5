\* Four workers on overlapping accelerators, one block deep.
SPECIFICATION HFairSpec
CONSTANTS
    w1 = w1  w2 = w2  w3 = w3  w4 = w4
    g1 = g1  g2 = g2  g3 = g3
    Workers <- MCWorkers
    Devices <- MCDevices
    AccelIds <- MCCycle
    MaxDepth = 1
    NoWorker = NoWorker
INVARIANTS
    MutualExclusion
    ResumeFindsNoOwner
    ReleaseNeverRaises
PROPERTIES
    EveryAcquireReturns
    GrantsInOrder
