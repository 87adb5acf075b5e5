\* Nested blocks: what the manager still guarantees.  A worker whose release
\* raised has stopped, so the system may come to rest.
SPECIFICATION HSpec
CONSTANTS
    w1 = w1  w2 = w2  w3 = w3  w4 = w4
    g1 = g1  g2 = g2  g3 = g3
    Workers <- MCPairWorkers
    Devices <- MCPairDevices
    AccelIds <- MCPair
    MaxDepth = 2
    NoWorker = NoWorker
INVARIANTS
    NoLostWakeup
CHECK_DEADLOCK FALSE
