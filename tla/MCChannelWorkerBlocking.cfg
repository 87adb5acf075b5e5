\* One place, four puts, two gets and a batch.  The calls of an instance come to an end.
SPECIFICATION FairSpec
CONSTANTS
    p1 = p1  p2 = p2  p3 = p3  p4 = p4
    g1 = g1  g2 = g2  g3 = g3
    b1 = b1  b2 = b2  k1 = k1  k2 = k2
    Calls <- BlockingCalls
    Keys = {k1}
    Op <- BlockingOp
    Key <- BlockingKey
    Weight <- BlockingWeight
    Target <- BlockingTarget
    MaxSize = 1
INVARIANTS
    EachItemOnce
    WithinMaxSize
    PuttersServed
    GettersServed
PROPERTIES
    EveryCallReturns
CHECK_DEADLOCK FALSE
