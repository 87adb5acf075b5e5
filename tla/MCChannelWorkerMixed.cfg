\* Every method on two places.  The calls of an instance come to an end.
SPECIFICATION Spec
CONSTANTS
    p1 = p1  p2 = p2  p3 = p3  p4 = p4
    g1 = g1  g2 = g2  g3 = g3
    b1 = b1  b2 = b2  k1 = k1  k2 = k2
    Calls <- MixedCalls
    Keys = {k1, k2}
    Op <- MixedOp
    Key <- MixedKey
    Weight <- MixedWeight
    Target <- MixedTarget
    MaxSize = 2
INVARIANTS
    BatchWithinTarget
CHECK_DEADLOCK FALSE
