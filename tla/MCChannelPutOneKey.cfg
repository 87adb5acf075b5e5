\* Two producers under one key with one place.  Programs come to an end.
SPECIFICATION FairSpec
CONSTANTS
    p1 = p1  p2 = p2  kA = kA  kB = kB
    Producers = {p1, p2}
    Keys = {kA, kB}
    Program <- OneKey
    NoPut = NoPut
    MaxSize = 1
INVARIANTS
    InOrder
    ReturnedIsStored
    OnlyNowaitDrops
PROPERTIES
    EveryPutReturns
CHECK_DEADLOCK FALSE
