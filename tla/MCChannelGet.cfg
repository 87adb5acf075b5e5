\* Asynchronous gets beside synchronous ones of another consumer.  Programs come to an end.
SPECIFICATION FairSpec
CONSTANTS
    c1 = c1  c2 = c2  kA = kA  kB = kB
    i1 = i1  i2 = i2  i3 = i3  i4 = i4
    Consumers = {c1, c2}
    Keys = {kA, kB}
    Items = {i1, i2, i3, i4}
    Nothing = Nothing
    MaxSize = 0
    Program <- AsyncAndSync
    KeyOfItem <- KeysOfItems
INVARIANTS
    OwnKey
    EachItemOnce
PROPERTIES
    EveryGetReturns
CHECK_DEADLOCK FALSE
