\* A window of two, and one slot where files back the cache.
SPECIFICATION Spec
CONSTANTS
    Ways <- MCWays
    CacheSize = 1
    Window = 2
    Pool = 2
    World = 2
INVARIANTS
    SampleFromRecent
    SampleIsRight
    LoadSucceeds
PROPERTIES
    DiskCatchesUp
CHECK_DEADLOCK FALSE
