\* Two ranks with one trajectory of two chunks each, weights in two buckets.
SPECIFICATION Spec
CONSTANTS
    Ranks = {r1, r2}
    Threshold = 1
    StoreSize = 2
    Percents = {50}
    Chunks = 2
    Buckets = 2
    MaxSteps = 3
    InFlight = 1
INVARIANTS
    TrainedIsFresh
    OnPolicyEnough
PROPERTIES
    EveryStepEnds
CHECK_DEADLOCK FALSE
