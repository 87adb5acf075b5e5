\* Three ranks infer five results each, at most two at a time.
SPECIFICATION Spec
CONSTANTS
    Ranks = {r1, r2, r3}
    PerDp = 5
    Split = 2
    Pipelined = TRUE
INVARIANTS
    RanksStopTogether
    NothingHeldBack
PROPERTIES
    EveryRankEnds
CHECK_DEADLOCK FALSE
