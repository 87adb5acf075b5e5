\* Two ranks infer three results each, all at once if they can.
SPECIFICATION Spec
CONSTANTS
    Ranks = {r1, r2}
    PerDp = 3
    Split = 1
    Pipelined = TRUE
INVARIANTS
    RanksStopTogether
CHECK_DEADLOCK FALSE
