\* Three workers, two groups with a common master, six mixes of calls.  Programs come to an end.
SPECIFICATION Spec
CONSTANTS
    Workers = {1, 2, 3}
    Transfers <- MCTransfers
    Modes <- MCModes
    Ports = {pa, pb}
    Parts = 2
    NoPort = NoPort
    NoWorker = 0
INVARIANTS
    StrictOrder
    OneAtATime
    OneSetUpPerGroup
PROPERTIES
    EveryTransferCompletes
CHECK_DEADLOCK FALSE
