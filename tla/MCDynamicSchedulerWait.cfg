\* Both policies, three iterations: every action, and MigratePolicy in the first.
SPECIFICATION FairSpec
CONSTANTS
    TotalGpus = 4  ActorParallel = 1  RolloutParallel = 1
    RolloutBatch = 12  NMinibatches = 3  MaxRunning = 3
    ActorGpus = 1  InferenceGpus = 1
    UsePreProcess = TRUE  UseWait = TRUE
INVARIANTS
    NoSharedGpu
    GpusAccounted
    GroupsConserved
    AnswersFit
    LastIterationTakesAll
    NothingLeftBehind
PROPERTIES
    GlobalStepEnds
