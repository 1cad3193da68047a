SPECIFICATION FairLoopSpec
CONSTANTS
    None = None
    Versions <- CustomResource
    Resources = {r1}
    GenerationAware = TRUE
    Threads = {t1, t2}
    RetryConfigured = TRUE
    MaxAttempts = 1
    ErrorsPossible = FALSE
    CleanupMayThrow = FALSE
    RejectionsPossible = FALSE
    UseFinalizer = TRUE
    ObservedGenerationAware = FALSE
    EventFilter = "passthrough"
    MaxUserVersions = 3
    ForeignFinalizers = {FALSE, TRUE}
    ReconcileOutcomes = {"noUpdate", "updateResource", "updateResourceAndStatus", "exception"}
    CleanupOutcomes = {"removeFinalizer", "exception"}
    Reschedules = {FALSE}
    HasErrorStatusHandler = TRUE
    CallFailures = {"notExecuted"}
    Unwatched = unwatched
    SecondaryTargets <- OwnTargets
    SkipUpdateIfNoChange = TRUE
    MaxSecondaryChanges = 0
    TimerFirst = TRUE
    MaxRelists = 1
    MaxRestarts = 1
CHECK_DEADLOCK FALSE
INVARIANTS
    LoopTypeOK
    ObservedGenerationWasReconciled
    NoGenerationIsForgotten
PROPERTIES
    EveryGenerationIsReconciled
    DeletionCompletes
    NoRemovalWithoutCleanup
    NoReconcileAfterCleanup
    GenerationsAreReconciledInOrder
