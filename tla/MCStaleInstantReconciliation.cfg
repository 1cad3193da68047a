SPECIFICATION LoopSpec
CONSTANTS
    None = None
    Versions <- CustomResource
    Resources = {r1}
    GenerationAware = TRUE
    Threads = {t1}
    RetryConfigured = TRUE
    MaxAttempts = 1
    ErrorsPossible = FALSE
    CleanupMayThrow = FALSE
    RejectionsPossible = FALSE
    UseFinalizer = TRUE
    ObservedGenerationAware = FALSE
    EventFilter = "passthrough"
    MaxUserVersions = 2
    ForeignFinalizers = {FALSE}
    ReconcileOutcomes = {"updateResourceAndStatus"}
    CleanupOutcomes = {"removeFinalizer"}
    Reschedules = {FALSE}
    HasErrorStatusHandler = FALSE
    CallFailures = {}
    Unwatched = unwatched
    SecondaryTargets <- OwnTargets
    SkipUpdateIfNoChange = TRUE
    MaxSecondaryChanges = 1
    TimerFirst = TRUE
    MaxRelists = 0
    MaxRestarts = 0
CHECK_DEADLOCK FALSE
PROPERTIES
    InstantReconciliationIsAlwaysFresh
