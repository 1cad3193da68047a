SPECIFICATION FairLoopSpec
CONSTANTS
    None = None
    Versions <- CustomResource
    Resources = {r1}
    GenerationAware = TRUE
    Threads = {t1}
    RetryConfigured = TRUE
    MaxAttempts = 1
    ErrorsPossible = FALSE
    CleanupMayThrow = FALSE
    RejectionsPossible = FALSE
    UseFinalizer = FALSE
    ObservedGenerationAware = TRUE
    EventFilter = "passthrough"
    MaxUserVersions = 1
    ForeignFinalizers = {FALSE}
    ReconcileOutcomes = {"noUpdate"}
    CleanupOutcomes = {"removeFinalizer"}
    Reschedules = {FALSE}
    HasErrorStatusHandler = FALSE
    CallFailures = {}
    Unwatched = unwatched
    SecondaryTargets <- OwnTargets
    SkipUpdateIfNoChange = TRUE
    MaxSecondaryChanges = 1
    TimerFirst = TRUE
    MaxRelists = 0
    MaxRestarts = 1
CHECK_DEADLOCK FALSE
PROPERTIES
    EarlyEventIsProcessed
