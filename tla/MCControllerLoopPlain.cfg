SPECIFICATION FairLoopSpec
CONSTANTS
    None = None
    Versions <- CustomResource
    Resources = {r1, r2}
    GenerationAware = FALSE
    Threads = {t1}
    RetryConfigured = TRUE
    MaxAttempts = 1
    ErrorsPossible = FALSE
    CleanupMayThrow = FALSE
    RejectionsPossible = FALSE
    UseFinalizer = FALSE
    ObservedGenerationAware = FALSE
    EventFilter = "passthrough"
    MaxUserVersions = 1
    ForeignFinalizers = {FALSE}
    ReconcileOutcomes = {"noUpdate", "updateStatus", "exception"}
    CleanupOutcomes = {"removeFinalizer"}
    Reschedules = {FALSE}
    HasErrorStatusHandler = FALSE
    CallFailures = {"notExecuted", "notAnswered"}
    Unwatched = unwatched
    SecondaryTargets <- AllTargets
    SkipUpdateIfNoChange = TRUE
    MaxSecondaryChanges = 2
    TimerFirst = TRUE
    MaxRelists = 0
    MaxRestarts = 0
CHECK_DEADLOCK FALSE
INVARIANTS
    NoLostEvent
PROPERTIES
    ReceivedEventIsProcessed
    SecondaryChangeIsReconciled
    InstantReconciliationIsFresh
    FailureIsRetried
