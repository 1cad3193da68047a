SPECIFICATION FairLoopSpec
CONSTANTS
    None = None
    Versions <- CustomResource
    Resources = {r1}
    GenerationAware = TRUE
    Threads = {t1}
    RetryConfigured = TRUE
    MaxAttempts = 1
    ErrorsPossible = FALSE
    CleanupMayThrow = FALSE
    RejectionsPossible = FALSE
    UseFinalizer = TRUE
    ObservedGenerationAware = TRUE
    EventFilter = "passthrough"
    MaxUserVersions = 4
    ForeignFinalizers = {FALSE}
    ReconcileOutcomes = {"noUpdate", "updateResourceAndStatus", "exception"}
    CleanupOutcomes = {"removeFinalizer", "noFinalizerRemoval"}
    Reschedules = {FALSE}
    HasErrorStatusHandler = FALSE
    CallFailures = {"notExecuted", "notAnswered"}
    Unwatched = unwatched
    SecondaryTargets <- OwnTargets
    SkipUpdateIfNoChange = TRUE
    MaxSecondaryChanges = 0
    TimerFirst = TRUE
    MaxRelists = 0
    MaxRestarts = 1
CHECK_DEADLOCK FALSE
INVARIANTS
    NoGenerationIsForgotten
PROPERTIES
    ObservedGenerationCatchesUp
    ObservedIsNotRepeated
