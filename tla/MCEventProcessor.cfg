SPECIFICATION EPSpec
CONSTANTS
    Resources = {r1, r2}
    None = None
    GenerationAware = FALSE
    Versions = {v1, v2}
    Threads = {t1}
    RetryConfigured = TRUE
    MaxAttempts = 1
    ErrorsPossible = FALSE
    CleanupMayThrow = TRUE
    RejectionsPossible = FALSE
SYMMETRY Symmetry
CHECK_DEADLOCK FALSE
INVARIANTS
    EPTypeOK
    SerialExecution
    NoStuckResource
    RetryInfoIsCurrent
PROPERTIES
    DeletedStartsNothing
    EventLeadsToExecution
    StoppedStartsNothing
