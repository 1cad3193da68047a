SPECIFICATION EPSpec
CONSTANTS
    Resources = {r1}
    None = None
    GenerationAware = TRUE
    Versions = {v1, v2, v3}
    Threads = {t1, t2}
    RetryConfigured = TRUE
    MaxAttempts = 2
    ErrorsPossible = TRUE
    CleanupMayThrow = TRUE
    RejectionsPossible = TRUE
PROPERTIES
    ImplementsSerialExecutor
