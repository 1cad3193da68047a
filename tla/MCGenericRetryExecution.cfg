SPECIFICATION RetrySpec
CONSTANTS
    Configurations <- MCConfigurations
    MaxLong = 40
    MaxCalls = 7
CHECK_DEADLOCK FALSE
INVARIANTS
    RetryTypeOK
    LimitIsExact
    DelaysAreCut
    DelaysNeverShrink
    DelaysAreExponential
