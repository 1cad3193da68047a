SPECIFICATION LifecycleSpec
CONSTANTS
    None = None
    c1 = c1
    c2 = c2
    c3 = c3
    Controllers = {c1, c2, c3}
    CrdOf <- CrdOfControllers
    MaxStarts = 3
CHECK_DEADLOCK FALSE
INVARIANTS
    LifecycleTypeOK
    OneManagerPerCrd
    NothingRunsAfterStop
    RegisteredControllersRun
