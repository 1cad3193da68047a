SPECIFICATION FairESMSpec
CONSTANTS
    None = None
    ControllerSource = controller
    TimerSource = timer
    EventSources = {controller, timer, informer}
    MaxEvents = 2
CHECK_DEADLOCK FALSE
INVARIANTS
    ESMInv
    StopStopsAll
    OnlyStoppedSourcesAreIgnored
PROPERTIES
    StartVisitsAll
    LocksAreGivenBack
