----------------------- MODULE EventSourceManagerProofs -----------------------
(***************************************************************************)
(* Theorems about the event source manager, for every set of event sources *)
(* and any number of events.                                               *)
(***************************************************************************)
EXTENDS EventSourceManager, TLAPS

\* What each phase of start and stop has established: before it nothing runs,
\* and from the loop of start to that of stop what runs is registered, so
\* that stop will visit it.
Progress ==
    /\ at \in {"created", "lockToStart"} => \A s \in EventSources : ~Live(s)
    /\ at \in {"starting", "started", "lockToStop"} =>
          \A s \in EventSources : Live(s) => s \in eventSources
    /\ at = "stopping" => \A s \in EventSources : Live(s) => s \in toVisit
    /\ StopStopsAll

\* Every event is of a source that has been started, and is ignored only when
\* stop has reached its end.
Senders ==
    /\ ~processorRunning => at = "stopped"
    /\ \A s \in EventSources :
          sending[s] # "nothing" \/ s \in dropped => state[s] # "new"
    /\ dropped # {} => at = "stopped"

\* The event sources that start visits, and those it has visited.
Visits ==
    at = "starting" =>
        /\ toVisit \subseteq eventSources
        /\ \A s \in eventSources \ toVisit : state[s] # "new"

ProgressInv == ESMInv /\ Progress /\ Senders /\ Visits
-------------------------------------------------------------------------------
LEMMA InitialManager == ESMInit => ProgressInv
  BY EventSourcesAssumption
     DEF ESMInit, ProgressInv, ESMInv, ESMTypeOK, LockOwners, Progress, Senders,
         Visits, StopStopsAll, Live, At

\* The steps of the thread that starts and stops.
LEMMA StartStopKeeps ==
    ASSUME ProgressInv, StartStop \/ StopBegins
    PROVE  ProgressInv'
  <1> USE EventSourcesAssumption
      DEF ProgressInv, ESMInv, ESMTypeOK, LockOwners, Progress, Senders, Visits,
          StopStopsAll, Live, At, senderVars
  <1>1. CASE StartsProcessor
    BY <1>1 DEF StartsProcessor
  <1>2. CASE LocksToStart
    BY <1>2 DEF LocksToStart, LocksManager
  <1>3. ASSUME NEW s \in EventSources, StartsEventSource(s)
        PROVE  ProgressInv'
    BY <1>3 DEF StartsEventSource
  <1>4. CASE Started
    BY <1>4 DEF Started
  <1>5. CASE LocksToStop
    BY <1>5 DEF LocksToStop, LocksManager
  <1>6. ASSUME NEW s \in EventSources, StopsEventSource(s)
        PROVE  ProgressInv'
    BY <1>6 DEF StopsEventSource
  <1>7. CASE EventSourcesStopped
    BY <1>7 DEF EventSourcesStopped, ClearsEventSources
  <1>8. CASE StopsProcessor
    BY <1>8 DEF StopsProcessor
  <1>9. CASE StopBegins
    BY <1>9 DEF StopBegins
  <1> QED
    BY <1>1, <1>2, <1>3, <1>4, <1>5, <1>6, <1>7, <1>8, <1>9 DEF StartStop

\* The steps of an event source: registration, and its thread.
LEMMA SenderKeeps ==
    ASSUME ProgressInv,
           NEW s \in EventSources,
           \/ RegisterEventSource(s)
           \/ Sends(s, "event") \/ Sends(s, "delete")
           \/ HandlesEvent(s)
           \/ CleansUpForCustomResource(s)
    PROVE  ProgressInv'
  <1> USE EventSourcesAssumption
      DEF ProgressInv, ESMInv, ESMTypeOK, LockOwners, Progress, Senders, Visits,
          StopStopsAll, Live, At, lifecycleVars
  <1>1. CASE RegisterEventSource(s)
    BY <1>1 DEF RegisterEventSource, MayRegister, senderVars
  <1>2. CASE Sends(s, "event") \/ Sends(s, "delete")
    BY <1>2 DEF Sends
  <1>3. CASE HandlesEvent(s)
    BY <1>3 DEF HandlesEvent
  <1>4. CASE CleansUpForCustomResource(s)
    BY <1>4 DEF CleansUpForCustomResource
  <1> QED
    BY <1>1, <1>2, <1>3, <1>4

THEOREM ManagerInvariant == ESMSpec => []ProgressInv
  <1>1. ProgressInv /\ [ESMNext]_esmVars => ProgressInv'
    <2> SUFFICES ASSUME ProgressInv, [ESMNext]_esmVars
                 PROVE  ProgressInv'
      OBVIOUS
    <2>1. CASE UNCHANGED esmVars
      BY <2>1 DEF esmVars, ProgressInv, ESMInv, ESMTypeOK, LockOwners, Progress,
                  Senders, Visits, StopStopsAll, Live
    <2>2. CASE ESMNext
      BY <2>2, StartStopKeeps, SenderKeeps DEF ESMNext
    <2> QED
      BY <2>1, <2>2
  <1> QED
    BY <1>1, InitialManager, PTL DEF ESMSpec

\* Each lock is held exactly where the code's try blocks say.
THEOREM LocksHaveOwners == ESMSpec => []ESMInv
  <1>1. ProgressInv => ESMInv
    BY DEF ProgressInv
  <1> QED
    BY <1>1, ManagerInvariant, PTL

\* When stop has left its loop, every event source that start has called has
\* been stopped (EventSourceManager.java:71-88).
THEOREM StopStopsEverySource == ESMSpec => []StopStopsAll
  <1>1. ProgressInv => StopStopsAll
    BY DEF ProgressInv, Progress
  <1> QED
    BY <1>1, ManagerInvariant, PTL

\* The processor ignores events of stopped event sources only
\* (EventProcessor.java:103-106).
THEOREM RunningSourcesAreHeard == ESMSpec => []OnlyStoppedSourcesAreIgnored
  <1>1. ProgressInv => OnlyStoppedSourcesAreIgnored
    BY DEF ProgressInv, ESMInv, ESMTypeOK, Progress, Senders, StopStopsAll, Live,
           OnlyStoppedSourcesAreIgnored
  <1> QED
    BY <1>1, ManagerInvariant, PTL

\* No event source slips into the loop of start (EventSourceManager.java:53-69,
\* 90-108).
THEOREM StartVisitsEverySource == ESMSpec => StartVisitsAll
  <1>1. ProgressInv /\ [ESMNext]_esmVars =>
            [at = "starting" /\ at' = "started"
             => \A s \in eventSources : state[s] # "new"]_esmVars
    <2> SUFFICES ASSUME ProgressInv, ESMNext, at = "starting", at' = "started"
                 PROVE  \A s \in eventSources : state[s] # "new"
      OBVIOUS
    <2>1. Started
      BY DEF ESMNext, StartStop, StartsProcessor, LocksToStart, LocksManager,
             StartsEventSource, LocksToStop, StopsEventSource,
             EventSourcesStopped, ClearsEventSources, StopsProcessor, StopBegins,
             RegisterEventSource, Sends, HandlesEvent, CleansUpForCustomResource,
             lifecycleVars
    <2> QED
      BY <2>1 DEF Started, ProgressInv, Visits
  <1> QED
    BY <1>1, ManagerInvariant, PTL DEF ESMSpec, StartVisitsAll
===============================================================================
