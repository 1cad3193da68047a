-------------------------- MODULE EventSourceManager --------------------------
(***************************************************************************)
(* EventSourceManager.java: registers, starts and stops the event sources  *)
(* of one controller, under a lock of its own, while they already send     *)
(* events to the event processor.  The handler of a delete event holds the *)
(* lock of the processor when it asks the manager, by                      *)
(* cleanupForCustomResource, to clean up after the resource: the two locks *)
(* are what this module is about.  Of the processor only its lock and its  *)
(* running flag are kept.                                                  *)
(*                                                                         *)
(* One thread goes through the life of the controller (Controller.start    *)
(* and stop are called under the monitor of the ControllerManager); each   *)
(* event source has a thread that sends its events.                        *)
(***************************************************************************)
EXTENDS Naturals

CONSTANTS EventSources,      \* all event sources there may be
          ControllerSource,  \* the ControllerResourceEventSource, the only
                             \* one that sends delete events
          TimerSource,       \* retryAndRescheduleTimerEventSource
          MaxEvents,         \* bound: events sent by each event source
          None

ASSUME EventSourcesAssumption ==
    /\ {ControllerSource, TimerSource} \subseteq EventSources
    /\ MaxEvents \in Nat
    /\ None \notin EventSources /\ None # "main"

VARIABLES eventSources,     \* the registered ones
          state,            \* of each event source
          toVisit,          \* those the loop of start or stop has still to do
          at,               \* where the thread of start and stop is
          sending,          \* what each event source's thread is doing
          sent,             \* bounded by MaxEvents
          managerLock,      \* the owner of EventSourceManager.lock, or None
          processorLock,    \* the owner of EventProcessor.lock, or None
          processorRunning, \* EventProcessor.running
          dropped           \* history: event sources one of whose events was
                            \* ignored by the processor

esmVars == <<eventSources, state, toVisit, at, sending, sent, managerLock,
             processorLock, processorRunning, dropped>>

At == {"created", "lockToStart", "starting", "started",
       "lockToStop", "stopping", "stopProcessor", "stopped"}

ESMTypeOK ==
    /\ eventSources \subseteq EventSources
    /\ state \in [EventSources ->
                     {"new", "running", "failed", "stopped", "stopThrew"}]
    /\ toVisit \subseteq EventSources
    /\ at \in At
    /\ sending \in [EventSources -> {"nothing", "event", "delete", "cleanup"}]
    /\ sent \in [EventSources -> 0..MaxEvents]
    /\ managerLock \in {"main", None}
    /\ processorLock \in EventSources \cup {None}
    /\ processorRunning \in BOOLEAN
    /\ dropped \subseteq EventSources

\* The constructors: the processor is running, and the manager has its own
\* two event sources.
ESMInit ==
    /\ eventSources = {ControllerSource, TimerSource}
    /\ state = [s \in EventSources |-> "new"]
    /\ toVisit = {}
    /\ at = "created"
    /\ sending = [s \in EventSources |-> "nothing"]
    /\ sent = [s \in EventSources |-> 0]
    /\ managerLock = None
    /\ processorLock = None
    /\ processorRunning = TRUE
    /\ dropped = {}

\* The threads of event sources, which take the locks in handlers.
senderVars == <<sending, sent, dropped, processorLock>>
-------------------------------------------------------------------------------
\* Mutant of the next definition: registration does not take the lock.
MayRegisterAnyTime == TRUE

MayRegister == managerLock = None

\* registerEventSource: by prepareEventSources before start, or later by a
\* reconciler that has kept the registry.
RegisterEventSource(s) ==
    /\ MayRegister
    /\ eventSources' = eventSources \cup {s}
    /\ UNCHANGED <<state, toVisit, at, managerLock, processorRunning, senderVars>>

\* start: eventProcessor.start, under the processor's lock, comes first.
StartsProcessor ==
    /\ at = "created"
    /\ processorLock = None
    /\ processorRunning' = TRUE
    /\ at' = "lockToStart"
    /\ UNCHANGED <<eventSources, state, toVisit, managerLock, senderVars>>

LocksManager(from, to) ==
    /\ at = from
    /\ managerLock = None
    /\ managerLock' = "main"
    /\ toVisit' = eventSources
    /\ at' = to
    /\ UNCHANGED <<eventSources, state, processorRunning, senderVars>>

LocksToStart == LocksManager("lockToStart", "starting")

\* eventSource.start; an exception is logged, and the loop goes on.
StartsEventSource(s) ==
    /\ at = "starting"
    /\ s \in toVisit
    /\ toVisit' = toVisit \ {s}
    /\ \E outcome \in {"running", "failed"} :
          state' = [state EXCEPT ![s] = outcome]
    /\ UNCHANGED <<eventSources, at, managerLock, processorRunning, senderVars>>

Started ==
    /\ at = "starting"
    /\ toVisit = {}
    /\ managerLock' = None
    /\ at' = "started"
    /\ UNCHANGED <<eventSources, state, toVisit, processorRunning, senderVars>>
-------------------------------------------------------------------------------
StopBegins ==
    /\ at = "started"
    /\ at' = "lockToStop"
    /\ UNCHANGED <<eventSources, state, toVisit, managerLock,
                   processorRunning, senderVars>>

LocksToStop == LocksManager("lockToStop", "stopping")

\* eventSource.stop, of one that failed to start, too; an exception is logged,
\* and the source may go on.
StopsEventSource(s) ==
    /\ at = "stopping"
    /\ s \in toVisit
    /\ toVisit' = toVisit \ {s}
    /\ \E outcome \in {"stopped", "stopThrew"} :
          state' = [state EXCEPT ![s] = outcome]
    /\ UNCHANGED <<eventSources, at, managerLock, processorRunning, senderVars>>

\* The end of the loop of stop: eventSources.clear, and the lock is left.
ClearsEventSources(lock) ==
    /\ at = "stopping"
    /\ toVisit = {}
    /\ eventSources' = {}
    /\ managerLock' = lock
    /\ at' = "stopProcessor"
    /\ UNCHANGED <<state, toVisit, processorRunning, senderVars>>

\* Mutants of the next definition: the processor is stopped before the lock is
\* given back; what is still to be visited is dropped.
StopsProcessorUnderLock == ClearsEventSources("main")
ClearsAtOnce ==
    /\ at = "stopping"
    /\ eventSources' = {}
    /\ toVisit' = {}
    /\ managerLock' = None
    /\ at' = "stopProcessor"
    /\ UNCHANGED <<state, processorRunning, senderVars>>

EventSourcesStopped == ClearsEventSources(None)

\* eventProcessor.stop.
StopsProcessor ==
    /\ at = "stopProcessor"
    /\ processorLock = None
    /\ processorRunning' = FALSE
    /\ at' = "stopped"
    /\ UNCHANGED <<eventSources, state, toVisit, managerLock, senderVars>>
-------------------------------------------------------------------------------
lifecycleVars == <<eventSources, state, toVisit, at, managerLock,
                   processorRunning>>

\* A source may have been started in part when its start fails: an informer of
\* the first of two namespaces runs.  So may one do whose stop fails.
Sends(s, kind) ==
    /\ state[s] \in {"running", "failed", "stopThrew"}
    /\ sending[s] = "nothing"
    /\ sent[s] < MaxEvents
    /\ sending' = [sending EXCEPT ![s] = kind]
    /\ sent' = [sent EXCEPT ![s] = @ + 1]
    /\ UNCHANGED <<lifecycleVars, dropped, processorLock>>

\* EventProcessor.handleEvent: an event is ignored once the processor is
\* stopped; a delete event keeps its lock for the cleanup.
HandlesEvent(s) ==
    /\ sending[s] \in {"event", "delete"}
    /\ processorLock = None
    /\ IF processorRunning /\ sending[s] = "delete"
         THEN /\ sending' = [sending EXCEPT ![s] = "cleanup"]
              /\ processorLock' = s
         ELSE /\ sending' = [sending EXCEPT ![s] = "nothing"]
              /\ UNCHANGED processorLock
    /\ dropped' = IF processorRunning THEN dropped ELSE dropped \cup {s}
    /\ UNCHANGED <<lifecycleVars, sent>>

\* cleanupForCustomResource visits every event source under the manager's
\* lock; with its return the handler gives the processor's lock back.
CleansUpForCustomResource(s) ==
    /\ sending[s] = "cleanup"
    /\ managerLock = None
    /\ sending' = [sending EXCEPT ![s] = "nothing"]
    /\ processorLock' = None
    /\ UNCHANGED <<lifecycleVars, sent, dropped>>
-------------------------------------------------------------------------------
StartStop ==
    \/ StartsProcessor
    \/ LocksToStart
    \/ \E s \in EventSources : StartsEventSource(s)
    \/ Started
    \/ LocksToStop
    \/ \E s \in EventSources : StopsEventSource(s)
    \/ EventSourcesStopped
    \/ StopsProcessor

ESMNext ==
    \/ StartStop
    \/ StopBegins
    \/ \E s \in EventSources :
          \/ RegisterEventSource(s)
          \/ Sends(s, "event")
          \/ s = ControllerSource /\ Sends(s, "delete")
          \/ HandlesEvent(s)
          \/ CleansUpForCustomResource(s)

\* A thread that can go on does: the locks are not fair, but what the others
\* send is bounded.  start, stop and the callbacks of event sources return.
ESMFairness ==
    /\ WF_esmVars(StartStop)
    /\ \A s \in EventSources :
          /\ WF_esmVars(HandlesEvent(s))
          /\ WF_esmVars(CleansUpForCustomResource(s))

ESMSpec == ESMInit /\ [][ESMNext]_esmVars
FairESMSpec == ESMSpec /\ ESMFairness
-------------------------------------------------------------------------------
\* Each lock has the owner that its try blocks say, and start and stop hold
\* the manager's lock in their loops only.
LockOwners ==
    /\ managerLock = "main" <=> at \in {"starting", "stopping"}
    /\ \A s \in EventSources : processorLock = s <=> sending[s] = "cleanup"

ESMInv == ESMTypeOK /\ LockOwners

\* start has been called, and stop has not.
Live(s) == state[s] \in {"running", "failed"}

\* Once stop has left its loop, it has called stop of every event source that
\* start has called, those whose start failed half way included, whatever the
\* stops before have thrown (EventSourceManager.java:71-88).
StopStopsAll ==
    at \in {"stopProcessor", "stopped"} => \A s \in EventSources : ~Live(s)

\* The processor ignores events only of event sources whose stop has been
\* called: it runs before the first of them is started, and until the last has
\* been told to stop (EventSourceManager.java:55, 87; EventProcessor.java:103-106).
OnlyStoppedSourcesAreIgnored ==
    \A s \in dropped : state[s] \in {"stopped", "stopThrew"}

\* An event source that is registered when start ends has been started by it
\* (or refused to): none slips in while the loop runs.
StartVisitsAll ==
    [][at = "starting" /\ at' = "started"
       => \A s \in eventSources : state[s] # "new"]_esmVars

\* The two locks do not deadlock: start, stop and the handlers, of delete
\* events too, all return.
LocksAreGivenBack ==
    /\ at \notin {"created", "started", "stopped"} ~> at \in {"started", "stopped"}
    /\ \A s \in EventSources : sending[s] # "nothing" ~> sending[s] = "nothing"
===============================================================================
