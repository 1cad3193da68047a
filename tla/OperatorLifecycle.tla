-------------------------- MODULE OperatorLifecycle --------------------------
(***************************************************************************)
(* Operator.java, its ControllerManager, the start and stop of Controller  *)
(* and ExecutorServiceManager: how one operator starts and stops its       *)
(* controllers, which share a thread pool, and how controllers are         *)
(* registered meanwhile.                                                   *)
(*                                                                         *)
(* One thread calls start and stop, any number of times and in any order;  *)
(* others call register at any time.  The methods of the ControllerManager *)
(* are synchronized, those of Operator and ExecutorServiceManager are not. *)
(* An EventSourceManager, with its event processor, lives from the start   *)
(* of its controller to the stop that reaches it.                          *)
(***************************************************************************)
EXTENDS Naturals

CONSTANTS Controllers,   \* the Controller objects register may create
          CrdOf,         \* configuration.getResourceTypeName() of each
          MaxStarts,     \* bound: calls of Operator.start
          None

ASSUME LifecycleAssumption ==
    /\ CrdOf = [c \in Controllers |-> CrdOf[c]]
    /\ MaxStarts \in Nat
    /\ None \notin 1..MaxStarts
    /\ None \notin [controller : Controllers, executor : 1..MaxStarts,
                    start : 1..MaxStarts]

VARIABLES controllers,  \* the values of ControllerManager.controllers
          started,      \* ControllerManager.started
          phase,        \* where the thread of start and stop is
          todo,         \* controllers its parallel stream has still to visit
          left,         \* tasks of streams that have thrown, not yet run
          eventSourceManager, \* the field of each Controller
          live,         \* the EventSourceManagers that run
          instance,     \* the executor of ExecutorServiceManager.instance
          shutdown,     \* the executors that have been shut down
          starts,       \* the calls of start so far
          failed,       \* history: the controllers whose last start threw
          astray        \* history: the managers that stop may not reach

historyVars == <<failed, astray>>
lifecycleVars == <<controllers, started, phase, todo, left, eventSourceManager,
                   live, instance, shutdown, starts, historyVars>>

\* An EventSourceManager: whose it is, the executor its processor took, and
\* the call of Operator.start that it belongs to.
Manager == [controller : Controllers, executor : 1..MaxStarts,
            start : 1..MaxStarts]

Phase == {"idle", "connecting", "initialised", "starting", "stopping",
          "stopExecutor"}

LifecycleInit ==
    /\ controllers = {}
    /\ started = FALSE
    /\ phase = "idle"
    /\ todo = {}
    /\ left = {}
    /\ eventSourceManager = [c \in Controllers |-> None]
    /\ live = {}
    /\ instance = None
    /\ shutdown = {}
    /\ starts = 0
    /\ failed = {}
    /\ astray = {}

\* The monitor of the ControllerManager while its start or stop is in a
\* parallel stream.
MonitorHeld == phase \in {"starting", "stopping"}
-------------------------------------------------------------------------------
\* Controller.start: with an executor to take, it creates and starts an
\* EventSourceManager in place of the one it has, if any.
NewManager(c, n) == [controller |-> c, executor |-> instance, start |-> n]

StartsManager(c, n) ==
    /\ instance # None
    /\ eventSourceManager' = [eventSourceManager EXCEPT ![c] = NewManager(c, n)]
    /\ live' = live \cup {NewManager(c, n)}
    /\ failed' = failed \ {c}

\* It throws: without an executor or for a CRD the cluster does not have, or,
\* with the new manager in the field but not started, from
\* prepareEventSources or for a namespace that is not known.
StartThrows(c, n) ==
    /\ failed' = failed \cup {c}
    /\ UNCHANGED live
    /\ \/ UNCHANGED eventSourceManager
       \/ /\ instance # None
          /\ eventSourceManager' =
                [eventSourceManager EXCEPT ![c] = NewManager(c, n)]

\* The manager that runs and that the field of c does not hold any more.
Overwritten(c) ==
    IF eventSourceManager'[c] = eventSourceManager[c]
      THEN {} ELSE {eventSourceManager[c]} \cap live

\* shouldStart lets a started operator go on.  Without controllers it throws.
Start ==
    /\ phase = "idle"
    /\ starts < MaxStarts
    /\ started \/ controllers # {}
    /\ starts' = starts + 1
    /\ phase' = "connecting"
    /\ UNCHANGED <<controllers, started, todo, left, eventSourceManager, live,
                   instance, shutdown, historyVars>>

\* getKubernetesVersion throws.
ConnectionFails ==
    /\ phase = "connecting"
    /\ phase' = "idle"
    /\ UNCHANGED <<controllers, started, todo, left, eventSourceManager, live,
                   instance, shutdown, starts, historyVars>>

\* ExecutorServiceManager.init; a new pool is named by the call of start.
InitExecutorService ==
    /\ phase = "connecting"
    /\ phase' = "initialised"
    /\ instance' = IF instance = None THEN starts ELSE instance
    /\ UNCHANGED <<controllers, started, todo, left, eventSourceManager, live,
                   shutdown, starts, historyVars>>

\* ControllerManager.start.
StartControllers ==
    /\ phase = "initialised"
    /\ phase' = "starting"
    /\ todo' = controllers
    /\ UNCHANGED <<controllers, started, left, eventSourceManager, live,
                   instance, shutdown, starts, historyVars>>

\* An exception leaves the stream, whose other tasks go on; when the operator
\* has not been started before, stop will do nothing about what runs.
StartsController(c) ==
    /\ phase = "starting"
    /\ c \in todo
    /\ \/ /\ StartsManager(c, starts)
          /\ todo' = todo \ {c}
          /\ astray' = astray \cup Overwritten(c)
          /\ UNCHANGED <<phase, left>>
       \/ /\ StartThrows(c, starts)
          /\ phase' = "idle"
          /\ todo' = {}
          /\ left' = left \cup ((todo \ {c}) \X {starts})
          /\ astray' = astray \cup (IF started THEN Overwritten(c) ELSE live)
    /\ UNCHANGED <<controllers, started, instance, shutdown, starts>>

\* A task of a stream that has thrown: nobody waits for it.
StartsLate(c, n) ==
    /\ <<c, n>> \in left
    /\ left' = left \ {<<c, n>>}
    /\ \/ /\ StartsManager(c, n)
          /\ astray' = astray \cup Overwritten(c) \cup {NewManager(c, n)}
       \/ /\ StartThrows(c, n)
          /\ astray' = astray \cup Overwritten(c)
    /\ UNCHANGED <<controllers, started, phase, todo, instance, shutdown, starts>>

ControllersStarted ==
    /\ phase = "starting"
    /\ todo = {}
    /\ phase' = "idle"
    /\ started' = TRUE
    /\ UNCHANGED <<controllers, todo, left, eventSourceManager, live, instance,
                   shutdown, starts, historyVars>>
-------------------------------------------------------------------------------
\* Mutants of the next definitions: add is not synchronized; a controller of
\* the same CRD is replaced.
AddAtAnyTime == TRUE
ReplacesExisting(c) == TRUE

MayAdd == ~MonitorHeld

IsNewCrd(c) == \A existing \in controllers : CrdOf[existing] # CrdOf[c]

\* register and ControllerManager.add; a CRD that has a controller is refused.
\* When the start of the controller throws, it has already been put in the
\* map.
Register(c) ==
    /\ MayAdd
    /\ c \notin controllers
    /\ IsNewCrd(c)
    /\ controllers' = {e \in controllers : CrdOf[e] # CrdOf[c]} \cup {c}
    /\ \/ ~started /\ UNCHANGED <<eventSourceManager, live, failed>>
       \/ started /\ StartsManager(c, starts)
       \/ started /\ StartThrows(c, starts)
    /\ UNCHANGED <<started, phase, todo, left, instance, shutdown, starts,
                   astray>>
-------------------------------------------------------------------------------
\* ControllerManager.stop does nothing unless start has come to its end.
StopControllers ==
    /\ phase = "idle"
    /\ phase' = IF started THEN "stopping" ELSE "stopExecutor"
    /\ todo' = IF started THEN controllers ELSE {}
    /\ UNCHANGED <<controllers, started, left, eventSourceManager, live,
                   instance, shutdown, starts, historyVars>>

\* Controller.stop.
StopsController(c) ==
    /\ phase = "stopping"
    /\ c \in todo
    /\ todo' = todo \ {c}
    /\ live' = live \ {eventSourceManager[c]}
    /\ UNCHANGED <<controllers, started, phase, left, eventSourceManager,
                   instance, shutdown, starts, historyVars>>

ControllersStopped ==
    /\ phase = "stopping"
    /\ todo = {}
    /\ phase' = "stopExecutor"
    /\ started' = FALSE
    /\ UNCHANGED <<controllers, todo, left, eventSourceManager, live, instance,
                   shutdown, starts, historyVars>>

\* Mutant of the next definition: the instance is not removed.
InstanceIsKept == instance

InstanceAfterStop == None

\* ExecutorServiceManager.stop.
StopExecutorService ==
    /\ phase = "stopExecutor"
    /\ phase' = "idle"
    /\ shutdown' = shutdown \cup ({instance} \ {None})
    /\ instance' = InstanceAfterStop
    /\ UNCHANGED <<controllers, started, todo, left, eventSourceManager, live,
                   starts, historyVars>>
-------------------------------------------------------------------------------
LifecycleNext ==
    \/ Start
    \/ ConnectionFails
    \/ InitExecutorService
    \/ StartControllers
    \/ ControllersStarted
    \/ StopControllers
    \/ ControllersStopped
    \/ StopExecutorService
    \/ \E c \in Controllers :
          \/ Register(c)
          \/ StartsController(c)
          \/ \E n \in 1..MaxStarts : StartsLate(c, n)
          \/ StopsController(c)

LifecycleSpec == LifecycleInit /\ [][LifecycleNext]_lifecycleVars
-------------------------------------------------------------------------------
\* What runs belongs to a controller that is registered, and with it can be
\* stopped.
LifecycleTypeOK ==
    /\ controllers \subseteq Controllers
    /\ started \in BOOLEAN
    /\ phase \in Phase
    /\ todo \subseteq controllers
    /\ left \subseteq controllers \X (1..MaxStarts)
    /\ eventSourceManager \in [Controllers -> Manager \cup {None}]
    /\ live \subseteq {m \in Manager : m.controller \in controllers}
    /\ instance \in 1..MaxStarts \cup {None}
    /\ shutdown \subseteq 1..MaxStarts
    /\ starts \in 0..MaxStarts
    /\ failed \subseteq controllers
    /\ astray \subseteq Manager

\* A CRD has one EventSourceManager that runs at most, so that one event
\* processor serialises the executions of a resource (EventProcessor.java:
\* 34-37, Operator.java:192-205), apart from those that went astray: that a
\* repeated start has overwritten, or that belong to a start that threw.
OneManagerPerCrd ==
    \A m, n \in live \ astray :
        CrdOf[m.controller] = CrdOf[n.controller] => m = n

\* Once an operator has been stopped, nothing runs but what went astray,
\* whatever was registered during start and stop (Operator.java:92-101,
\* 179-190).
NothingRunsAfterStop ==
    ~started /\ phase \in {"idle", "stopExecutor"} => live \subseteq astray

\* Every registered controller of a started operator runs, on an executor that
\* has not been shut down, after a restart too and while start is repeated
\* (ExecutorServiceManager.java:41-43, Operator.java:202-204), but those whose
\* own start threw: an exception of one controller stops no other.
RegisteredControllersRun ==
    started /\ phase \in {"idle", "connecting", "initialised", "starting"} =>
        \A c \in controllers \ failed :
            /\ eventSourceManager[c] \in live
            /\ eventSourceManager[c].executor \notin shutdown
===============================================================================
