----------------------- MODULE OperatorLifecycleProofs -----------------------
(***************************************************************************)
(* Theorems about the lifecycle of an operator, for any set of controllers *)
(* and any number of starts and stops.                                     *)
(*                                                                         *)
(* The three invariants are about the moments between calls; what makes    *)
(* them inductive is how far the streams of start and stop have come, and  *)
(* that a new executor is not one that has been shut down.                 *)
(***************************************************************************)
EXTENDS OperatorLifecycle, TLAPS

\* c has an EventSourceManager that runs on the current executor.
Runs(c) ==
    /\ eventSourceManager[c] \in live
    /\ eventSourceManager[c].executor = instance

\* The executor of the singleton has not been shut down, nor has the one that
\* a start would create.
Executors ==
    /\ instance # None => instance \in 1..starts /\ instance \notin shutdown
    /\ shutdown \subseteq 1..starts
    /\ phase = "connecting" => starts \notin shutdown /\ starts > 0
    /\ phase \in {"initialised", "starting"} => instance # None

\* What runs is in the field of its controller, unless it went astray, and a
\* CRD has one controller.
Fields ==
    /\ \A m \in live \ astray : m = eventSourceManager[m.controller]
    /\ \A c, d \in controllers : CrdOf[c] = CrdOf[d] => c = d

\* What runs, and did not go astray, has still to be visited by the stream of
\* stop, and is nothing when that has ended; the stream of start leaves
\* controllers behind it that run; when the operator is started, all do.
Streams ==
    /\ phase = "stopping" => started
    /\ phase = "stopExecutor" => ~started
    /\ started => instance # None
    /\ ~started /\ phase # "starting" => live \subseteq astray
    /\ phase = "starting" => \A c \in controllers \ (todo \cup failed) : Runs(c)
    /\ phase = "stopping" => \A m \in live \ astray : m.controller \in todo
    /\ started /\ phase # "stopping" => \A c \in controllers \ failed : Runs(c)

LifecycleInv ==
    /\ LifecycleTypeOK
    /\ Executors
    /\ Fields
    /\ Streams
-------------------------------------------------------------------------------
LEMMA InitialLifecycle == LifecycleInit => LifecycleInv
  <1> SUFFICES ASSUME LifecycleInit
               PROVE  LifecycleInv
    OBVIOUS
  <1>1. LifecycleTypeOK
    <2>1. eventSourceManager \in [Controllers -> Manager \cup {None}]
      BY DEF LifecycleInit
    <2>2. starts \in 0..MaxStarts
      BY LifecycleAssumption DEF LifecycleInit
    <2> QED
      BY <2>1, <2>2 DEF LifecycleInit, LifecycleTypeOK, Phase
  <1>2. Executors
    BY DEF LifecycleInit, Executors
  <1>3. Fields /\ Streams
    BY DEF LifecycleInit, Fields, Streams
  <1> QED
    BY <1>1, <1>2, <1>3 DEF LifecycleInv

\* add refuses a second controller of a CRD, so that put replaces none.
LEMMA Added ==
    ASSUME NEW c \in Controllers, Register(c)
    PROVE  /\ controllers' = controllers \cup {c}
           /\ \A e \in controllers : CrdOf[e] # CrdOf[c]
  BY DEF Register, IsNewCrd

\* The new manager of a controller takes the place of the old one, which goes
\* astray if it runs.
LEMMA StartedManager ==
    ASSUME LifecycleTypeOK, Executors,
           NEW c \in Controllers, NEW n \in 1..MaxStarts, StartsManager(c, n)
    PROVE  \E m \in Manager :
              /\ m = NewManager(c, n)
              /\ m.controller = c
              /\ m.executor = instance
              /\ eventSourceManager' = [eventSourceManager EXCEPT ![c] = m]
              /\ eventSourceManager' \in [Controllers -> Manager \cup {None}]
              /\ live' = live \cup {m}
              /\ failed' = failed \ {c}
              /\ Overwritten(c) \subseteq live
              /\ eventSourceManager[c] \in live
                    => eventSourceManager[c] \in Overwritten(c) \cup {m}
  <1>1. NewManager(c, n) \in Manager
    BY LifecycleAssumption
       DEF LifecycleTypeOK, Executors, StartsManager, NewManager, Manager
  <1>2. eventSourceManager \in [Controllers -> Manager \cup {None}]
    BY DEF LifecycleTypeOK
  <1>3. eventSourceManager'[c] = NewManager(c, n)
    BY <1>2 DEF StartsManager
  <1> QED
    BY <1>1, <1>2, <1>3 DEF StartsManager, NewManager, Overwritten

LEMMA FailedManager ==
    ASSUME LifecycleTypeOK, Executors,
           NEW c \in Controllers, NEW n \in 1..MaxStarts, StartThrows(c, n)
    PROVE  /\ eventSourceManager' \in [Controllers -> Manager \cup {None}]
           /\ \A d \in Controllers \ {c} :
                 eventSourceManager'[d] = eventSourceManager[d]
           /\ live' = live /\ failed' = failed \cup {c}
           /\ Overwritten(c) \subseteq live
           /\ eventSourceManager[c] \in live
                 => eventSourceManager[c] \in Overwritten(c)
                                                 \cup {eventSourceManager'[c]}
  <1>1. instance # None => NewManager(c, n) \in Manager
    BY LifecycleAssumption
       DEF LifecycleTypeOK, Executors, NewManager, Manager
  <1>2. eventSourceManager \in [Controllers -> Manager \cup {None}]
    BY DEF LifecycleTypeOK
  <1> QED
    BY <1>1, <1>2 DEF StartThrows, Overwritten

\* The number of a start that is under way.
LEMMA StartIsNumbered ==
    ASSUME LifecycleTypeOK, Executors, instance # None
    PROVE  starts \in 1..MaxStarts
  BY LifecycleAssumption DEF LifecycleTypeOK, Executors

\* The steps that change neither the fields nor what runs.
LEMMA OtherSteps ==
    ASSUME LifecycleInv,
           \/ Start \/ ConnectionFails \/ InitExecutorService
           \/ StartControllers \/ ControllersStarted \/ StopControllers
           \/ ControllersStopped \/ StopExecutorService
    PROVE  LifecycleInv'
  <1> USE LifecycleAssumption
      DEF LifecycleInv, LifecycleTypeOK, Executors, Fields, Streams, Runs, Phase,
          historyVars
  <1>1. CASE Start
    BY <1>1 DEF Start
  <1>2. CASE ConnectionFails
    BY <1>2 DEF ConnectionFails
  <1>3. CASE InitExecutorService
    BY <1>3 DEF InitExecutorService
  <1>4. CASE StartControllers
    BY <1>4 DEF StartControllers
  <1>5. CASE ControllersStarted
    BY <1>5 DEF ControllersStarted
  <1>6. CASE StopControllers
    BY <1>6 DEF StopControllers
  <1>7. CASE ControllersStopped
    BY <1>7 DEF ControllersStopped
  <1>8. CASE StopExecutorService
    BY <1>8 DEF StopExecutorService, InstanceAfterStop
  <1> QED
    BY <1>1, <1>2, <1>3, <1>4, <1>5, <1>6, <1>7, <1>8

LEMMA RegisterStep ==
    ASSUME LifecycleInv, NEW c \in Controllers, Register(c)
    PROVE  LifecycleInv'
  <1> USE DEF LifecycleInv
  <1>1. /\ controllers' = controllers \cup {c}
        /\ c \notin controllers
        /\ \A e \in controllers : CrdOf[e] # CrdOf[c]
        /\ phase \notin {"starting", "stopping"}
    BY Added DEF Register, MayAdd, MonitorHeld
  <1>2. started => instance # None
    BY DEF Streams
  <1>3. CASE ~started /\ UNCHANGED <<eventSourceManager, live, failed>>
    BY <1>1, <1>3 DEF Register, LifecycleTypeOK, Executors, Fields, Streams,
                      Runs
  <1>4. CASE started /\ StartsManager(c, starts)
    <2>1. PICK m \in Manager :
              /\ m.controller = c
              /\ m.executor = instance
              /\ eventSourceManager' = [eventSourceManager EXCEPT ![c] = m]
              /\ eventSourceManager' \in [Controllers -> Manager \cup {None}]
              /\ live' = live \cup {m}
              /\ failed' = failed \ {c}
      BY <1>2, <1>4, StartIsNumbered, StartedManager
    <2> QED
      BY <1>1, <1>2, <1>4, <2>1 DEF Register, LifecycleTypeOK, Executors, Fields,
                                    Streams, Runs
  <1>5. CASE started /\ StartThrows(c, starts)
    BY <1>1, <1>2, <1>5, StartIsNumbered, FailedManager
       DEF Register, LifecycleTypeOK, Executors, Fields, Streams, Runs
  <1> QED
    BY <1>3, <1>4, <1>5 DEF Register

LEMMA StartsControllerStep ==
    ASSUME LifecycleInv, NEW c \in Controllers, StartsController(c)
    PROVE  LifecycleInv'
  <1> USE DEF LifecycleInv
  <1>1. instance # None /\ starts \in 1..MaxStarts
    BY StartIsNumbered DEF StartsController, Executors
  <1>2. CASE /\ StartsManager(c, starts) /\ todo' = todo \ {c}
             /\ astray' = astray \cup Overwritten(c)
             /\ UNCHANGED <<phase, left>>
    <2>1. PICK m \in Manager :
              /\ m.controller = c
              /\ m.executor = instance
              /\ eventSourceManager' = [eventSourceManager EXCEPT ![c] = m]
              /\ eventSourceManager' \in [Controllers -> Manager \cup {None}]
              /\ live' = live \cup {m}
              /\ failed' = failed \ {c}
              /\ Overwritten(c) \subseteq live
              /\ eventSourceManager[c] \in live
                    => eventSourceManager[c] \in Overwritten(c) \cup {m}
      BY <1>1, <1>2, StartedManager
    <2> QED
      BY <1>1, <1>2, <2>1 DEF StartsController, LifecycleTypeOK, Executors,
                              Fields, Streams, Runs
  <1>3. CASE /\ StartThrows(c, starts) /\ phase' = "idle" /\ todo' = {}
             /\ left' = left \cup ((todo \ {c}) \X {starts})
             /\ astray' = astray \cup (IF started THEN Overwritten(c) ELSE live)
    BY <1>1, <1>3, FailedManager
       DEF StartsController, LifecycleTypeOK, Executors, Fields, Streams, Runs,
           Phase
  <1> QED
    BY <1>2, <1>3 DEF StartsController

LEMMA StartsLateStep ==
    ASSUME LifecycleInv, NEW c \in Controllers, NEW n \in 1..MaxStarts,
           StartsLate(c, n)
    PROVE  LifecycleInv'
  <1> USE DEF LifecycleInv
  <1>1. c \in controllers
    BY DEF StartsLate, LifecycleTypeOK
  <1>2. CASE /\ StartsManager(c, n)
             /\ astray' = astray \cup Overwritten(c) \cup {NewManager(c, n)}
    <2>1. PICK m \in Manager :
              /\ m = NewManager(c, n)
              /\ m.controller = c
              /\ m.executor = instance
              /\ eventSourceManager' = [eventSourceManager EXCEPT ![c] = m]
              /\ eventSourceManager' \in [Controllers -> Manager \cup {None}]
              /\ live' = live \cup {m}
              /\ failed' = failed \ {c}
              /\ Overwritten(c) \subseteq live
              /\ eventSourceManager[c] \in live
                    => eventSourceManager[c] \in Overwritten(c) \cup {m}
      BY <1>2, StartedManager
    <2> QED
      BY <1>1, <1>2, <2>1 DEF StartsLate, LifecycleTypeOK, Executors, Fields,
                              Streams, Runs
  <1>3. CASE /\ StartThrows(c, n)
             /\ astray' = astray \cup Overwritten(c)
    BY <1>1, <1>3, FailedManager
       DEF StartsLate, LifecycleTypeOK, Executors, Fields, Streams, Runs
  <1> QED
    BY <1>2, <1>3 DEF StartsLate

LEMMA StopsControllerStep ==
    ASSUME LifecycleInv, NEW c \in Controllers, StopsController(c)
    PROVE  LifecycleInv'
  BY DEF StopsController, LifecycleInv, LifecycleTypeOK, Executors, Fields,
         Streams, Runs, historyVars

THEOREM LifecycleInvariant == LifecycleSpec => []LifecycleInv
  <1>1. LifecycleInv /\ [LifecycleNext]_lifecycleVars => LifecycleInv'
    <2> SUFFICES ASSUME LifecycleInv, [LifecycleNext]_lifecycleVars
                 PROVE  LifecycleInv'
      OBVIOUS
    <2>1. CASE UNCHANGED lifecycleVars
      BY <2>1 DEF lifecycleVars, historyVars, LifecycleInv, LifecycleTypeOK,
                  Executors, Fields, Streams, Runs
    <2>2. CASE LifecycleNext
      BY <2>2, OtherSteps, RegisterStep, StartsControllerStep, StartsLateStep,
         StopsControllerStep DEF LifecycleNext
    <2> QED
      BY <2>1, <2>2
  <1> QED
    BY <1>1, InitialLifecycle, PTL DEF LifecycleSpec

\* Types, and that what runs belongs to a registered controller.
THEOREM LifecycleTypeCorrect == LifecycleSpec => []LifecycleTypeOK
  <1>1. LifecycleInv => LifecycleTypeOK
    BY DEF LifecycleInv
  <1> QED
    BY <1>1, LifecycleInvariant, PTL

\* No CRD is ever served by two event processors (Operator.java:192-205).
THEOREM ManagersAreUnique == LifecycleSpec => []OneManagerPerCrd
  <1>1. LifecycleInv => OneManagerPerCrd
    BY DEF LifecycleInv, LifecycleTypeOK, Fields, OneManagerPerCrd, Manager
  <1> QED
    BY <1>1, LifecycleInvariant, PTL

\* stop leaves nothing running (Operator.java:179-190).
THEOREM StopIsComplete == LifecycleSpec => []NothingRunsAfterStop
  <1>1. LifecycleInv => NothingRunsAfterStop
    BY DEF LifecycleInv, Streams, NothingRunsAfterStop
  <1> QED
    BY <1>1, LifecycleInvariant, PTL

\* A started operator runs all of its controllers (Operator.java:174-177,
\* 202-204).
THEOREM StartIsComplete == LifecycleSpec => []RegisteredControllersRun
  <1>1. LifecycleInv => RegisteredControllersRun
    BY LifecycleAssumption
       DEF LifecycleInv, LifecycleTypeOK, Executors, Streams, Runs, Manager,
           RegisteredControllersRun
  <1> QED
    BY <1>1, LifecycleInvariant, PTL
===============================================================================
