----------------------- MODULE EventProcessorRefinement -----------------------
(***************************************************************************)
(* The event processor implements SerialExecutor.                          *)
(***************************************************************************)
EXTENDS EventProcessor

\* A finished execution that waits to be postponed no longer runs.
PhaseOf(r) ==
    IF Queued(r) # {} THEN "queued"
    ELSE IF RunningOn(r) \ {lockHolder} # {} THEN "running"
    ELSE IF r \in underProcessing THEN "blocked"
    ELSE "idle"

phaseBar == [r \in Resources |-> PhaseOf(r)]
pendingBar == {r \in Resources : EventPresent(eventingState, r)}

Abstract == INSTANCE SerialExecutor WITH phase <- phaseBar, pending <- pendingBar

\* Every behaviour of the processor, with stops, deaths of executions and an
\* arbitrary environment, is one of the serial executor (EventProcessor.java
\* 99-207): no step loses an event or starts a second execution.
ImplementsSerialExecutor == Abstract!AbsSpec
===============================================================================
