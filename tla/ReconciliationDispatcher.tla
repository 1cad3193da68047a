----------------------- MODULE ReconciliationDispatcher -----------------------
(***************************************************************************)
(* ReconciliationDispatcher.java: one call of handleExecution on the       *)
(* thread t, from the snapshot of the resource in its ExecutionScope to    *)
(* the PostExecutionControl.  The reconciler runs in one step, which ends  *)
(* in the call of the API server that its answer asks for, if any; the     *)
(* server executes the call in a step of its own, and in between anything  *)
(* else may happen.                                                        *)
(***************************************************************************)
EXTENDS EventProcessor, ResourceEventFilters, CustomResourceServer

CONSTANTS ReconcileOutcomes,     \* what Reconciler.reconcile may do
          CleanupOutcomes,       \* what Reconciler.cleanup may do
          Reschedules,           \* may an answer ask for a reschedule?
          HasErrorStatusHandler, \* is the reconciler an ErrorStatusHandler?
          CallFailures           \* how calls of the API server may fail

ASSUME DispatcherAssumption ==
    /\ ReconcileOutcomes \subseteq
          {"noUpdate", "updateStatus", "updateResource",
           "updateResourceAndStatus", "exception"}
    /\ CleanupOutcomes \subseteq
          {"removeFinalizer", "noFinalizerRemoval", "exception"}
    /\ Reschedules \subseteq BOOLEAN
    /\ HasErrorStatusHandler \in BOOLEAN
    /\ CallFailures \subseteq {"notExecuted", "notAnswered"}

VARIABLES call,         \* the call of the API server t waits for, or None
          reconciled,   \* history: <<uid, generation>> given to reconcile
          sinceStart,   \* history: those of them since the operator started
          succeeded,    \* history: those of them for which it returned
          cleaned       \* history: <<uid, outcome>> of the calls of cleanup

historyVars == <<reconciled, sinceStart, succeeded, cleaned>>
dispatcherVars == <<call, historyVars>>

ApiCall ==
    [op : {"addFinalizer", "removeFinalizer", "updateResource",
           "updateResourceAndStatus", "updateStatus", "observeGeneration",
           "errorStatus"},
     obj : CustomResource, reschedule : BOOLEAN, before : CustomResource]

DispatcherTypeOK ==
    /\ call \in [Threads -> ApiCall \cup {None}]
    /\ reconciled \subseteq (Nat \X Nat)
    /\ sinceStart \subseteq reconciled
    /\ succeeded \subseteq reconciled
    /\ cleaned \subseteq (Nat \X CleanupOutcomes)

DispatcherInit ==
    /\ call = [t \in Threads |-> None]
    /\ reconciled = {}
    /\ sinceStart = {}
    /\ succeeded = {}
    /\ cleaned = {}

Snapshot(t) == active[t].version
-------------------------------------------------------------------------------
\* The answers of handleExecution.
DispatchedWithReschedule(t, reschedule) ==
    [exception |-> FALSE, updated |-> None, reschedule |-> reschedule,
     before |-> Snapshot(t)]
DefaultDispatch(t) == DispatchedWithReschedule(t, FALSE)
ExceptionDuringExecution(t) == [DefaultDispatch(t) EXCEPT !.exception = TRUE]
CustomResourceUpdated(t, updated) ==
    [DispatchedWithReschedule(t, call[t].reschedule) EXCEPT
        !.updated = updated, !.before = call[t].before]

\* handleExecution returns p.
Returns(t, p) ==
    /\ HandleExecution(t, p)
    /\ call' = [call EXCEPT ![t] = None]

\* It goes on to call the API server.
Calls(t, op, obj, reschedule) ==
    /\ call' = [call EXCEPT ![t] = [op |-> op, obj |-> obj,
                                    reschedule |-> reschedule,
                                    before |-> Snapshot(t)]]
    /\ UNCHANGED epVars

IsDispatched(t) == active[t] # None /\ result[t] = None /\ call[t] = None

\* Mutant of the next definition: no cleanup whether the finalizer is there.
FinalizerIsNotLookedAt(obj) == UseFinalizer

\* shouldNotDispatchToDelete: our finalizer has already been removed.
ShouldNotDispatchToDelete(obj) == UseFinalizer /\ ~obj.fin

SkipsCleanup(t) ==
    /\ IsDispatched(t)
    /\ Snapshot(t).del /\ ShouldNotDispatchToDelete(Snapshot(t))
    /\ Returns(t, DefaultDispatch(t))
    /\ UNCHANGED historyVars

\* Mutant of the next definition: no finalizer is ever added.
FinalizerIsAssumed(obj) == FALSE

\* handleReconcile, when the finalizer is missing.
NeedsFinalizer(obj) == UseFinalizer /\ ~obj.fin

AddsFinalizer(t) ==
    /\ IsDispatched(t)
    /\ ~Snapshot(t).del /\ NeedsFinalizer(Snapshot(t))
    /\ Calls(t, "addFinalizer", [Snapshot(t) EXCEPT !.fin = TRUE], FALSE)
    /\ UNCHANGED historyVars
-------------------------------------------------------------------------------
\* isLastAttemptOfRetryAndErrorStatusHandlerPresent.
IsLastAttemptWithHandler(t) ==
    /\ HasErrorStatusHandler
    /\ MaxAttempts > -1 /\ active[t].retry >= MaxAttempts
    /\ active[t].retry # NoRetry

\* Mutant of the next definition: only a first generation is written.
OnlyTheFirstGeneration(obj) ==
    GenerationAware /\ ObservedGenerationAware /\ obj.obs = 0

\* shouldUpdateObservedGenerationAutomatically.
ShouldUpdateObservedGeneration(obj) ==
    GenerationAware /\ ObservedGenerationAware /\ obj.gen # obj.obs

\* Mutant of the next definition: the error status is written like the status
\* of a success.
ErrorStatusWithGeneration(obj) == [obj EXCEPT !.err = TRUE, !.obs = obj.gen]

\* handleLastAttemptErrorStatusHandler writes the status as the handler
\* returns it.
ErrorStatus(obj) == [obj EXCEPT !.err = TRUE]

\* An exception inside handleReconcile's try: on the last attempt the
\* ErrorStatusHandler updates the status of the original resource first.
ReconcileFails(t, original) ==
    IF IsLastAttemptWithHandler(t)
      THEN Calls(t, "errorStatus", ErrorStatus(original), FALSE)
      ELSE Returns(t, ExceptionDuringExecution(t))

\* A status that is written belongs to the generation of the resource the
\* reconciler was given (updateStatusObservedGenerationIfRequired).
StatusOf(obj) == [obj EXCEPT !.obs = obj.gen]

\* reconcileExecution, up to the first call of the API server.
ReconcileReturns(t, outcome, reschedule) ==
    LET obj == Snapshot(t)
    IN  \/ /\ outcome = "noUpdate"
           /\ IF ShouldUpdateObservedGeneration(obj)
                THEN Calls(t, "observeGeneration", StatusOf(obj), reschedule)
                ELSE Returns(t, DispatchedWithReschedule(t, reschedule))
        \/ /\ outcome = "updateStatus"
           /\ Calls(t, "updateStatus", StatusOf(obj), reschedule)
        \/ /\ outcome \in {"updateResource", "updateResourceAndStatus"}
           /\ Calls(t, outcome, [obj EXCEPT !.ann = TRUE], reschedule)

\* handleReconcile comes to the call of the reconciler.
IsReconciled(t) ==
    IsDispatched(t) /\ ~Snapshot(t).del /\ ~NeedsFinalizer(Snapshot(t))

Reconciles(t) ==
    /\ IsReconciled(t)
    /\ LET given == <<Snapshot(t).uid, Snapshot(t).gen>>
       IN  /\ reconciled' = reconciled \cup {given}
           /\ sinceStart' = sinceStart \cup {given}
           /\ \/ /\ "exception" \in ReconcileOutcomes
                 /\ ReconcileFails(t, Snapshot(t))
                 /\ UNCHANGED succeeded
              \/ /\ \E outcome \in ReconcileOutcomes, d \in Reschedules :
                       ReconcileReturns(t, outcome, d)
                 /\ succeeded' = succeeded \cup {given}
    /\ UNCHANGED cleaned

\* handleCleanup.
CleanupReturns(t, outcome) ==
    \/ /\ outcome = "exception"
       /\ Returns(t, ExceptionDuringExecution(t))
    \/ /\ outcome = "removeFinalizer"
       /\ IF UseFinalizer /\ Snapshot(t).fin
            THEN Calls(t, "removeFinalizer",
                       [Snapshot(t) EXCEPT !.fin = FALSE], FALSE)
            ELSE Returns(t, DefaultDispatch(t))
    \/ /\ outcome = "noFinalizerRemoval"
       /\ \E d \in Reschedules : Returns(t, DispatchedWithReschedule(t, d))

CleansUp(t) ==
    /\ IsDispatched(t)
    /\ Snapshot(t).del /\ ~ShouldNotDispatchToDelete(Snapshot(t))
    /\ \E outcome \in CleanupOutcomes :
          /\ CleanupReturns(t, outcome)
          /\ cleaned' = cleaned \cup {<<Snapshot(t).uid, outcome>>}
    /\ UNCHANGED <<reconciled, sinceStart, succeeded>>
-------------------------------------------------------------------------------
\* The original resource when a call of reconcileExecution fails: the reconciler
\* works on a copy, but the generation is observed in the original itself.
Original(t) ==
    IF call[t].op = "observeGeneration" THEN call[t].obj ELSE Snapshot(t)

\* The call throws: handleExecution ends with the exception, after the
\* ErrorStatusHandler if the call was reconcileExecution's.  An exception of the
\* ErrorStatusHandler's own call is only logged.
CallThrows(t) ==
    IF call[t].op \in {"updateResource", "updateResourceAndStatus",
                       "updateStatus", "observeGeneration"}
      THEN ReconcileFails(t, Original(t))
      ELSE Returns(t, ExceptionDuringExecution(t))

\* The API server refuses the call, or it does not come to be executed.
CallRefused(t) ==
    /\ \/ ~IsCurrent(active[t].res, call[t].obj)
       \/ "notExecuted" \in CallFailures
    /\ CallThrows(t)
    /\ UNCHANGED serverVars

\* cloneResourceForErrorStatusHandlerIfNeeded.
IsCloned(t) ==
    IsLastAttemptWithHandler(t) \/ ShouldUpdateObservedGeneration(Snapshot(t))

\* updateResourceAndStatus, after its first call.  The resourceVersion is set
\* on the resource the reconciler returned (lines 151-154).  Unless it was
\* cloned, that object is the ExecutionScope's own resource, whose version is
\* taken for the one before the execution when it has finished.
UpdatesStatusNext(t, updated) ==
    /\ call' = [call EXCEPT ![t] =
          [op |-> "updateStatus",
           obj |-> StatusOf([call[t].obj EXCEPT !.rv = updated.rv]),
           reschedule |-> call[t].reschedule,
           before |-> IF IsCloned(t) THEN Snapshot(t) ELSE updated]]
    /\ UNCHANGED epVars

\* The API server executes the call, and the answer comes or is lost.
CallExecuted(t) ==
    LET r == active[t].res
        op == call[t].op
        new == IF op \in {"updateStatus", "observeGeneration", "errorStatus"}
                 THEN PutStatus(r, call[t].obj) ELSE PutResource(r, call[t].obj)
    IN  /\ IsCurrent(r, call[t].obj)
        /\ Write(r, new)
        /\ \/ /\ "notAnswered" \in CallFailures
              /\ CallThrows(t)
           \/ /\ op = "addFinalizer"           \* onlyFinalizerAdded
              /\ Returns(t, DefaultDispatch(t))
           \/ /\ op = "errorStatus"
              /\ Returns(t, ExceptionDuringExecution(t))
           \/ /\ op = "updateResourceAndStatus"
              /\ UpdatesStatusNext(t, Written(r, new))
           \/ /\ op \in {"updateResource", "updateStatus",
                         "observeGeneration", "removeFinalizer"}
              /\ Returns(t, CustomResourceUpdated(t, Written(r, new)))

ServerAnswers(t) ==
    /\ call[t] # None
    /\ CallRefused(t) \/ CallExecuted(t)
    /\ UNCHANGED historyVars

\* Every step of handleExecution but the answers of the API server.
Dispatch(t) ==
    /\ \/ SkipsCleanup(t)
       \/ AddsFinalizer(t)
       \/ Reconciles(t)
       \/ CleansUp(t)
    /\ UNCHANGED serverVars
===============================================================================
