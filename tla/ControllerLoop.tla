---------------------------- MODULE ControllerLoop ----------------------------
(***************************************************************************)
(* The control loop of one controller: its users and the API server        *)
(* (CustomResourceServer), the informer and ControllerResourceEventSource, *)
(* which filters changes into events, the event processor, the timer event *)
(* source, an informer of secondary resources (InformerEventSource), and   *)
(* the dispatcher, which calls the reconciler and writes back to the       *)
(* server.  The operator may crash and be started again: what the server   *)
(* keeps stays, everything else is lost.                                   *)
(***************************************************************************)
EXTENDS ReconciliationDispatcher, InformerEventSource

CONSTANTS TimerFirst,   \* does start() start the timer source first?
          MaxRelists,   \* bound: how often the informer lists anew
          MaxRestarts   \* bound: how often the operator is started again

ASSUME LoopAssumption ==
    TimerFirst \in BOOLEAN /\ MaxRelists \in Nat /\ MaxRestarts \in Nat

\* The event sources of the loop are the framework's own, of whose
\* cleanupForResource none throws; and Operator.stop stops the controllers before
\* it shuts the executor down.
ASSUME OwnSourcesAssumption == ~CleanupMayThrow /\ ~RejectionsPossible

VARIABLES informerRunning, \* has ControllerResourceEventSource been started?
          delivering,  \* the event for which the informer's thread is waiting
                       \* to enter handleEvent, or None
          lastSeen,    \* history: the version of the secondary resource that
                       \* was in the store at the last call of the reconciler
          gaveUp,      \* history: the version of the last execution, if it has
                       \* failed and nothing will follow it, or None
          relists, restarts

\* The informer's thread that waits is told apart from one that does not.
ASSUME NoDeliveryAssumption ==
    None \notin [res : Resources, action : {"DELETED", "OTHER"}]

boundVars == <<relists, restarts>>
vars == <<epVars, serverVars, dispatcherVars, informerVars, informerRunning,
          delivering, lastSeen, gaveUp, boundVars>>

LoopTypeOK ==
    /\ EPTypeOK
    /\ ServerTypeOK
    /\ DispatcherTypeOK
    /\ InformerTypeOK
    /\ informerRunning \in BOOLEAN
    /\ lastSeen \in [Resources -> Nat]
    /\ gaveUp \in [Resources -> CustomResource \cup {None}]
    /\ relists \in 0..MaxRelists
    /\ restarts \in 0..MaxRestarts
    /\ delivering \in [res : Resources, action : {"DELETED", "OTHER"}]
                         \cup {None}

LoopInit ==
    /\ EPInit
    /\ ServerInit
    /\ DispatcherInit
    /\ InformerInit
    /\ informerRunning = FALSE
    /\ delivering = None
    /\ lastSeen = [r \in Resources |-> 0]
    /\ gaveUp = [r \in Resources |-> None]
    /\ relists = 0
    /\ restarts = 0
-------------------------------------------------------------------------------
historyOfLoop == <<lastSeen, gaveUp>>
otherThanDelivery == <<dispatcherVars, informerVars, informerRunning,
                       historyOfLoop, boundVars>>

\* ControllerResourceEventSource.start: the informer lists what there is.
\* EventSourceManager.start visits a HashSet of event sources.
ControllerSourceStarts ==
    /\ ~informerRunning
    /\ TimerFirst => timerState = "running"
    /\ informerRunning' = TRUE
    /\ watch' \in Relists(cache)
    /\ UNCHANGED <<epVars, store, resourceVersion, notifications,
                   dispatcherVars, informerVars, delivering, historyOfLoop,
                   boundVars>>

\* The informer applies the oldest change to its store, and queues the
\* notification of its handler.
InformerStores ==
    /\ informerRunning
    /\ watch # <<>>
    /\ LET c == Head(watch)
           old == cache[c.res]
       IN  /\ cache' = [cache EXCEPT ![c.res] = IF c.gone THEN None ELSE c.obj]
           /\ notifications' = Append(notifications,
                 [res |-> c.res, new |-> c.obj,
                  old |-> IF c.gone THEN None ELSE old,
                  action |-> CASE c.gone -> "DELETED"
                               [] ~c.gone /\ old = None -> "ADDED"
                               [] OTHER -> "UPDATED"])
    /\ watch' = Tail(watch)
    /\ UNCHANGED <<running, lockHolder, underProcessing, eventingState,
                   retryState, taskVars, whiteList, timerVars, store,
                   resourceVersion, delivering, otherThanDelivery>>

\* The informer has lost its watch, and lists what has changed since.
InformerRelists ==
    /\ informerRunning
    /\ relists < MaxRelists
    /\ Len(watch) > 1
    /\ watch' \in Relists(cache)
    /\ relists' = relists + 1
    /\ UNCHANGED <<epVars, store, resourceVersion, notifications,
                   dispatcherVars, informerVars, informerRunning, delivering,
                   historyOfLoop, restarts>>

\* ControllerResourceEventSource.eventReceived, up to its call of handleEvent:
\* the filters are evaluated without the processor's lock.
FilterNotification ==
    /\ delivering = None
    /\ notifications # <<>>
    /\ LET n == Head(notifications)
       IN  /\ delivering' =
                 IF AcceptChange(n.res, n.old, n.new)
                   THEN [res |-> n.res,
                         action |-> IF n.action = "DELETED"
                                      THEN "DELETED" ELSE "OTHER"]
                   ELSE None
           /\ whiteList' = IF OtherFiltersAccept(n.old, n.new)
                             THEN whiteList ELSE whiteList \ {n.res}
    /\ notifications' = Tail(notifications)
    /\ UNCHANGED <<running, lockHolder, underProcessing, eventingState,
                   retryState, taskVars, cache, timerVars, store,
                   resourceVersion, watch, otherThanDelivery>>

\* handleEvent of an accepted change.
DeliverEvent ==
    /\ delivering # None
    /\ EventReceived(delivering.res, delivering.action)
    /\ delivering' = None
    /\ UNCHANGED <<serverVars, otherThanDelivery>>

otherThanProcessor == <<serverVars, delivering, otherThanDelivery>>

\* The informer of secondary resources.
otherThanInformer == <<epVars, serverVars, dispatcherVars, informerRunning,
                       delivering, historyOfLoop, boundVars>>
SecondaryUser ==
    /\ SecondaryChanges \/ SecondaryInformerResyncs
    /\ UNCHANGED otherThanInformer
SecondaryStores == SecondaryInformerStores /\ UNCHANGED otherThanInformer
SecondaryPropagates == PropagateEvent /\ UNCHANGED otherThanInformer

\* Its handler calls handleEvent, for an id that the other one watches or for
\* one that makes it throw.  As long as the other one has not been started that
\* is every id, of which handleEvent has marked the event before it throws.  The
\* mark of the id that is never watched is left out.
SecondaryEvent ==
    /\ \/ \E r \in Resources :
             /\ IF informerRunning THEN Visits(r) ELSE VisitThrows(r)
             /\ EventReceived(r, "OTHER")
       \/ VisitThrows(Unwatched) /\ lockHolder = None /\ UNCHANGED epVars
    /\ UNCHANGED <<serverVars, dispatcherVars, informerRunning, delivering,
                   historyOfLoop, boundVars>>

TimerStarts ==
    /\ StartTimer
    /\ UNCHANGED <<otherThanTimer, otherThanProcessor>>
TimerRuns(r) == TimerFires(r) /\ UNCHANGED otherThanProcessor
TimerDelivers(r) == TimerEventReceived(r) /\ UNCHANGED otherThanProcessor

\* The execution that begins is what follows the one before.
Starts(t) ==
    /\ StartExecution(t)
    /\ gaveUp' = [gaveUp EXCEPT ![Head(queue).res] = None]
    /\ UNCHANGED <<serverVars, delivering, dispatcherVars, informerVars,
                   informerRunning, lastSeen, boundVars>>
Dispatches(t) ==
    /\ Dispatch(t)
    /\ lastSeen' = IF IsReconciled(t)
                     THEN [lastSeen EXCEPT ![active[t].res] = secondaryStore]
                     ELSE lastSeen
    /\ UNCHANGED <<delivering, informerVars, informerRunning, gaveUp, boundVars>>
ApiCallEnds(t) ==
    /\ ServerAnswers(t)
    /\ UNCHANGED <<delivering, informerVars, informerRunning, historyOfLoop,
                   boundVars>>

\* The execution has failed, no event waits for its end, and it was the last of
\* the attempts that are configured.
GivesUp(t) ==
    /\ result[t].exception
    /\ ~EventPresent(eventingState, active[t].res)
    /\ RetryConfigured =>
          MaxAttempts = 0 \/ (MaxAttempts > 0 /\ active[t].retry >= MaxAttempts)

Finishes(t) ==
    /\ EventProcessingFinished(t)
    /\ gaveUp' = IF GivesUp(t)
                   THEN [gaveUp EXCEPT ![active[t].res] = Snapshot(t)]
                   ELSE gaveUp
    /\ UNCHANGED <<serverVars, delivering, dispatcherVars, informerVars,
                   informerRunning, lastSeen, boundVars>>
Postpones(t) == PostponeReconciliation(t) /\ UNCHANGED otherThanProcessor

Users ==
    /\ UserAction
    /\ UNCHANGED <<epVars, delivering, otherThanDelivery>>

\* The process ends at any point and is started again: what it had in memory is
\* as in its first initial state, and the informers list what the server has.
\* A call of the API server on its way has been executed before, or is lost.
OperatorRestarts ==
    /\ restarts < MaxRestarts
    /\ restarts' = restarts + 1
    /\ running' = TRUE
    /\ lockHolder' = None
    /\ underProcessing' = {}
    /\ eventingState' = [r \in Resources |-> "NO_EVENT_PRESENT"]
    /\ retryState' = [r \in Resources |-> NoRetry]
    /\ queue' = <<>>
    /\ active' = [t \in Threads |-> None]
    /\ result' = [t \in Threads |-> None]
    /\ cache' = [r \in Resources |-> None]
    /\ whiteList' = {}
    /\ timerState' = "new" /\ onceTasks' = {} /\ timerThread' = None
    /\ watch' \in InitialLists
    /\ notifications' = <<>>
    /\ call' = [t \in Threads |-> None]
    /\ sinceStart' = {}
    /\ InformerRestarts
    /\ informerRunning' = FALSE
    /\ delivering' = None
    /\ gaveUp' = [r \in Resources |-> None]
    /\ UNCHANGED <<store, resourceVersion, reconciled, succeeded, cleaned,
                   lastSeen, relists>>

LoopNext ==
    \/ Users
    \/ OperatorRestarts
    \/ ControllerSourceStarts
    \/ InformerStores
    \/ InformerRelists
    \/ FilterNotification
    \/ DeliverEvent
    \/ SecondaryUser
    \/ SecondaryStores
    \/ SecondaryPropagates
    \/ SecondaryEvent
    \/ TimerStarts
    \/ \E r \in Resources : TimerRuns(r) \/ TimerDelivers(r)
    \/ \E t \in Threads :
          \/ Starts(t) \/ Dispatches(t) \/ ApiCallEnds(t)
          \/ Finishes(t) \/ Postpones(t)

\* Threads that can act do, and what they call returns: the threads of the
\* informers and of their handlers, of the timer and of the executor, the
\* reconciler, the server.  What one thread does excludes what else it does.
\* Nothing is assumed of users, of crashes, or of informers that list anew.
Fairness ==
    /\ WF_vars(ControllerSourceStarts)
    /\ WF_vars(InformerStores)
    /\ WF_vars(FilterNotification \/ DeliverEvent)
    /\ WF_vars(SecondaryStores)
    /\ WF_vars(SecondaryPropagates \/ SecondaryEvent)
    /\ WF_vars(TimerStarts)
    /\ \A r \in Resources : WF_vars(TimerRuns(r) \/ TimerDelivers(r))
    /\ \A t \in Threads :
          WF_vars(\/ Starts(t) \/ Dispatches(t) \/ ApiCallEnds(t)
                  \/ Finishes(t) \/ Postpones(t))

LoopSpec == LoopInit /\ [][LoopNext]_vars
FairLoopSpec == LoopSpec /\ Fairness
-------------------------------------------------------------------------------
\* The object with that uid has been given to the reconciler.
WasReconciled(uid) == \E n \in reconciled : n[1] = uid
WasCleaned(uid) == \E n \in cleaned : n[1] = uid

\* With a finalizer, a custom resource that was ever given to the reconciler
\* leaves the cluster only after a cleanup that asked for the removal of the
\* finalizer: neither a late addition of the finalizer nor a stale write of
\* the resource lets it escape (ReconciliationDispatcher.java:99-111, 244-253).
NoRemovalWithoutCleanup ==
    [][\A r \in Resources :
          UseFinalizer /\ store[r] # None /\ store'[r] = None
          /\ WasReconciled(store[r].uid)
              => <<store[r].uid, "removeFinalizer">> \in cleaned]_vars

\* Once cleanup has been called for a custom resource, reconcile is not
\* called for it any more.
NoReconcileAfterCleanup ==
    [][\A t \in Threads : Reconciles(t) => ~WasCleaned(Snapshot(t).uid)]_vars

\* The reconciler never sees a custom resource go back: the generation it is
\* given is at least every one it was given before, for the same object.
GenerationsAreReconciledInOrder ==
    [][\A t \in Threads : Reconciles(t) =>
          \A n \in reconciled :
              n[1] = Snapshot(t).uid => n[2] <= Snapshot(t).gen]_vars

\* The generation in a status is one for which the reconciler returned: no
\* failed, refused or concurrent execution makes a generation look observed.
ObservedGenerationWasReconciled ==
    \A r \in Resources :
        store[r] # None /\ store[r].obs > 0
            => <<store[r].uid, store[r].obs>> \in succeeded

\* A generation that the status reports as observed is not given to the
\* reconciler again because the operator was restarted: the first call of a
\* process for a generation is for one that is not observed yet
\* (features.md:138-140, ResourceEventFilters.java:32-39).  Other event sources
\* and reschedules ask for more calls, and are left out of the runs of this.
ObservedIsNotRepeated ==
    [][\A t \in Threads :
          Reconciles(t) /\ ObservedGenerationAware
          => \/ <<Snapshot(t).uid, Snapshot(t).gen>> \in sinceStart
             \/ Snapshot(t).gen > Snapshot(t).obs]_vars

\* A change of r that the processor has not been told of.
ChangeIsUnderWay(r) ==
    \/ delivering # None /\ delivering.res = r
    \/ \E i \in DOMAIN notifications : notifications[i].res = r
    \/ \E i \in DOMAIN watch : watch[i].res = r

\* A received event that is not yet processed always has something left that
\* will process it: the execution that is going on, a timer, a change on its
\* way.  (Otherwise the resource is gone, the last attempt has failed, or the
\* processor is in the middle of a handler.)  It is stated for controllers
\* that are not generation aware, of which every change becomes an event.
NoLostEvent ==
    \A r \in Resources :
        /\ ~GenerationAware
        /\ EventPresent(eventingState, r)
        /\ lockHolder = None
        /\ cache[r] # None
        /\ gaveUp[r] = None
        => \/ r \in underProcessing
           \/ r \in onceTasks \/ timerThread = r
           \/ ChangeIsUnderWay(r)

SameGeneration(a, b) == a.uid = b.uid /\ a.gen = b.gen

\* The generation that the server has of r is to be reconciled: this process
\* has not begun with it, and the status does not report it.
IsDue(r) ==
    /\ store[r] # None /\ ~store[r].del
    /\ <<store[r].uid, store[r].gen>> \notin sinceStart
    /\ ~(ObservedGenerationAware /\ store[r].obs = store[r].gen)

\* The last of the attempts to reconcile that very generation has failed.
GaveUpOn(r) == gaveUp[r] # None /\ SameGeneration(gaveUp[r], store[r])

\* A generation that is to be reconciled is never forgotten: a change of its
\* resource is under way, or a task that has not come to its end, or has failed,
\* was given that very generation, or an event waits for the end of the task of
\* its resource or for the timer; and this goes on until the last attempt has
\* failed.  A filter that rejects the wrong change, an addition of the finalizer
\* that fails, or is executed without an answer, a submission skipped during an
\* execution, a retry that is not scheduled or a merged list could each leave
\* it behind with nothing to come (ControllerResourceEventSource.java:128-143,
\* EventProcessor.java:124-150, 257-282, ReconciliationDispatcher.java:99-111).
NoGenerationIsForgotten ==
    \A r \in Resources : IsDue(r) =>
        \/ ChangeIsUnderWay(r)
        \/ \E i \in DOMAIN queue : queue[i].res = r
                                  /\ SameGeneration(queue[i].version, store[r])
        \/ \E t \in Threads :
              /\ active[t] # None /\ active[t].res = r
              /\ result[t] = None \/ result[t].exception
              /\ SameGeneration(active[t].version, store[r])
        \/ /\ EventPresent(eventingState, r)
           /\ r \in underProcessing \/ r \in onceTasks \/ timerThread = r
        \/ GaveUpOn(r)

\* Every generation of a spec reaches the reconciler of the running process,
\* or is observed according to the status, unless a newer change or the
\* deletion of the resource overtakes it, or the last attempt fails before the
\* reconciler is called: neither a restart nor a failed call forgets one.
EveryGenerationIsReconciled ==
    \A r \in Resources : IsDue(r) ~> ~IsDue(r) \/ GaveUpOn(r)

\* The status of r does not report its generation.
IsUnobserved(r) ==
    store[r] # None /\ ~store[r].del /\ store[r].obs # store[r].gen

\* The status of a resource comes to report its generation, whatever conflicts,
\* failures and crashes there are between the reconciliation and the write
\* of the status (features.md:126-131), unless the last attempt fails too.
\* Reconcilers that return updateResource, which features.md:127-129 exempts,
\* are left out of the runs of this.
ObservedGenerationCatchesUp ==
    \A r \in Resources : IsUnobserved(r) ~> ~IsUnobserved(r) \/ GaveUpOn(r)

\* The last attempt to clean up after the object, or to remove the finalizer, has
\* failed, or the cleanup has asked for the finalizer to stay.
CleanupGaveUp(r) ==
    \/ gaveUp[r] # None /\ gaveUp[r].del /\ gaveUp[r].uid = store[r].uid
    \/ <<store[r].uid, "noFinalizerRemoval">> \in cleaned

\* A custom resource marked for deletion is cleaned up and removed, unless
\* others have a finalizer on it or the cleanup gives up: conflicts, stale
\* caches, crashes, and a cleanup or a call that fails at first only delay it.
DeletionCompletes ==
    \A r \in Resources :
        store[r] # None /\ store[r].del /\ ~store[r].foreign
        ~> store[r] = None \/ CleanupGaveUp(r)

\* EventMarker.java:6-7, "Either an event is received, so we eventually
\* process": an event that waits for a resource that exists leads to an
\* execution, unless it is of a failure that was the last attempt.
ReceivedEventIsProcessed ==
    \A r \in Resources :
        EventPresent(eventingState, r)
        ~> \/ ~EventPresent(eventingState, r)
           \/ cache[r] = None \/ gaveUp[r] # None

\* features.md:18, "When an event is received reconciliation is executed": so
\* is one of another source that comes before the custom resource is in the
\* cache, which the sources are free to do when the operator starts.
EarlyEventIsProcessed ==
    \A r \in Resources :
        EventPresent(eventingState, r) /\ cache[r] = None /\ store[r] # None
        ~> \/ ~EventPresent(eventingState, r)
           \/ store[r] = None \/ gaveUp[r] # None

\* The reconciler of r has still to see the secondary resource as it is.
IsUnseen(r) ==
    /\ r \in secondary.to /\ Unwatched \notin secondary.to
    /\ store[r] # None /\ ~store[r].del
    /\ lastSeen[r] # secondary.version

\* A change of a secondary resource reaches the reconciler of each primary
\* resource it is mapped to: a call that begins with the change in the store
\* of the informer, though its event meets executions, retries and updates
\* that are under way (InformerEventSource.java:66-103).  Objects that map to
\* a resource of a namespace that is not watched are left out, as the
\* exception that such an id causes keeps others from their event; the changes
\* after them are not.
SecondaryChangeIsReconciled == \A r \in Resources : IsUnseen(r) ~> ~IsUnseen(r)

\* The execution that follows an update at once is not given the version from
\* before the update (EventProcessor.java:228-235).
InstantReconciliationIsAlwaysFresh ==
    [][\A t \in Threads :
          /\ result[t] # None /\ result[t].updated # None
          /\ result[t].updated.rv # active[t].version.rv
          /\ EventProcessingFinished(t)
          /\ Len(queue') = Len(queue) + 1
          => queue'[Len(queue')].version.rv # active[t].version.rv]_vars

\* The same, when the dispatcher has left the resource of the ExecutionScope
\* as it was (which it does but in updateResourceAndStatus).
InstantReconciliationIsFresh ==
    [][\A t \in Threads :
          /\ result[t] # None /\ result[t].updated # None
          /\ result[t].updated.rv # active[t].version.rv
          /\ result[t].before = active[t].version
          /\ EventProcessingFinished(t)
          /\ Len(queue') = Len(queue) + 1
          => queue'[Len(queue')].version.rv # active[t].version.rv]_vars

\* The attempts that are configured have all been begun.
RetriesExhausted(r) == MaxAttempts > -1 /\ retryState[r] >= MaxAttempts

\* A failed execution that has retries left is queued again or scheduled.
FailureIsRetried ==
    [][\A t \in Threads :
          /\ result[t] # None
          /\ Finishes(t)
          /\ IsRetried(t)
          /\ ~RetriesExhausted(active[t].res)
          /\ cache[active[t].res] # None
          => \/ active[t].res \in onceTasks'
             \/ active[t].res \in underProcessing']_vars

===============================================================================
