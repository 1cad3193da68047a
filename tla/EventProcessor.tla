---------------------------- MODULE EventProcessor ----------------------------
(***************************************************************************)
(* EventProcessor.java: turns the events of a controller into executions   *)
(* of its reconciler, at most one at a time for each custom resource.      *)
(*                                                                         *)
(* Every public method runs under one ReentrantLock, so each is one        *)
(* action, but for the path of eventProcessingFinished that reads the      *)
(* informer's cache and then whitelists the next event: informer threads   *)
(* do not take the lock, and can act between the two.  There lockHolder is *)
(* the thread that is between them, and the other actions that need the    *)
(* lock wait for it.                                                       *)
(*                                                                         *)
(* The informer's cache and the consumption of whitelisted events are the  *)
(* environment of this module: the cache may change in any way at any      *)
(* time.  A resource in the cache is an element of Versions, which the     *)
(* code only ever compares for equality.                                   *)
(***************************************************************************)
EXTENDS EventMarker, TimerEventSource, OnceWhitelistEventFilter,
        Integers, Sequences

CONSTANTS Versions,         \* resource versions
          Threads,          \* the threads of the executor service
          RetryConfigured,  \* retry # null
          MaxAttempts,      \* GenericRetry.maxAttempts; -1 is "no limit"
          ErrorsPossible,   \* may a reconciler throw an Error?
          CleanupMayThrow,  \* may an event source's cleanupForResource throw?
          RejectionsPossible \* may others shut the executor service down?

ASSUME NoneAssumption ==
    /\ None \notin Versions
    /\ None \notin Threads
ASSUME RetryAssumption ==
    /\ RetryConfigured \in BOOLEAN
    /\ MaxAttempts \in Int /\ MaxAttempts >= -1
ASSUME ErrorsAssumption ==
    {ErrorsPossible, CleanupMayThrow, RejectionsPossible} \subseteq BOOLEAN

VARIABLES running,          \* cleared for good by stop
          lockHolder,       \* the thread inside the postponement, or None
          underProcessing,
          eventingState,    \* the EventMarker
          retryState,       \* lastAttemptIndex of the RetryExecution, or -1
          queue,            \* the executor's queue of ControllerExecutions
          active,           \* what each executor thread runs, or None
          result,           \* what handleExecution has returned, or None
          cache             \* the informer's store of custom resources

taskVars == <<queue, active, result>>
epVars == <<running, lockHolder, underProcessing, eventingState, retryState,
            taskVars, cache, whiteList, timerVars>>

NoRetry == -1      \* retryState.get(...) = null: no RetryInfo

ExecutionScope ==
    [res : Resources, version : Versions, retry : Int]

\* An idle thread is told apart from a busy one.
ASSUME NoTaskAssumption == None \notin ExecutionScope

\* What an execution leaves for eventProcessingFinished: the facts it reads
\* of the PostExecutionControl, and before, the version of the resource in
\* the ExecutionScope, an object that the execution may have modified.
PostExecutionControl ==
    {p \in [exception : BOOLEAN, updated : Versions \cup {None},
            reschedule : BOOLEAN, before : Versions] :
        p.exception => p.updated = None /\ ~p.reschedule}

EPTypeOK ==
    /\ running \in BOOLEAN
    /\ lockHolder \in Threads \cup {None}
    /\ underProcessing \subseteq Resources
    /\ eventingState \in [Resources -> EventingState]
    /\ retryState \in [Resources -> Int]
    /\ queue \in Seq(ExecutionScope)
    /\ active \in [Threads -> ExecutionScope \cup {None}]
    /\ result \in [Threads -> PostExecutionControl \cup {None}]
    /\ cache \in [Resources -> Versions \cup {None}]
    /\ WhitelistTypeOK
    /\ TimerTypeOK

EPInit ==
    /\ running = TRUE
    /\ lockHolder = None
    /\ underProcessing = {}
    /\ eventingState = [r \in Resources |-> "NO_EVENT_PRESENT"]
    /\ retryState = [r \in Resources |-> NoRetry]
    /\ queue = <<>>
    /\ active = [t \in Threads |-> None]
    /\ result = [t \in Threads |-> None]
    /\ cache = [r \in Resources |-> None]
    /\ WhitelistInit
    /\ TimerInit
-------------------------------------------------------------------------------
\* Mutant of the next definition: isControllerUnderExecution is not asked.
MaySubmitEvenIfUnderProcessing(r, up) == cache[r] # None

\* The condition of submitReconciliationExecution.
MaySubmit(r, up) == r \notin up /\ cache[r] # None

\* Mutant of the next definition: the mark is removed though nothing is run.
UnMarkAndSkip(r, up, em) ==
    /\ underProcessing' = up
    /\ eventingState' = UnMarkEventReceived(em, r)
    /\ queue' = queue

SkipExecution(r, up, em) ==
    /\ underProcessing' = up
    /\ eventingState' = em
    /\ queue' = queue

\* submitReconciliationExecution, given underProcessing, the marker and the
\* retry state as they are when the handler calls it.  An executor that was
\* shut down rejects the execution when all else has been done (line 136).
SubmitReconciliationExecution(r, up, em, rs) ==
    IF MaySubmit(r, up)
      THEN /\ underProcessing' = up \cup {r}
           /\ eventingState' = UnMarkEventReceived(em, r)
           /\ \/ queue' = Append(queue, [res |-> r, version |-> cache[r],
                                         retry |-> rs[r]])
              \/ RejectionsPossible /\ UNCHANGED queue
      ELSE SkipExecution(r, up, em)

\* cleanupForDeletedEvent: among all event sources that of the timer, whose task
\* is cancelled, then the marker.  An exception of one of the others leaves the
\* mark, and the task if the timer's turn has not come.
CleanupForDeletedEvent(r, em, tasks) ==
    \/ /\ eventingState' = CleanupMarker(em, r)
       /\ onceTasks' = CancelOnceSchedule(tasks, r)
    \/ /\ CleanupMayThrow
       /\ eventingState' = em
       /\ onceTasks' \in {tasks, CancelOnceSchedule(tasks, r)}

\* Mutant of the next definition: running is not checked.
AlwaysAcceptsEvents == TRUE

\* The check at the start of handleEvent and of eventProcessingFinished.
AcceptsEvents == running

\* handleEvent: nothing while shutting down; otherwise mark, then submit, or
\* clean up after a deletion.
HandleEvent(r, action) ==
    /\ lockHolder = None
    /\ \/ /\ ~AcceptsEvents
          /\ UNCHANGED <<underProcessing, eventingState, queue, onceTasks>>
       \/ /\ AcceptsEvents
          /\ action = "DELETED" \/ DeleteEventPresent(eventingState, r)
          /\ CleanupForDeletedEvent(r,
                 MarkDeleteEventReceived(eventingState, r), onceTasks)
          /\ UNCHANGED <<underProcessing, queue>>
       \/ /\ AcceptsEvents
          /\ action # "DELETED" /\ ~DeleteEventPresent(eventingState, r)
          /\ SubmitReconciliationExecution(r, underProcessing,
                 MarkEventReceived(eventingState, r), retryState)
          /\ UNCHANGED onceTasks
    /\ UNCHANGED <<running, lockHolder, retryState, active, result, cache,
                   whiteList>>

\* An event of the informer of custom resources, or of any other source.
EventReceived(r, action) ==
    /\ HandleEvent(r, action)
    /\ UNCHANGED <<timerState, timerThread>>

\* The handler of an event of r has thrown: the cleanup did, and has left the
\* mark, or the execution was rejected.
HandlerThrew(r) ==
    /\ AcceptsEvents
    /\ \/ DeleteEventPresent(eventingState', r)
       \/ r \in underProcessing' \ underProcessing /\ queue' = queue

\* The timer's thread gets the lock in EventProducerTimeTask.run, which catches
\* nothing: an exception ends the Timer, and no task runs any more.
TimerEventReceived(r) ==
    /\ timerThread = r
    /\ HandleEvent(r, "TIMER")
    /\ timerState' = IF HandlerThrew(r) THEN "stopped" ELSE timerState
    /\ timerThread' = None
-------------------------------------------------------------------------------
\* A thread of the executor takes the oldest ControllerExecution.
StartExecution(t) ==
    /\ active[t] = None
    /\ queue # <<>>
    /\ active' = [active EXCEPT ![t] = Head(queue)]
    /\ queue' = Tail(queue)
    /\ UNCHANGED <<running, lockHolder, underProcessing, eventingState,
                   retryState, result, cache, whiteList, timerVars>>

\* reconciliationDispatcher.handleExecution returns p.
HandleExecution(t, p) ==
    /\ active[t] # None
    /\ result[t] = None
    /\ result' = [result EXCEPT ![t] = p]
    /\ UNCHANGED <<running, lockHolder, underProcessing, eventingState,
                   retryState, queue, active, cache, whiteList, timerVars>>

\* handleExecution catches RuntimeExceptions only: an Error passes through
\* ControllerExecution.run, and eventProcessingFinished is not called.
ExecutionDies(t) ==
    /\ ErrorsPossible
    /\ active[t] # None
    /\ result[t] = None
    /\ active' = [active EXCEPT ![t] = None]
    /\ UNCHANGED <<running, lockHolder, underProcessing, eventingState,
                   retryState, queue, result, cache, whiteList, timerVars>>
-------------------------------------------------------------------------------
\* getOrInitRetryExecution and RetryExecution.nextDelay, on the attempt count.
GetOrInitRetry(rs, r) == IF rs[r] = NoRetry THEN [rs EXCEPT ![r] = 0] ELSE rs

\* Mutants of the next definition, off by one.
OneRetryTooMany(rs, r) == MaxAttempts = -1 \/ rs[r] <= MaxAttempts
OneRetryTooFew(rs, r) == MaxAttempts = -1 \/ rs[r] + 1 < MaxAttempts

HasNextDelay(rs, r) == MaxAttempts = -1 \/ rs[r] < MaxAttempts

NextDelay(rs, r) == IF HasNextDelay(rs, r) THEN [rs EXCEPT ![r] = @ + 1] ELSE rs

\* Mutant of the next definition: the resource stays under processing.
UnsetNothing(r) == underProcessing

UnsetUnderExecution(r) == underProcessing \ {r}

ThreadDone(t) ==
    /\ active' = [active EXCEPT ![t] = None]
    /\ result' = [result EXCEPT ![t] = None]

\* handleRetryOnException.
HandleRetryOnException(t, r) ==
    LET rs == GetOrInitRetry(retryState, r)
        em == MarkEventReceived(eventingState, r)
    IN  /\ IF EventPresent(eventingState, r)
             THEN /\ SubmitReconciliationExecution(r, UnsetUnderExecution(r),
                                                   em, rs)
                  /\ retryState' = rs
                  /\ UNCHANGED onceTasks
             ELSE /\ underProcessing' = UnsetUnderExecution(r)
                  /\ eventingState' = em
                  /\ retryState' = NextDelay(rs, r)
                  /\ onceTasks' = IF HasNextDelay(rs, r)
                                    THEN ScheduleOnce(onceTasks, r)
                                    ELSE onceTasks
                  /\ UNCHANGED queue
        /\ ThreadDone(t)
        /\ UNCHANGED lockHolder

\* Mutant of the next definition: the cache is not looked at.
CacheIsAssumedReady(r, p) == TRUE

\* isCacheReadyForInstantReconciliation.  A resource that is gone from the
\* cache makes it throw: like the submission that follows a positive answer,
\* the exception leaves the marker as it is and submits nothing.
IsCacheReady(r, p) ==
    \/ p.updated = None
    \/ cache[r] = p.updated
    \/ cache[r] # p.before

\* cleanupOnSuccessfulExecution, on the retry state.
ForgetRetry(r) ==
    IF RetryConfigured THEN [retryState EXCEPT ![r] = NoRetry] ELSE retryState

\* What eventProcessingFinished does after a successful execution, or a
\* failed one that is not retried: clean up after a deletion, submit the next
\* execution, go on to postpone it, or reschedule.
FinishWithoutRetry(t, r) ==
    LET cancelled == CancelOnceSchedule(onceTasks, r)
        up == UnsetUnderExecution(r)
        rs == ForgetRetry(r)
    IN  /\ retryState' = rs
        /\ \/ /\ DeleteEventPresent(eventingState, r)
              /\ CleanupForDeletedEvent(r, eventingState, cancelled)
              /\ underProcessing' = up
              /\ ThreadDone(t)
              /\ UNCHANGED <<queue, lockHolder>>
           \/ /\ EventPresent(eventingState, r)
              /\ IsCacheReady(r, result[t])
              /\ SubmitReconciliationExecution(r, up, eventingState, rs)
              /\ onceTasks' = cancelled
              /\ ThreadDone(t)
              /\ UNCHANGED lockHolder
           \/ /\ EventPresent(eventingState, r)
              /\ ~IsCacheReady(r, result[t])
              /\ underProcessing' = up
              /\ onceTasks' = cancelled
              /\ lockHolder' = t
              /\ UNCHANGED <<eventingState, queue, active, result>>
           \/ /\ eventingState[r] = "NO_EVENT_PRESENT"
              /\ underProcessing' = up
              /\ onceTasks' = IF result[t].reschedule
                                THEN ScheduleOnce(cancelled, r) ELSE cancelled
              /\ ThreadDone(t)
              /\ UNCHANGED <<eventingState, queue, lockHolder>>

\* Mutant of the next definition: a delete event does not keep a failed
\* execution from being retried.
RetriesAlways(t) == RetryConfigured /\ result[t].exception

IsRetried(t) ==
    /\ RetryConfigured
    /\ result[t].exception
    /\ ~DeleteEventPresent(eventingState, active[t].res)

\* eventProcessingFinished, up to the postponement.
EventProcessingFinished(t) ==
    /\ lockHolder = None
    /\ result[t] # None
    /\ \/ /\ ~AcceptsEvents
          /\ ThreadDone(t)
          /\ UNCHANGED <<lockHolder, underProcessing, eventingState,
                         retryState, queue, onceTasks>>
       \/ /\ AcceptsEvents /\ IsRetried(t)
          /\ HandleRetryOnException(t, active[t].res)
       \/ /\ AcceptsEvents /\ ~IsRetried(t)
          /\ FinishWithoutRetry(t, active[t].res)
    /\ UNCHANGED <<running, cache, whiteList, timerState, timerThread>>

\* postponeReconciliationAndHandleCacheSyncEvent, and the unlock.
PostponeReconciliation(t) ==
    /\ lockHolder = t
    /\ WhitelistNextEvent(active[t].res)
    /\ ThreadDone(t)
    /\ lockHolder' = None
    /\ UNCHANGED <<running, underProcessing, eventingState, retryState, queue,
                   cache, timerVars>>
-------------------------------------------------------------------------------
otherThanTimer == <<running, lockHolder, underProcessing, eventingState,
                    retryState, taskVars, cache, whiteList>>

\* EventSourceManager.stop: the event sources are stopped, then the processor.
StopProcessor ==
    /\ lockHolder = None
    /\ running
    /\ timerState = "stopped"
    /\ running' = FALSE
    /\ UNCHANGED <<lockHolder, underProcessing, eventingState, retryState,
                   taskVars, cache, whiteList, timerVars>>

\* The environment: the informer's store changes, and its event consumes an
\* entry of the whitelist.
CacheChange(r, v) ==
    /\ cache' = [cache EXCEPT ![r] = v]
    /\ UNCHANGED <<running, lockHolder, underProcessing, eventingState,
                   retryState, taskVars, whiteList, timerVars>>

WhitelistedEvent(r) ==
    /\ ConsumeWhitelist(r)
    /\ UNCHANGED <<running, lockHolder, underProcessing, eventingState,
                   retryState, taskVars, cache, timerVars>>

TimerLifecycle ==
    /\ StartTimer \/ StopTimer
    /\ UNCHANGED otherThanTimer

TimerFires(r) ==
    /\ FireTimer(r)
    /\ UNCHANGED otherThanTimer

ProcessorStep(t) ==
    \/ StartExecution(t)
    \/ \E p \in PostExecutionControl :
          /\ active[t] # None /\ p.updated = None => p.before = active[t].version
          /\ HandleExecution(t, p)
    \/ ExecutionDies(t)
    \/ EventProcessingFinished(t)
    \/ PostponeReconciliation(t)

EPNext ==
    \/ \E r \in Resources :
          \/ \E action \in {"DELETED", "OTHER"} : EventReceived(r, action)
          \/ TimerFires(r)
          \/ TimerEventReceived(r)
          \/ WhitelistedEvent(r)
          \/ \E v \in Versions \cup {None} : CacheChange(r, v)
    \/ \E t \in Threads : ProcessorStep(t)
    \/ TimerLifecycle
    \/ StopProcessor

EPSpec == EPInit /\ [][EPNext]_epVars
-------------------------------------------------------------------------------
(***************************************************************************)
(* The tasks of the processor: queued in the executor, or on a thread.     *)
(***************************************************************************)
Queued(r) == {i \in DOMAIN queue : queue[i].res = r}
RunningOn(r) == {t \in Threads : active[t] # None /\ active[t].res = r}

\* At most one execution of a custom resource is queued or on a thread, and
\* never one of each: the reconciler is not called concurrently for a
\* resource (underProcessing, EventProcessor.java:126-130).
SerialExecution ==
    /\ \A r \in Resources : Queued(r) = {} \/ RunningOn(r) = {}
    /\ \A i, j \in DOMAIN queue : queue[i].res = queue[j].res => i = j
    /\ \A s, t \in Threads :
          active[s] # None /\ active[t] # None /\ active[s].res = active[t].res
              => s = t

\* While the processor runs, a resource is marked as under processing
\* exactly when it has a task, but for the one whose finished task is
\* waiting to be postponed.  A mark without a task would block the
\* resource for good; a task without a mark would let a second one start.
NoStuckResource ==
    running => underProcessing =
        {r \in Resources : Queued(r) # {} \/ RunningOn(r) \ {lockHolder} # {}}

\* While the mark of a delete event stands, which it does when the cleanup after
\* the event has thrown, nothing is started for the resource: no event makes an
\* execution of it, its timer fires in vain, and the failure of the execution
\* that was under way is not retried (EventProcessor.java:112-116, 179-183).
DeletedStartsNothing ==
    [][\A r \in Resources :
          DeleteEventPresent(eventingState, r)
          => /\ ~EventPresent(eventingState', r)
             /\ r \in onceTasks' => r \in onceTasks
             /\ \A i \in DOMAIN queue' :
                   queue'[i].res = r => \E j \in DOMAIN queue : queue[j] = queue'[i]
      ]_epVars

\* The RetryInfo that an execution was given is the retry state of its
\* resource for as long as the execution is queued or runs, and a count
\* never exceeds the configured limit.
RetryInfoIsCurrent ==
    /\ running =>
        /\ \A i \in DOMAIN queue : queue[i].retry = retryState[queue[i].res]
        /\ \A t \in Threads \ {lockHolder} :
              active[t] # None => active[t].retry = retryState[active[t].res]
    /\ MaxAttempts > -1 => \A r \in Resources : retryState[r] <= MaxAttempts

\* A received event is forgotten only by the step that queues an execution
\* of its resource with the resource as the cache has it, or by the
\* deletion of the resource.
EventLeadsToExecution ==
    [][\A r \in Resources :
          EventPresent(eventingState, r) /\ ~EventPresent(eventingState', r)
          => \/ EventReceived(r, "DELETED")
             \/ /\ Len(queue') = Len(queue) + 1
                /\ queue'[Len(queue')].res = r
                /\ queue'[Len(queue')].version = cache[r]]_epVars

\* Nothing is queued or scheduled once the processor is stopped: events and
\* results that arrive later start nothing.
StoppedStartsNothing ==
    [][~running => /\ Len(queue') <= Len(queue)
                   /\ onceTasks' \subseteq onceTasks
                   /\ ~running']_epVars
===============================================================================
