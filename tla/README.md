# A verification model of the Java Operator SDK

The Java Operator SDK turns the changes of custom resources in a Kubernetes
cluster into calls of a `Reconciler`. What makes it correct is a small amount of
concurrent code: an event processor that keeps the executions of one resource
apart, retries them and never forgets an event; a dispatcher that reads a cache
which lags behind the server it writes to; and a lifecycle that starts and stops
all of it while events arrive. This directory models that code in TLA+, checks
it with TLC on small instances, and proves part of it with TLAPS for instances
of every size.

Paths below are relative to
`src/operator-framework-core/src/main/java/io/javaoperatorsdk/operator/`, unless
they begin with another directory of the repository.

Contents:
[1 The system](#1-the-system) ·
[2 The modules](#2-the-modules) ·
[3 The runs](#3-the-runs) ·
[4 Bounds and fairness](#4-bounds-and-fairness) ·
[5 Findings](#5-findings) ·
[6 The proofs](#6-the-proofs) ·
[7 What is not modelled](#7-what-is-not-modelled) ·
[8 Plan](#8-plan)

## 1 The system

### 1.1 Components, their state and operations

| Component | State it keeps | Operations | Correct when |
|---|---|---|---|
| `EventProcessor` with `EventMarker`, `ExecutionScope`, `PostExecutionControl` | `underProcessing`, the marker of each resource, `retryState`, `running`, one `ReentrantLock` | `handleEvent`, `eventProcessingFinished`, `start`, `stop` | executions of a resource are serial; no resource is blocked for good; no event is lost; retries are counted right; nothing starts after stop |
| `TimerEventSource` | `onceTasks`, a `java.util.Timer` with one thread, `running` | `scheduleOnce`, `cancelOnceSchedule`, a task's `run`, `start`, `stop` | a retry or a reschedule that was promised comes |
| `ReconciliationDispatcher` | none; it writes to the API server | `handleExecution`: finalizer, reconcile, cleanup, updates, error status | no cleanup is skipped; no stale write wins; a status is of a generation that was reconciled |
| `ControllerResourceEventSource`, `ResourceEventFilters`, `OnceWhitelistEventFilterEventFilter` | the informers (caches), the whitelist | `onAdd`, `onUpdate`, `onDelete`, `whitelistNextEvent`, `start`, `stop` | a change that needs an execution is not filtered out |
| `EventSourceManager` | the registered event sources, one `ReentrantLock` | `registerEventSource`, `start`, `stop`, `cleanupForCustomResource` | stop reaches what start has; no deadlock with the processor's lock |
| `Operator`, `ControllerManager`, `Controller`, `ExecutorServiceManager` | the controllers by CRD, `started`, the executor singleton | `register`, `start`, `stop` | registered controllers run exactly while the operator is started, on a living executor |
| `GenericRetry`, `GenericRetryExecution` | attempt count, interval | `nextDelay`, `isLastAttempt` | the limit is kept, and the delays grow up to the maximum |
| `InformerEventSource`, `Mappers` | an informer | `onAdd`, `onUpdate`, `onDelete` | every primary resource of a secondary one gets its event |
| API server, informer and users (outside) | objects, versions, watch | writes, deletions, notifications | – |
| Configuration, annotation processor, metrics, JUnit extension, samples | values read at start; meters nobody reads | – | – |

### 1.2 How they interact

    users ──► API server ──watch──► informer's store ──notification──► filters
                  ▲                     │ (cache)                         │ handleEvent
                  │ PUT                 ▼                                 ▼
      ReconciliationDispatcher ◄── executor ◄──submit── EventProcessor ◄──── TimerEventSource,
                  │                                       ▲    │  scheduleOnce     InformerEventSource
                  └───────── eventProcessingFinished ─────┘    └─ whitelistNextEvent, cleanup

Threads: one or more of the informers, one of the timer, those of the executor,
and the one that calls `Operator.start` and `stop`. The processor and the event
source manager have a lock each; the handler of a delete event takes the
manager's while it holds the processor's. The informer's store, its
notifications and the filters are under neither.

### 1.3 What is hard

* An event, a result, a timer and a change of the cache can come in any order,
  and the code between the read of the cache and the whitelisting of the next
  event is not atomic towards the informer.
* The cache is older than the server: an execution may begin with a version it
  has itself replaced, add a finalizer that is already there, or conflict.
* A call of the API server may conflict, fail for any other reason
  (`docs/documentation/features.md` 193), or be executed without an answer; a
  second one may fail after the first has been executed.
* An event source may throw where the processor calls it, in the middle of a
  handler; an executor that others have shut down rejects executions.
* Deleting and creating a resource again gives a new object under the old key.
* The timer's task that has begun to run can no longer be cancelled.
* Start and stop happen while events arrive, in the order of a `HashSet`.
* The operator may end anywhere, also between a reconciliation and the write of
  its status. What it kept in memory (marks, retries, whitelist, timers, caches)
  is gone, and the next process begins from what the server lists.
* An informer that has lost its watch lists anew and merges changes: also a
  deletion and a creation into one update.

`PROJECT.json` lists each of these at the line where it bites, under "hazards",
with the properties that would notice.

## 2 The modules

A definition has the name of the method or field it models wherever TLA+ allows
it; `PROJECT.json` maps every one to its lines.

    ResourceID ── TimerEventSource ──────────┐
         │   EventMarker ────────────────────┼─► EventProcessor ─► EventProcessorRefinement ─► (SerialExecutor)
         └── OnceWhitelistEventFilter ───────┘        │
                    └─► ResourceEventFilters ─┐       │
             CustomResourceServer ────────────┼───────┴─► ReconciliationDispatcher ─┐
             InformerEventSource ─────────────┴─────────────────────────────────────┴─► ControllerLoop

    EventSourceManager      OperatorLifecycle      GenericRetryExecution   (each on its own)

| Module | Models | Remarks |
|---|---|---|
| `ResourceID` | `ResourceID.java` | the keys, and `None` |
| `EventMarker` | `EventMarker.java` | operators on the marker map, used in the middle of handlers |
| `TimerEventSource` | `TimerEventSource.java` | delays are "some time later"; a task that runs and waits for the processor's lock is `timerThread` |
| `OnceWhitelistEventFilter` | `OnceWhitelistEventFilterEventFilter.java` | absent for controllers that are not generation aware |
| `ResourceEventFilters` | `ResourceEventFilters.java` and the filter `ControllerResourceEventSource` builds | the user's own filter is `EventFilter`: everything, or changes of the spec |
| `EventProcessor` | `EventProcessor.java` | each method under the lock is one action, but for the postponement, see below |
| `SerialExecutor` | the promise of `EventProcessor.java` 34-37 and `EventMarker.java` 6-12 | the abstract specification: a phase for each resource and the set of those with a pending event |
| `EventProcessorRefinement` | – | the refinement mapping |
| `CustomResourceServer` | API server, informer, users | external: what the dispatcher and the event source rely on (optimistic locking, generations, finalizers, ordered watch) |
| `ReconciliationDispatcher` | `ReconciliationDispatcher.java` | the reconciler is one step that ends in the API call its answer asks for; the server answers in another |
| `InformerEventSource` | `InformerEventSource.java`, and where `Mappers.java` maps to | an informer of one secondary resource, its handler, and the loop over the primary resources |
| `ControllerLoop` | `ControllerResourceEventSource.eventReceived`, and everything above together | an informer stores, filters and delivers in three steps; the operator may be started again |
| `GenericRetryExecution` | `GenericRetryExecution.java`, `GenericRetry.java` | the delays of one retry; the multiplier is a fraction, a long ends at `MaxLong` |
| `EventSourceManager` | `EventSourceManager.java` | two locks, registration, start, stop, and threads that send events |
| `OperatorLifecycle` | `Operator.java`, `ControllerManager`, `Controller.start` and `stop`, `ExecutorServiceManager.java` | controllers that start in a parallel stream, restarts, registration meanwhile |
| `EventProcessorProofs` | – | theorems about the processor: its invariants, its steps, the refinement |
| `ControllerLoopProofs`, `ControllerLoopHistoryProofs`, `ControllerLoopEventProofs`, `ControllerLoopGenerationProofs` | – | theorems about the loop, each module on top of the one before: its types and the processor inside it; what the reconciler is given over the life of a resource; what becomes of an event; what the status says of the generations, and that none is forgotten |
| `EventSourceManagerProofs`, `OperatorLifecycleProofs`, `GenericRetryProofs` | – | theorems |
| `MC…` | – | instances for TLC |

### 2.1 EventProcessor

Every public method of `EventProcessor` holds its lock throughout, so each is
one action: `HandleEvent` (for an event of the informer or of any other source,
`EventReceived`, and for the timer's, `TimerEventReceived`),
`EventProcessingFinished`, `StopProcessor`. The executor is the queue
`queue` and, for each thread, what it runs (`active`) and has returned
(`result`): `StartExecution` takes an execution, `HandleExecution` returns from
the dispatcher, and `EventProcessingFinished` is the call at the end of
`ControllerExecution.run`.

One path is split. `eventProcessingFinished` reads the informer's store
(`isCacheReadyForInstantReconciliation`) and then whitelists the next event
(`postponeReconciliationAndHandleCacheSyncEvent`). The lock excludes other
handlers but not the informer, which changes its store and evaluates the filters
without it. Between the two reads `lockHolder` is the thread that is there, and
every action that needs the lock waits for it. The other reads of the cache in a
handler (`submitReconciliationExecution`) are single reads.

In `EventProcessor` alone the environment is free: the cache changes to any
version at any time, a whitelisted entry may be consumed, any event may arrive,
an execution may return anything, and three things may go wrong. When
`ErrorsPossible`, an execution may die of an `Error`, which `handleExecution` does
not catch. When `CleanupMayThrow`, an event source throws in
`cleanupForResource`: the exception leaves `EventSourceManager` (110-119) and
`cleanupForDeletedEvent` (299-303) before the marker is cleaned up, so that the
mark of the delete event stays. When `RejectionsPossible`, `executor.execute` (136)
throws after the resource has been put under processing and unmarked, as the
executor, a singleton of the process, has been shut down by another operator.
In the task of the timer an exception of the handler ends the `java.util.Timer`
(`HandlerThrew`). What holds there does not depend on Kubernetes. In
`ControllerLoop` the environment is the rest of the loop, the event sources are
the framework's own, none of whose cleanups throws, and `Operator.stop` stops the
controllers before the executor: the last two do not happen there
(`OwnSourcesAssumption`).

### 2.2 ReconciliationDispatcher and ControllerLoop

A custom resource is a record of what the code looks at: version, uid,
generation, the operator's finalizer and one of others, `deletionTimestamp`, an
annotation that
stands for what the reconciler writes to the resource, the observed generation
and the error in the status. `handleExecution` is a walk of `Dispatch` steps and
`ServerAnswers`: between the call and the answer users write, informers deliver
and other resources are reconciled. A call fails because its version is stale or
the object is gone (`IsCurrent`), or for any other reason: `CallFailures` says
whether it may not come to be executed ("notExecuted": a timeout, a 5xx) and
whether it may be executed and its answer be lost ("notAnswered"). Each is an
exception in the places where the code has its `try` (`CallThrows`), so that the
error status handler is called for the updates of `reconcileExecution` and not
for those of the finalizer. `updateStatusGenerationAware` observes the generation
in the object it is given; after `noUpdate` that is the original resource, which
the error status handler then gets (`Original`).

`updateResourceAndStatus` is two calls. Line 154 of the dispatcher sets the
version of the first answer on the resource of the reconciler, and that is the
object in the `ExecutionScope` unless it was cloned (`IsCloned`): `before`, which
`eventProcessingFinished` takes for the version before the execution, follows
the object.

The history variables `reconciled`, `succeeded` and `cleaned` record what the
reconciler was given, `sinceStart` what the running process gave it, and
`lastSeen` the version of the secondary resource that it could see then. `gaveUp`
is the version of the last execution when that has failed, was the last attempt,
and no event had come meanwhile, until another begins: the case where
`handleRetryOnException` logs "Exhausted retries" and nothing follows. Nothing
reads these variables but properties. `obs` is the generation
a status was written for, also when the status class does not implement
`ObservedGenerationAware`; then the filters do not look at it.

Users create, change and delete, and do not touch the operator's finalizer. A
resource may be created with a finalizer of others, who remove it some time after
the deletion, or never.

`ControllerSourceStarts` is the start of `ControllerResourceEventSource`, which may
come after those of other sources: until then its cache has no informer, and
`ControllerResourceCache.get` (53) throws in the handler of every event, after the
event has been marked. `InformerRelists` is the informer that has lost its watch: of the changes that
are not in its store only the last of each resource is left, in any order, as a
list has none. `OperatorRestarts`
is a crash at any moment followed by a start: the server and the history
variables stay, the informers list, and all else is as in `LoopInit`. A call of
the API server that is on its way has been executed before the crash or is lost;
one that is executed after the next process has begun is left out.

The secondary resource has its own informer (`InformerEventSource`). An object
maps to a set of ids, of which one may be of a namespace that no informer
watches: `handleEvent` throws for it (`ControllerResourceCache.java` 53), which
ends the `forEach`; the ids after it get no event. The mark that such an id
leaves in the processor is left out, as nothing can ask for it again. A resync
is an update without a change, which `skipUpdateEventPropagationIfNoChange` skips.

### 2.3 EventSourceManager and OperatorLifecycle

`EventSourceManager` keeps of the processor only its lock and its `running`
flag. The thread of `Controller.start` and `stop` visits the event sources one
at a time; each source may refuse to start, and has a thread that sends events,
the controller's also delete events, whose handler calls
`cleanupForCustomResource`. A source whose `stop` throws is only logged, and may
go on sending ("stopThrew"). A reconciler may register a source at any time.

In `OperatorLifecycle` one thread calls `start` and `stop` in any order, and
others `register`. `Controller.start` may throw: out of the parallel stream,
whose other tasks go on (`StartsLate`), or out of `register`, after the
controller has been put into the map. `start` of a started operator starts every
controller once more, over the `EventSourceManager` it has. Two history variables
name what that leaves behind: `failed` are the controllers whose last start
threw, and `astray` the managers that `stop` may not reach, as their controller's
field has been overwritten while they ran, or as the stream they belong to threw
and `started` was never set. The properties are about everything else, in every
history: an exception of one controller stops no other, and whatever went astray,
the controllers that are started afterwards are stopped.

### 2.4 GenericRetryExecution

One retry, of a configuration that is chosen at the start; each call of
`nextDelay` is a step. The product of the interval and the multiplier is cast to
a long, which drops the fraction and stops at the largest value. The rounding of
doubles is left out: that of a product beyond 2^53, and, below it, that of the
product with a multiplier that is no short binary fraction (1.1, for instance;
the default of 1.5 is one), which may come out a millisecond off. In `EventProcessor` and
`ControllerLoop` the delays are "later", and only the attempts are counted.

## 3 The runs

| Run | Asks | Distinct states |
|---|---|---|
| `ep_safety` | in a free environment: one execution of a resource at a time, no resource blocked, nothing started for a resource whose deletion is marked, retries counted right, events forgotten only by an execution or a deletion, nothing started after stop; cleanups may throw | 759 000 |
| `ep_refinement` | two threads, errors, cleanups that throw, rejected executions, two retries: the processor implements `SerialExecutor` | 139 000 |
| `loop_finalizer` | the whole loop with a finalizer and the fallback mode of generations, two threads, conflicts, calls and reconcilers that fail, relists, a restart, finalizers of others: every generation is reconciled or overtaken, in order, and never forgotten on the way, unless the last attempt fails; cleanup before removal, no reconcile after it, a deletion completes; observed generations were reconciled | 315 000 |
| `loop_observed` | a status with the observed generation: what is observed is not repeated after a restart, and it catches up, also when calls are executed without an answer | 541 000 |
| `loop_plain` | no finalizer, no generation awareness, a secondary resource that is added and updated and maps to two ids, or to one that nobody watches as well: no received event is lost, each is processed, a secondary change is reconciled; an instant reconciliation is not given the version from before, a failure is retried | 238 000 |
| `event_source_manager` | two locks: no deadlock, stop reaches all, no event of a running source is ignored, none is missed by start | 77 000 |
| `operator_lifecycle` | registered controllers run when, and only when, the operator is started, once for each CRD, on a living executor | 123 000 |
| `retry_delays` | 320 configurations: as many delays as attempts, cut, never shrinking, exponential | 1 500 |
| `lost_event`, `stale_instant_reconciliation`, `event_before_cache`, `retry_before_timer` | the findings of section 5: TLC shows a behaviour of the code that contradicts what the repository says | violated |

Each property of a passing run has a mutant, a plausible mistake in one
definition ("Mutant of the next definition" in the modules), with which TLC finds
the property violated: the property is about the code, and the bounds of the run
are large enough for the case to occur.

How the properties read:

* **SerialExecution**, **NoStuckResource** – `underProcessing` is exactly the set
  of resources with a task; no second task, and no mark that nobody will remove.
* **EventLeadsToExecution** – a mark is removed only by the step that queues an
  execution with the cache's version, or by the deletion. `ImplementsSerialExecutor`
  is the same promise for whole behaviours.
* **DeletedStartsNothing** – while the mark of a delete event stands, because a
  cleanup has thrown, no event, timer or failed execution starts anything for
  the resource (`EventProcessor.java` 112-116 and 179-183).
* **RetryInfoIsCurrent** – the attempt an execution was told is that of the
  resource for as long as it is queued or runs, and the limit is kept.
* **NoRemovalWithoutCleanup**, **NoReconcileAfterCleanup**,
  **GenerationsAreReconciledInOrder**, **ObservedGenerationWasReconciled** – what
  users of the SDK rely on when caches are stale and writes conflict.
* **ObservedIsNotRepeated**, **ObservedGenerationCatchesUp** – the status as the
  memory of the operator across restarts (`docs/documentation/features.md`
  126-140): what it says was done is not done again, and it comes to say what
  was done, though the process may end between a reconciliation and its status.
* **NoLostEvent**, **ReceivedEventIsProcessed**, **EveryGenerationIsReconciled**,
  **DeletionCompletes** – nothing waits for ever, and a first failure of the
  reconciler, the cleanup or a call only delays it: the only excuse is that the
  last attempt has failed (`gaveUp`), not that it is due.
  **NoGenerationIsForgotten** says the same without fairness: something is under
  way at every moment.
* **SecondaryChangeIsReconciled** – the reconciler of each primary resource is
  called with a change of the secondary one in the store, if the event of the
  change meets an execution, a retry or an update that is under way.
* **LimitIsExact**, **DelaysAreCut**, **DelaysNeverShrink**,
  **DelaysAreExponential** – the step by step computation of a delay agrees with
  what a configuration asks for.
* **InstantReconciliationIsFresh**, **FailureIsRetried** – the reasons for the
  postponement and for the timer.
* **StopStopsAll**, **OnlyStoppedSourcesAreIgnored**, **StartVisitsAll**,
  **LocksAreGivenBack**; **OneManagerPerCrd**, **NothingRunsAfterStop**,
  **RegisteredControllersRun** – start and stop are complete.

## 4 Bounds and fairness

`EventProcessor` bounds nothing but its constants: queue and retries are bounded
by the code (one task for each resource, `MaxAttempts`). Two resources show that
the state of one does not disturb the other, two versions tell a cache that has
moved on from one that has not; the refinement needs three, before, after and
another (`EventProcessor.java` 231-235).
The once-whitelist (`GenerationAware`) is in `ep_refinement` and in the loop
runs: the processor writes it and only the informer's filters read it, so in
`ep_safety`, whose environment has no filter, it would only multiply states.

`ControllerLoop` has one resource, as the processor keeps the state of each
apart, and one or two threads. `loop_plain` has two ids, of which one comes to
exist, so that the loop over several primary resources is run with an id that
is in the cache and one that is not. `MaxUserVersions` bounds what users do: from that
version on only the operator writes. Two to four versions are enough to create,
change, delete and create again while an execution is under way; `loop_observed`
has four, so that a change of the spec can come after the finalizer and the
status of the first generation have been written. `MaxAttempts = 1` has a first
failure, whose retry is pending and must come, a last attempt, and an exhausted
retry; the properties give up only when that last attempt has failed
(`gaveUp`). More attempts than one are in `ep_refinement`. The calls
fail in both ways in `loop_observed` and `loop_plain`, and without being executed
in `loop_finalizer`, to keep it short: with both ways in its `.cfg` TLC finds no
error either, in 787 000 states. One restart (`MaxRestarts`) and
one relist (`MaxRelists`) come at any moment, after which all is as it would be
without them. Two changes of the secondary resource (`MaxSecondaryChanges`) are an
`onAdd` and an `onUpdate` with another version, or one `onAdd` of both; the first may
map to the id that nobody watches and the second not. With any number of
resyncs, of which one is under way at a time, they meet every state of the
processor.

`EventSourceManager` has the manager's own two event sources and one more, each
of which sends two events: one while it runs and one across stop.
`OperatorLifecycle` has two CRDs, a second controller for one of them, and three
starts: first start, restart or repeated start, and one more.
`GenericRetryExecution` has a long that ends at 40, so that four delays reach its
end, and seven calls (`MaxCalls`) where there is no limit.

What the runs bound the theorems of section 6 do not: they hold for any number
of resources, of which there are finitely many at a time, threads, user changes,
relists and restarts.

Symmetry is used in `ep_safety` only. Deadlock is checked in `ep_refinement`, and
not where the system may stop: the loop comes to rest when users stop, and so
does an operator and a retry.

Fairness is weak fairness of the threads, which run whenever they can: the
informer's, the timer's, the executor's, the server that answers, the
reconciler that returns. Locks are not assumed to be fair; a waiting thread gets
its lock because what the others do is finite. The fairness is that
of a thread as a whole, whose steps exclude each other. Nothing is assumed of
users, of the owners of other finalizers, of crashes, of calls that fail, or of
informers that list anew. The timer's thread runs every
task that stays scheduled. Reconcilers and calls may fail for ever; the liveness
properties that need a success end where the last attempt has failed
(`GaveUpOn`, `CleanupGaveUp`), and not before. A generation counts as reconciled when
it has been given to the reconciler. A secondary change counts when the reconciler is called with it in
the store, which also a failing call is.

`TimerFirst` says that the timer event source is started before the informer;
`EventSourceManager.start` goes through a `HashSet` and may do it the other way
round, which `retry_before_timer` shows the consequence of.

## 5 Findings

1. **A received event can wait for ever** (`lost_event`, `EventProcessor.java`
   197). The reconciler has updated the status and an event has arrived meanwhile.
   `eventProcessingFinished` finds that the cache still has the old version; now
   the informer stores the update and the filters reject its notification; then
   the next event is whitelisted, but the one that was meant has passed.
   `EventMarker.java` 6-7: "Either an event is received, so we eventually process".
2. **An instant reconciliation can be given the stale version**
   (`stale_instant_reconciliation`, `ReconciliationDispatcher.java` 154), because
   `updateResourceAndStatus` changes the version of the very object that is later
   read as "the version before execution" (`EventProcessor.java` 231-233).
   `InstantReconciliationIsFresh` is the part that holds, for executions whose
   resource is left as it was; `InstantReconciliationIsAlwaysFresh` the whole.
3. **An event that comes before the cache is filled can wait for ever**
   (`event_before_cache`, `EventProcessor.java` 129). When the operator starts, an
   `InformerEventSource` may send its events before the custom resources are in
   the cache: they are marked, and nothing is submitted. If the status says that
   the generation has been observed, the filters reject the addition of the
   resource to the cache, and the change of the secondary resource, made while
   the operator was down, is not reconciled until something else happens.
   `docs/documentation/features.md` 18: "When an event is received reconciliation
   is executed".
4. **A failure before the timer is started is not retried** (`retry_before_timer`,
   `EventSourceManager.java` 59), contrary to `docs/documentation/features.md` 151:
   `scheduleOnce` throws while the timer event source is not running.

Four more places where the code does not do what one might read, or leaves
something behind, without a run:

* A controller that is not generation aware has no whitelist. If its own filter
  rejects the update that a postponed event waits for, the event is lost as in 1;
  `loop_plain` with `EventFilter = "specChanges"` violates `NoLostEvent`.
* `EventProcessor.java` 179-181 says that a failed execution is not retried when a
  delete event was received during it. `handleEvent` removes the mark of a delete
  event at once, unless a cleanup throws: only then does line 183 find one, which
  is what `EventProcessorTest.cleansUpAfterExecutionIfOnlyDeleteEventMarkLeft` sets
  up, and `DeletedStartsNothing` shows that the failure is not retried. Otherwise
  it is retried, and the retry finds nothing in the cache.
* `docs/documentation/features.md` 65 and 80 say that without a finalizer
  `cleanup` is not called at all. It is, for a resource that is marked for
  deletion and held by a finalizer of others (`ReconciliationDispatcher.java`
  66-79).
* An event source that a reconciler registers after `start` is never started.

## 6 The proofs

All theorems hold for every value of the constants that satisfies the named
assumptions: `None` is not one of the values, the retry configuration is
well-formed, and the resources are finitely many.

**`EventProcessorProofs`.** `SerialExecution` is not inductive: that
`submitReconciliationExecution` queues no second execution follows from
`underProcessing`, so the invariant `TasksInv` adds to the types that the
resource of every queued execution, and of every thread but the one inside the
postponement, is under processing; that tasks of one resource exclude each
other; that a result belongs to a task; and that the resource that is being
postponed has been unmarked. `Submission` is the lemma about the only step that
adds to the queue; each action then has a lemma of its own. `TasksInvariant`
gives `TypeCorrect` and `ExecutionIsSerial`. For `NoResourceIsStuck` the
converse is needed, that a mark has a task while the processor runs, which an
`Error` breaks, and so does an execution that is rejected: the theorem assumes
`~ErrorsPossible` and `~RejectionsPossible`, and the run `ep_refinement` shows with
both that such a resource is blocked and nothing else. A cleanup that throws does
not disturb it.

The second half of the module is about what a step may do. `SubmissionEffect`
says all that `submitReconciliationExecution` does: it queues one execution with
the cache's version and the retry state and unmarks the event, or it does neither.
From it, handler by handler, follow `NoEventIsForgotten`, for an executor that
rejects nothing, `NothingStartsAfterStop`, and `DeletedResourceStartsNothing`: a
mark of a delete event is replaced by no other (`DeleteMarkStays`), and every way
to a submission or to the timer asks for a mark of another kind. `RetryInfoStaysCurrent` needs the invariant `Informed`,
that every execution in the queue or on a thread has the retry state of its
resource and that this is within the limit; it is inductive only with `TasksInv`,
as the handler that ends an execution changes the retry state of its resource,
and no other task must hold it.

The third part is the refinement: `SerialExecutorIsImplemented` is the one that `ep_refinement` checks: each action of the processor is an action
of `SerialExecutor`, or a stutter, under the mapping of
`EventProcessorRefinement`. The phase of a resource is first expressed by what is
in the queue and on the threads (`PhaseFromTasks`), then followed through each
handler. `SerialExecutor` promises no progress, so that the refinement is about
steps only and needs no fairness.

**`ControllerLoopProofs`.** `EventProcessor` does not say what a version of a
resource is; in the loop it is the custom resource itself (`VersionsAreResources`,
which the loop runs have in their `.cfg`). `LoopInv` adds to the types and to
`TasksInv` that a thread which waits for the API server executes a task.
`ProcessorInLoop` is the lemma that joins the modules: a step of the loop is a
step of the processor, leaves its variables as they are, or starts it anew. So
`ProcessorOfTheLoop` carries over what is proved of the processor in its free
environment, restarts included, and the loop runs need not check it again. As no
cleanup throws in the loop (`OwnSourcesAssumption`), it adds that no mark of a
delete event outlives its handler, which later modules build on.

**`ControllerLoopHistoryProofs`.** Four properties relate what the reconciler was
given at different times, and none is inductive: that an old generation is not
reconciled after a new one depends on everything that may still become the
version of a task. `HistoryInv` therefore puts all states of a resource the
operator can meet in order (`InOrder`): the version of a task, the informer's
store, the changes on their way to it, the server's object. Along that line a
state `Follows` another: a later uid, or the same with no earlier generation, a
deletion that stays, and a finalizer that stays unless a cleanup has asked for
its removal. `StatesFit` says that nothing in the history is later than any of
those states; `VersionsAreUnique` and `UidsAreUnique` that a write which the
server accepts is of the object it was made from; `CallsFit` what a call on its
way asks for. A user's change or an accepted write is a later state than all
(`StoresKeepsHistory`), an informer moves states along the line, a relist drops
some, and a restart leaves the server's alone. It gives `ObservedWasReconciled`,
`NeverReconciledAfterCleanup`, `ReconciledInOrder` and `NoneEscapesCleanup`, with
a finalizer and without, for any reconciler and any user.

**`ControllerLoopEventProofs`.** `NoLostEvent` fails if an event waits for an
update to reach the informer's store and nothing comes any more. That something
comes takes three facts, which `EventInv` adds to the invariants above.
`CacheCatchesUp`: the last change of a resource on its way leaves what the server
has, or there is none and the informer's store has it; a relist keeps that
(`RelistKeepsChanges`, that it drops only changes that were overtaken or that the
store does not know), and so does the first list of a restarted informer
(`FirstListIsOfTheStore`). `AnswersFit`: an update made by an execution is no
earlier than the version taken for the one before, and the server has it or a
later one, whatever calls led to it. `TimerIsReady`: there is nothing in the
informer's store before the timer runs. If the store has the version
before the update, it then is not what the server has, and a change is on its way
(`UpdateIsOnItsWay`). `NothingLost` follows each event through the handlers, the
filters, the informer and the crashes; it needs that the timer is started first
and that no filter rejects changes: the run `retry_before_timer` shows what
happens without the first, `lost_event` what a generation aware controller, whose
filters do reject, is left with, and section 5 names the event filter. From the same
invariant follow `FailuresAreRetried`, when at least one retry is allowed, and,
with the order of `HistoryInv`, `InstantReconciliationsAreFresh`.

**`ControllerLoopGenerationProofs`.** `ObjectInv` is about the objects
themselves. Each one that a task, a cache, a notification or the server holds is
`WellFormed`: its status is of its generation or an earlier one, of an earlier
one once it is marked for deletion, and says nothing before the finalizer is
there. A call on its way asks for what its thread was given (`MayAskFor`), and
if the server still has the version that is sent, it differs in nothing the
call leaves alone (`IsUpToDate`). So each step of the server `Evolves` an
object: a new generation leaves the status as it is, and a status of the
generation is written only after this process has begun with it. That carries
`ObservedNotRepeated`: that a controller aware of the observed generation is not
given an observed one again. The property is not inductive, as it speaks of the
reconciler while the mistake is made earlier, where the filters accept a
change. `FreshInv` says what must hold from there on. A resource the processor
has begun to deal with, by a mark, a task, a retry or a timer (`Touched`), and a
change the filters would take for news (`IsNews`), are of a resource of which
every state that can still reach a task is fresh (`AllFresh`): its generation is
not observed, or this process has begun with it; and what comes after a fresh
state is fresh (`StaysFresh`). The theorem has two hypotheses. The controller
is generation aware, as another takes every change for news, its own update of
the status included; and no event comes from secondary resources
(`QuietSources`), as those ask for an execution whatever has been observed,
which is what they are for.

`NoneIsForgotten` is the safety property behind `EveryGenerationIsReconciled`,
without any fairness: as long as a generation has neither been begun with by
this process nor observed, something is under way that leads to it
(`NoGenerationIsForgotten`), until the last attempt has failed. Calls may
fail in every way of `CallFailures`: after an addition of the finalizer that has
failed it is the mark and the timer of the retry that are under way, for which the
theorem needs the timer to be started first (`TimerFirst`); after one that was
executed without an answer, also the change itself. It is not inductive, as "a change is under way" does not
say that the change will be accepted. `DueIsComing` says it for a generation that
the informer's store has: the addition of the finalizer has still to be seen by the
informer; or a notification is queued that the filters other than the whitelist
accept, with no deletion of the resource after it; or such an event is being
delivered, or a task was given the version, or the mark of an event waits for the end
of a task. A generation that the store does not have yet is in the watch. Where a
task ends, or the filters reject a notification, three more invariants are needed.
`FinalizerComesLast`: of the states of a resource that are still around, only
those of the earliest object may have the finalizer, so an object that has
taken its place is news to the filter of the finalizer, also when its generation
is not higher. `ObservedStays`: a generation that was observed stays so, so a
change rejected for that reason is not due. `UpdatesAreOfBegun`: an update whose
notification the whitelist rejects was made by a task that had begun with the
generation. The theorem has the hypothesis `NewGenerationsAreEvents`: a
finalizer is used, or every change of a generation that is not observed is
accepted. Without it the property is false, and TLC finds the
behaviour when `UseFinalizer` is set to `FALSE` in `MCControllerLoopFinalizer.cfg`: an
informer that lists anew reports a deletion and a creation as one update, whose
generation is not higher than before, and `ResourceEventFilters.java:40-41` rejects
it.

**`EventSourceManagerProofs`.** The invariant `ProgressInv` says what each phase
of start and stop has established: before start nothing runs; from start to
stop what runs is registered; in the loop of stop what runs has still to be
visited. Together with the owners of the locks it gives `StopStopsEverySource`,
`RunningSourcesAreHeard` and `StartVisitsEverySource`.

**`OperatorLifecycleProofs`.** `LifecycleInv` says how far the streams of start
and stop have come (`Streams`); that what runs, and did not go astray, is what the
field of its controller holds, and that a CRD has one controller (`Fields`); and
that the executor of the singleton, or the one a start would create, is none that
was shut down (`Executors`). It gives `ManagersAreUnique`, `StopIsComplete` and
`StartIsComplete`, for histories with any number of starts, also repeated ones
and ones that throw.

**`GenericRetryProofs`.** `RetryInv` relates the counter and the interval to the
delays given so far. That a delay is never shorter than an earlier one rests on
`GrowthIsNoLoss`, that dropping the fraction of a product with a multiplier of at
least 1 loses nothing of the interval. `MaxLong`, the multiplier and the number
of calls are arbitrary. `DelaysHaveClosedForm` is the
closed form of a delay for a whole multiplier. It needs two inductions. One is
over the numbers and shows that the recursive function `Powers` is defined: the
library's induction theorems take an operator as a parameter, which the
installed provers cannot instantiate, so `InductionOnSet` is stated for a set
and rests on the least element of a set of numbers. The other is over the calls,
an inductive invariant like the others: the interval that is kept is the closed
form of the number of delays given (`NextPower`, `CutOnce`: to cut at each step,
at the maximum and at the end of a long, is to cut once).

**Only model-checked:** liveness, which is beyond the prover:
`EveryGenerationIsReconciled`, `DeletionCompletes`,
`ObservedGenerationCatchesUp`, `ReceivedEventIsProcessed`,
`SecondaryChangeIsReconciled` and `LocksAreGivenBack`.

## 7 What is not modelled

* Two operators in one process share the static executor; start and stop that
  overlap race for it (`ExecutorServiceManager.java` 46, `Operator.java` 88).
* Several namespaces, but for the id that is not watched: the informers of
  `ControllerResourceEventSource`, one for each namespace, their start and stop,
  the missing CRD error and label selectors. `EventSourceManager` has the
  controller's event source as one that may refuse to start.
* Which ids `Mappers` reads from labels and annotations: any set of them is a
  target of the model.
* In the loop, event sources of a user, which may throw where the framework's do
  not (their effect on the processor is in `ep_safety` and `ep_refinement`), and an
  executor that another operator has shut down.
* The mark that an event of an id without an informer leaves in the processor,
  when no informer ever watches it.
* How long a delay is, outside of `GenericRetryExecution`: in the loop a retry or
  a reschedule comes some time later.
* A call of the API server that is executed after the operator has been started
  again, and two instances of an operator at the same time.
* Configuration (its values are constants of the modules), annotation
  processing, metrics, the JUnit extension, samples.
* `start` of a stopped processor: `Controller.start` always creates a new one.

## 8 Plan

1. Done: the processor, its refinement and proofs; the loop with finalizers, with
   the observed generation, and without both; restarts of the operator, relists,
   secondary resources; the event source manager, the operator's lifecycle with
   failing and repeated starts, and the delays of a retry, with proofs.
2. Done: proofs of what a step of the processor may do, of the refinement of
   `SerialExecutor`, of the types of the loop, of what the reconciler is given
   over the life of a resource, of what becomes of an event, of what a status
   says of the generations, that none of them is forgotten, and of the closed form
   of the delays. Every
   invariant and every action property of the runs is a theorem.
3. Proofs: that no generation is forgotten without a finalizer in the fallback mode
   of generations, when the informer never lists anew; and what stands behind
   `DeletionCompletes` and `SecondaryChangeIsReconciled` without fairness, in the
   way `NoGenerationIsForgotten` stands behind `EveryGenerationIsReconciled`.
4. Two operators in one process; the informers of several namespaces.
