----------------------- MODULE ControllerLoopEventProofs -----------------------
(***************************************************************************)
(* What becomes of an event in the whole loop.  The informer's store comes *)
(* to be what the server has, as the last change of a resource on its way  *)
(* is the server's.  An update that an execution made is no later than     *)
(* that.  So when the store does not have the update yet, a change is on   *)
(* its way, and the event that waits for it is not lost.                   *)
(***************************************************************************)
EXTENDS ControllerLoopHistoryProofs

\* What the informer's store has of a resource after the change c.
Leaves(c) == IF c.gone THEN None ELSE c.obj

\* The last change of r among the changes w leaves what is there of r, or there
\* is none, and it is known.
LastChange(w, r, i) ==
    w[i].res = r /\ \A j \in 1..Len(w) : w[j].res = r => j <= i
CatchesUp(w, r, known, there) ==
    \/ known = there /\ \A i \in 1..Len(w) : w[i].res # r
    \/ \E i \in 1..Len(w) : LastChange(w, r, i) /\ Leaves(w[i]) = there

\* The last change of a resource on its way leaves what the server has.
CacheCatchesUp == \A r \in Resources : CatchesUp(watch, r, cache[r], store[r])

\* A call is made with a version that is no older than what the task was given,
\* nor than what is taken for the version before it.
CallIsOfTask(c, v) == v.rv <= c.obj.rv /\ c.before.rv <= c.obj.rv

\* An update is of r as the server has it, or had it earlier.
UpdateIsPast(p, r) ==
    p.updated # None =>
        /\ p.before.rv <= p.updated.rv
        /\ p.updated.rv <= resourceVersion
        /\ store[r] # None /\ store[r] # p.updated => p.updated.rv < store[r].rv

AnswersFit ==
    \A t \in Threads :
        /\ call[t] # None => CallIsOfTask(call[t], active[t].version)
        /\ result[t] # None => UpdateIsPast(result[t], active[t].res)

\* The processor is never stopped, and the informer is started and there are
\* resources in the cache only when the timer runs, if it is started first.
TimerIsReady ==
    /\ running
    /\ TimerFirst /\ timerState # "running" =>
          ~informerRunning /\ \A r \in Resources : cache[r] = None
-------------------------------------------------------------------------------
(***************************************************************************)
(* Changes on the server.                                                  *)
(***************************************************************************)
\* The server removes an object, or stores the next version, and sends that.
Changed(c) ==
    /\ c \in Change
    /\ c.obj.rv = resourceVersion + 1
    /\ watch' = Append(watch, c)
    /\ store' = [store EXCEPT ![c.res] = Leaves(c)]
    /\ resourceVersion' = resourceVersion + 1
    /\ UNCHANGED notifications

LEMMA CommitChanges ==
    ASSUME ServerTypeOK, NEW r \in Resources, NEW obj \in CustomResource,
           Commit(r, obj)
    PROVE  \E c : Changed(c) /\ c.res = r /\ c.obj = Stamped(obj)
  <1> DEFINE c == [res |-> r, obj |-> Stamped(obj), gone |-> Removed(obj)]
  <1>1. /\ Stamped(obj) \in CustomResource
        /\ Stamped(obj).rv = resourceVersion + 1
        /\ Removed(obj) \in BOOLEAN
    BY DEF Stamped, Removed, CustomResource, ServerTypeOK
  <1>2. c \in Change
    BY <1>1 DEF Change
  <1>3. Changed(c)
    BY <1>1, <1>2 DEF Commit, Changed, Leaves
  <1> QED
    BY <1>3

LEMMA UsersChange ==
    ASSUME ServerTypeOK, UserAction
    PROVE  \E c : Changed(c)
  <1>1. PICK r \in Resources : \/ UserCreates(r) \/ UserUpdatesSpec(r)
                               \/ UserUpdatesMetadata(r) \/ UserDeletes(r)
                               \/ ForeignFinalizerRemoved(r)
    BY DEF UserAction
  <1>2. CASE UserCreates(r)
    <2>1. PICK foreign \in ForeignFinalizers :
             Commit(r, [rv |-> 0, uid |-> resourceVersion + 1, gen |-> 1,
                        fin |-> FALSE, foreign |-> foreign, del |-> FALSE,
                        ann |-> FALSE, obs |-> 0, err |-> FALSE])
      BY <1>2 DEF UserCreates
    <2> DEFINE obj == [rv |-> 0, uid |-> resourceVersion + 1, gen |-> 1,
                       fin |-> FALSE, foreign |-> foreign, del |-> FALSE,
                       ann |-> FALSE, obs |-> 0, err |-> FALSE]
    <2>2. obj \in CustomResource
      BY ServerAssumption DEF ServerTypeOK, CustomResource
    <2>3. Commit(r, obj)
      BY <2>1
    <2> HIDE DEF obj
    <2> QED
      BY <2>2, <2>3, CommitChanges
  <1>3. CASE store[r] # None
    <2>1. PICK o \in CustomResource : o = store[r]
      BY <1>3 DEF ServerTypeOK
    <2>2. o.gen + 1 \in Nat /\ resourceVersion + 1 \in Nat
      BY DEF CustomResource, ServerTypeOK
    <2>3. /\ [o EXCEPT !.gen = @ + 1] \in CustomResource
          /\ [o EXCEPT !.ann = FALSE] \in CustomResource
          /\ [o EXCEPT !.foreign = FALSE] \in CustomResource
      BY <2>2 DEF CustomResource
    <2>4. [o EXCEPT !.del = TRUE, !.gen = @ + 1] \in CustomResource
      BY <2>2 DEF CustomResource
    <2>5. CASE \/ UserUpdatesSpec(r) \/ UserUpdatesMetadata(r)
               \/ ForeignFinalizerRemoved(r)
      BY <2>1, <2>3, <2>5, CommitChanges
         DEF UserUpdatesSpec, UserUpdatesMetadata, ForeignFinalizerRemoved
    <2>6. CASE UserDeletes(r)
      <3>1. CASE Commit(r, [o EXCEPT !.del = TRUE, !.gen = @ + 1])
        BY <2>4, <3>1, CommitChanges
      <3> DEFINE c == [res |-> r, obj |-> Stamped(o), gone |-> TRUE]
      <3>2. CASE /\ resourceVersion' = resourceVersion + 1
                 /\ store' = [store EXCEPT ![r] = None]
                 /\ watch' = Append(watch, c)
                 /\ UNCHANGED notifications
        <4>1. Stamped(o) \in CustomResource /\ Stamped(o).rv = resourceVersion + 1
          BY <2>2 DEF Stamped, CustomResource
        <4>2. c \in Change
          BY <4>1 DEF Change
        <4>3. Changed(c)
          BY <3>2, <4>1, <4>2 DEF Changed, Leaves
        <4> QED
          BY <4>3
      <3> QED
        BY <2>1, <2>6, <3>1, <3>2 DEF UserDeletes
    <2> QED
      BY <1>1, <1>3, <2>5, <2>6 DEF UserCreates
  <1> QED
    BY <1>1, <1>2, <1>3 DEF UserCreates, UserUpdatesSpec, UserUpdatesMetadata,
                            UserDeletes, ForeignFinalizerRemoved

\* The version the server has is one that it has given.
LEMMA StoredVersions ==
    ASSUME LoopTypeOK, HistoryInv, NEW r \in Resources, store[r] # None
    PROVE  store[r] \in CustomResource /\ store[r].rv <= resourceVersion
  BY DEF LoopTypeOK, ServerTypeOK, HistoryInv, StatesFit, States,
         NewerThanTasks, NewerThanCache, FitsHistory

\* A change leaves the updates of earlier executions in the past.
LEMMA ChangeKeepsUpdates ==
    ASSUME LoopTypeOK, HistoryInv,
           (\E c : Changed(c)) \/ UNCHANGED <<store, resourceVersion>>,
           NEW p \in PostExecutionControl, VersionsAreResources,
           NEW r \in Resources, UpdateIsPast(p, r)
    PROVE  UpdateIsPast(p, r)'
  <1>1. CASE UNCHANGED <<store, resourceVersion>>
    BY <1>1 DEF UpdateIsPast
  <1>2. ASSUME NEW c, Changed(c), p.updated # None
        PROVE  UpdateIsPast(p, r)'
    <2>1. /\ p.updated \in CustomResource /\ p.before \in CustomResource
          /\ resourceVersion \in Nat
      BY <1>2 DEF PostExecutionControl, VersionsAreResources, LoopTypeOK,
                  ServerTypeOK
    <2>2. p.updated.rv \in Nat
      BY <2>1 DEF CustomResource
    <2>3. \/ store'[r] = store[r] \/ store'[r] = None
          \/ store'[r].rv = resourceVersion + 1
      BY <1>2 DEF Changed, Leaves, LoopTypeOK, ServerTypeOK
    <2>4. resourceVersion' = resourceVersion + 1
      BY <1>2 DEF Changed
    <2> QED
      BY <1>2, <2>1, <2>2, <2>3, <2>4 DEF UpdateIsPast
  <1> QED
    BY <1>1, <1>2 DEF UpdateIsPast
-------------------------------------------------------------------------------
(***************************************************************************)
(* The dispatcher.                                                         *)
(***************************************************************************)
\* handleExecution returns without an update, or calls with what it was given.
Answers(t) ==
    /\ active' = active
    /\ \/ \E p : /\ result' = [result EXCEPT ![t] = p] /\ p.updated = None
                 /\ call' = [call EXCEPT ![t] = None]
       \/ \E c : /\ result' = result
                 /\ call' = [call EXCEPT ![t] = c]
                 /\ active[t].version.rv <= c.obj.rv
                 /\ c.before = active[t].version

LEMMA ReturnsAnswer ==
    ASSUME NEW t \in Threads, NEW d,
           \/ Returns(t, DefaultDispatch(t))
           \/ Returns(t, ExceptionDuringExecution(t))
           \/ Returns(t, DispatchedWithReschedule(t, d))
    PROVE  Answers(t)
  <1>1. /\ DispatchedWithReschedule(t, d).updated = None
        /\ DefaultDispatch(t).updated = None
        /\ ExceptionDuringExecution(t).updated = None
    BY DEF DispatchedWithReschedule, DefaultDispatch, ExceptionDuringExecution
  <1> QED
    BY <1>1 DEF Answers, Returns, HandleExecution

LEMMA CallsAnswer ==
    ASSUME NEW t \in Threads, NEW op, NEW obj, NEW d, Calls(t, op, obj, d),
           active[t].version.rv <= obj.rv
    PROVE  Answers(t)
  <1> DEFINE c == [op |-> op, obj |-> obj, reschedule |-> d,
                   before |-> Snapshot(t)]
  <1>1. /\ active[t].version.rv <= c.obj.rv /\ c.before = active[t].version
        /\ result' = result /\ call' = [call EXCEPT ![t] = c]
        /\ active' = active
    BY DEF Calls, Snapshot, epVars, taskVars
  <1> HIDE DEF c
  <1> QED
    BY <1>1 DEF Answers

\* What is sent has the version that the task was given.
LEMMA SentVersions ==
    ASSUME NEW obj \in CustomResource
    PROVE  /\ obj.rv <= obj.rv
           /\ [obj EXCEPT !.fin = TRUE].rv = obj.rv
           /\ [obj EXCEPT !.fin = FALSE].rv = obj.rv
           /\ [obj EXCEPT !.ann = TRUE].rv = obj.rv
           /\ ErrorStatus(obj).rv = obj.rv
           /\ StatusOf(obj).rv = obj.rv
  BY DEF CustomResource, ErrorStatus, StatusOf

LEMMA ReconcileFailsAnswers ==
    ASSUME LoopTypeOK, VersionsAreResources, NEW t \in Threads,
           active[t] # None, NEW original \in CustomResource,
           ReconcileFails(t, original), active[t].version.rv <= original.rv
    PROVE  Answers(t)
  BY SentVersions, ReturnsAnswer, CallsAnswer DEF ReconcileFails

LEMMA DispatchAnswers ==
    ASSUME LoopTypeOK, VersionsAreResources, NEW t \in Threads, Dispatch(t)
    PROVE  Answers(t)
  <1>1. /\ active[t] # None /\ Snapshot(t) \in CustomResource
    BY SnapshotType DEF Dispatch, SkipsCleanup, AddsFinalizer, Reconciles,
                        IsReconciled, CleansUp, IsDispatched, LoopTypeOK
  <1>2. CASE SkipsCleanup(t)
    BY <1>2, ReturnsAnswer DEF SkipsCleanup
  <1>3. CASE AddsFinalizer(t)
    BY <1>1, <1>3, SentVersions, CallsAnswer DEF AddsFinalizer, Snapshot
  <1>4. ASSUME NEW outcome, NEW d, ReconcileReturns(t, outcome, d)
        PROVE  Answers(t)
    <2>1. PICK obj \in CustomResource : obj = Snapshot(t)
      BY <1>1
    <2>2. \/ Calls(t, "updateStatus", StatusOf(obj), d)
          \/ Calls(t, "observeGeneration", StatusOf(obj), d)
          \/ Returns(t, DispatchedWithReschedule(t, d))
          \/ Calls(t, outcome, [obj EXCEPT !.ann = TRUE], d)
      BY <1>4, <2>1 DEF ReconcileReturns
    <2> QED
      BY <2>1, <2>2, SentVersions, ReturnsAnswer, CallsAnswer DEF Snapshot
  <1>5. CASE Reconciles(t)
    BY <1>1, <1>4, <1>5, SentVersions, ReconcileFailsAnswers
       DEF Reconciles, Snapshot
  <1>6. CASE CleansUp(t)
    BY <1>1, <1>6, SentVersions, ReturnsAnswer, CallsAnswer
       DEF CleansUp, CleanupReturns, Snapshot
  <1> QED
    BY <1>2, <1>3, <1>5, <1>6 DEF Dispatch

\* The call has been executed: it has led to the update, or to the next call.
Updates(t) ==
    /\ active' = active
    /\ \E u \in CustomResource :
           /\ call[t].obj.rv <= u.rv /\ u.rv <= resourceVersion'
           /\ store'[active[t].res] # None => store'[active[t].res] = u
           /\ \/ \E p : /\ result' = [result EXCEPT ![t] = p]
                        /\ p.updated = u /\ p.before = call[t].before
                        /\ call' = [call EXCEPT ![t] = None]
              \/ \E c : /\ result' = result
                        /\ call' = [call EXCEPT ![t] = c]
                        /\ c.obj.rv = u.rv
                        /\ c.before \in {active[t].version, u}

\* What the server answers.
LEMMA AnswersOfTheServer ==
    ASSUME VersionsAreResources, LoopInv, HistoryInv, NEW t \in Threads,
           ServerAnswers(t)
    PROVE  /\ (\E c : Changed(c)) \/ UNCHANGED serverVars
           /\ AnswersFit => Answers(t) \/ Updates(t)
  <1> DEFINE r == active[t].res
  <1>1. /\ LoopTypeOK /\ EPTypeOK /\ ServerTypeOK
        /\ active[t] # None /\ call[t] # None
        /\ r \in Resources
        /\ Snapshot(t) \in CustomResource
    BY SnapshotType DEF LoopInv, LoopTypeOK, CallOfTask, ServerAnswers
  <1>2. /\ call[t].obj \in CustomResource
    BY <1>1 DEF LoopTypeOK, DispatcherTypeOK, ApiCall
  <1>3. ASSUME CallThrows(t), AnswersFit
        PROVE  Answers(t)
    <2>1. PICK o \in CustomResource : o = Original(t)
      BY <1>1, <1>2 DEF Original
    <2>2. active[t].version.rv <= o.rv
      BY <1>1, <1>3, <2>1, SentVersions
         DEF Original, AnswersFit, CallIsOfTask, Snapshot
    <2> QED
      BY <1>1, <1>3, <2>1, <2>2, ReturnsAnswer, ReconcileFailsAnswers
         DEF CallThrows
  <1>4. CASE CallRefused(t)
    BY <1>4, <1>3 DEF CallRefused
  <1>5. CASE CallExecuted(t)
    <2> DEFINE new == IF call[t].op \in StatusOps
                        THEN PutStatus(r, call[t].obj)
                        ELSE PutResource(r, call[t].obj)
    <2>1. /\ store[r] \in CustomResource /\ store[r] # None
          /\ store[r].rv = call[t].obj.rv
          /\ store[r].rv <= resourceVersion
      BY <1>1, <1>5, StoredVersions DEF CallExecuted, IsCurrent
    <2>2. new \in CustomResource
      BY <1>2, <2>1 DEF PutStatus, PutResource, CustomResource
    <2>3. Write(r, new)
      BY <1>5 DEF CallExecuted, StatusOps
    <2>4. PICK u : u = Written(r, new)
      OBVIOUS
    <2>5. \/ CallThrows(t)
          \/ Returns(t, DefaultDispatch(t))
          \/ Returns(t, ExceptionDuringExecution(t))
          \/ UpdatesStatusNext(t, u)
          \/ Returns(t, CustomResourceUpdated(t, u))
      BY <1>5, <2>4 DEF CallExecuted, StatusOps
    <2> HIDE DEF r, new
    <2>6. /\ u \in CustomResource
          /\ call[t].obj.rv <= u.rv /\ u.rv <= resourceVersion'
          /\ store'[r] # None => store'[r] = u
          /\ (\E c : Changed(c)) \/ UNCHANGED serverVars
      <3>1. CASE new = store[r]
        BY <1>2, <2>1, <2>3, <2>4, <3>1
           DEF Write, Written, serverVars, CustomResource
      <3>2. CASE new # store[r]
        <4>1. Commit(r, new) /\ u = Stamped(new)
          BY <2>3, <2>4, <3>2 DEF Write, Written
        <4>2. PICK c : Changed(c) /\ c.res = r /\ c.obj = u
          BY <1>1, <2>2, <4>1, CommitChanges
        <4>3. /\ u \in CustomResource /\ u.rv = resourceVersion + 1
              /\ resourceVersion' = resourceVersion + 1
              /\ store'[r] \in {None, u}
          BY <1>1, <4>2 DEF Changed, Change, Leaves, ServerTypeOK
        <4>4. /\ resourceVersion \in Nat /\ call[t].obj.rv \in Nat
          BY <1>1, <1>2 DEF ServerTypeOK, CustomResource
        <4> QED
          BY <2>1, <4>2, <4>3, <4>4
      <3> QED
        BY <3>1, <3>2
    <2>7. CASE UpdatesStatusNext(t, u)
      <3>1. PICK o \in CustomResource : o = [call[t].obj EXCEPT !.rv = u.rv]
        BY <1>2, <2>6 DEF CustomResource
      <3>2. StatusOf(o).rv = u.rv
        BY <1>2, <2>6, <3>1 DEF StatusOf, CustomResource
      <3> DEFINE c == [op |-> "updateStatus", obj |-> StatusOf(o),
                       reschedule |-> call[t].reschedule,
                       before |-> IF IsCloned(t) THEN Snapshot(t) ELSE u]
      <3>3. /\ c.obj.rv = u.rv /\ c.before \in {active[t].version, u}
            /\ result' = result /\ call' = [call EXCEPT ![t] = c]
            /\ active' = active
        BY <2>7, <3>1, <3>2 DEF UpdatesStatusNext, Snapshot, epVars, taskVars
      <3> HIDE DEF c
      <3> QED
        BY <2>6, <3>3 DEF Updates, r
    <2>8. CASE Returns(t, CustomResourceUpdated(t, u))
      <3>1. /\ CustomResourceUpdated(t, u).updated = u
            /\ CustomResourceUpdated(t, u).before = call[t].before
        BY DEF CustomResourceUpdated, DispatchedWithReschedule
      <3>2. PICK p : p = CustomResourceUpdated(t, u)
        OBVIOUS
      <3> QED
        BY <2>6, <2>8, <3>1, <3>2 DEF Updates, Returns, HandleExecution, r
    <2> QED
      BY <1>3, <2>5, <2>6, <2>7, <2>8, ReturnsAnswer
  <1> QED
    BY <1>4, <1>5 DEF ServerAnswers
-------------------------------------------------------------------------------
(***************************************************************************)
(* AnswersFit is invariant.                                                *)
(***************************************************************************)
\* It is kept where calls and results are as they were, or are over.
LEMMA AnswersPass ==
    ASSUME VersionsAreResources, LoopTypeOK, HistoryInv, AnswersFit, Tasks,
           (\E c : Changed(c)) \/ UNCHANGED <<store, resourceVersion>>,
           NEW S \in SUBSET Threads,
           \A t \in S :
              /\ call'[t] # None => call'[t] = call[t] /\ active'[t] = active[t]
              /\ result'[t] # None =>
                    result'[t] = result[t] /\ active'[t] = active[t]
    PROVE  \A t \in S :
              /\ call'[t] # None => CallIsOfTask(call[t], active[t].version)'
              /\ result'[t] # None => UpdateIsPast(result[t], active[t].res)'
  <1> SUFFICES ASSUME NEW t \in S
               PROVE  /\ call'[t] # None =>
                            CallIsOfTask(call'[t], active'[t].version)
                      /\ result'[t] # None =>
                            UpdateIsPast(result[t], active[t].res)'
    BY DEF CallIsOfTask
  <1>1. call'[t] # None => CallIsOfTask(call'[t], active'[t].version)
    BY DEF AnswersFit
  <1>2. ASSUME result'[t] # None PROVE UpdateIsPast(result[t], active[t].res)'
    <2>1. result'[t] = result[t] /\ active'[t] = active[t] /\ result[t] # None
      BY <1>2
    <2>2. /\ result[t] \in PostExecutionControl /\ active[t].res \in Resources
          /\ UpdateIsPast(result[t], active[t].res)
      BY <2>1 DEF AnswersFit, LoopTypeOK, EPTypeOK, Tasks, ResultOfTask,
                  ExecutionScope
    <2>3. PICK p \in PostExecutionControl, r \in Resources :
             p = result[t] /\ r = active[t].res
      BY <2>2
    <2>4. UpdateIsPast(p, r)'
      BY <2>2, <2>3, ChangeKeepsUpdates
    <2> QED
      BY <2>1, <2>3, <2>4 DEF UpdateIsPast
  <1> QED
    BY <1>1, <1>2

LEMMA DispatcherKeepsAnswers ==
    ASSUME VersionsAreResources, LoopInv, HistoryInv, AnswersFit,
           NEW t \in Threads, Dispatches(t) \/ ApiCallEnds(t)
    PROVE  AnswersFit'
  <1>1. /\ LoopTypeOK /\ Tasks /\ active[t] # None /\ result[t] = None
        /\ call \in [Threads -> ApiCall \cup {None}]
        /\ result \in [Threads -> PostExecutionControl \cup {None}]
    BY DEF LoopInv, LoopTypeOK, DispatcherTypeOK, EPTypeOK, TasksInv, CallOfTask,
           Dispatches, Dispatch, SkipsCleanup, AddsFinalizer, Reconciles,
           IsReconciled, CleansUp, IsDispatched, ApiCallEnds, ServerAnswers
  <1>2. /\ (\E c : Changed(c)) \/ UNCHANGED <<store, resourceVersion>>
        /\ Answers(t) \/ (call[t] # None /\ Updates(t))
    BY <1>1, DispatchAnswers, AnswersOfTheServer
       DEF Dispatches, Dispatch, ApiCallEnds, ServerAnswers, serverVars
  <1>3. /\ active[t].version \in CustomResource
        /\ call[t] # None => call[t] \in ApiCall
    BY <1>1, SnapshotType DEF LoopTypeOK, Snapshot
  <1>4. \A s \in Threads \ {t} :
           /\ call'[s] # None => call'[s] = call[s] /\ active'[s] = active[s]
           /\ result'[s] # None =>
                 result'[s] = result[s] /\ active'[s] = active[s]
    BY <1>1, <1>2 DEF Answers, Updates
  <1>5. \A s \in Threads \ {t} :
           /\ call'[s] # None => CallIsOfTask(call[s], active[s].version)'
           /\ result'[s] # None => UpdateIsPast(result[s], active[s].res)'
    BY <1>1, <1>2, <1>4, AnswersPass
  <1>6. CASE Answers(t)
    <2>1. active[t].version.rv <= active[t].version.rv
      BY <1>3 DEF CustomResource
    <2> QED
      BY <1>1, <1>5, <1>6, <2>1 DEF Answers, AnswersFit, CallIsOfTask, UpdateIsPast
  <1>7. CASE call[t] # None /\ Updates(t)
    <2>1. /\ CallIsOfTask(call[t], active[t].version)
          /\ call[t].obj.rv \in Nat /\ call[t].before.rv \in Nat
          /\ active[t].version.rv \in Nat
      BY <1>3, <1>7 DEF AnswersFit, ApiCall, CustomResource
    <2>2. PICK u \in CustomResource :
             /\ call[t].obj.rv <= u.rv /\ u.rv <= resourceVersion'
             /\ store'[active[t].res] # None => store'[active[t].res] = u
             /\ \/ \E p : /\ result' = [result EXCEPT ![t] = p]
                          /\ p.updated = u /\ p.before = call[t].before
                          /\ call' = [call EXCEPT ![t] = None]
                \/ \E c : /\ result' = result
                          /\ call' = [call EXCEPT ![t] = c]
                          /\ c.obj.rv = u.rv
                          /\ c.before \in {active[t].version, u}
      BY <1>7 DEF Updates
    <2>3. u.rv \in Nat /\ active'[t] = active[t]
      BY <1>7 DEF CustomResource, Updates
    <2>4. /\ call'[t] # None => CallIsOfTask(call'[t], active[t].version)
          /\ result'[t] # None => UpdateIsPast(result[t], active[t].res)'
      BY <1>1, <2>1, <2>2, <2>3 DEF CallIsOfTask, UpdateIsPast
    <2> QED
      BY <1>5, <2>3, <2>4 DEF AnswersFit, CallIsOfTask
  <1> QED
    BY <1>2, <1>6, <1>7

LEMMA LoopKeepsAnswers ==
    ASSUME VersionsAreResources, LoopInv, HistoryInv, AnswersFit,
           [LoopNext]_vars
    PROVE  AnswersFit'
  <1>1. /\ LoopTypeOK /\ EPTypeOK /\ ServerTypeOK /\ CallOfTask /\ Tasks
    BY DEF LoopInv, LoopTypeOK, TasksInv
  <1>2. ASSUME (\E c : Changed(c)) \/ UNCHANGED <<store, resourceVersion>>,
               UNCHANGED <<active, result, call>>
        PROVE  AnswersFit'
    BY <1>1, <1>2, AnswersPass DEF AnswersFit
  <1>3. CASE OperatorRestarts
    BY <1>3 DEF OperatorRestarts, AnswersFit
  <1>4. CASE Users
    BY <1>1, <1>2, <1>4, UsersChange
       DEF Users, epVars, taskVars, otherThanDelivery, dispatcherVars
  <1>5. ASSUME NEW t \in Threads, Starts(t) \/ Finishes(t) \/ Postpones(t)
        PROVE  AnswersFit'
    <2>1. /\ UNCHANGED <<call, store, resourceVersion>>
          /\ call[t] = None
          /\ \A s \in Threads : s # t =>
                active'[s] = active[s] /\ result'[s] = result[s]
          /\ result'[t] # None => result'[t] = result[t] /\ active'[t] = active[t]
      <3>1. CASE Starts(t)
        BY <1>1, <3>1 DEF Starts, StartExecution, CallOfTask, EPTypeOK, Tasks,
             ResultOfTask, otherThanProcessor, otherThanDelivery,
             dispatcherVars, serverVars
      <3>2. CASE Finishes(t)
        BY <1>1, <3>2
           DEF Finishes, EventProcessingFinished, HandleRetryOnException,
               FinishWithoutRetry, ThreadDone, CallOfTask, EPTypeOK,
               otherThanProcessor, otherThanDelivery, dispatcherVars, serverVars
      <3>3. CASE Postpones(t)
        BY <1>1, <3>3, NoneAssumption
           DEF Postpones, PostponeReconciliation, ThreadDone, CallOfTask, EPTypeOK,
               Tasks, PostponedUnmarked, otherThanProcessor, otherThanDelivery,
               dispatcherVars, serverVars
      <3> QED
        BY <1>5, <3>1, <3>2, <3>3
    <2> QED
      BY <1>1, <2>1, AnswersPass DEF AnswersFit
  <1>6. ASSUME NEW r \in Resources, NEW action, HandleEvent(r, action),
               UNCHANGED <<call, store, resourceVersion>>
        PROVE  AnswersFit'
    BY <1>2, <1>6 DEF HandleEvent
  <1>7. CASE DeliverEvent \/ SecondaryEvent \/ \E r \in Resources : TimerDelivers(r)
    <2>1. CASE DeliverEvent
      BY <1>1, <1>6, <2>1 DEF DeliverEvent, EventReceived, LoopTypeOK,
           otherThanDelivery, dispatcherVars, serverVars
    <2>2. CASE SecondaryEvent
      BY <1>2, <1>6, <2>2 DEF SecondaryEvent, EventReceived, dispatcherVars,
           serverVars, epVars, taskVars
    <2>3. CASE \E r \in Resources : TimerDelivers(r)
      BY <1>6, <2>3 DEF TimerDelivers, TimerEventReceived, otherThanProcessor,
           otherThanDelivery, dispatcherVars, serverVars
    <2> QED
      BY <1>7, <2>1, <2>2, <2>3
  <1>8. CASE \/ ControllerSourceStarts
             \/ InformerStores \/ InformerRelists \/ FilterNotification
             \/ SecondaryUser \/ SecondaryStores \/ SecondaryPropagates
             \/ TimerStarts \/ \E r \in Resources : TimerRuns(r)
             \/ UNCHANGED vars
    BY <1>2, <1>8
       DEF ControllerSourceStarts, InformerStores, InformerRelists,
           FilterNotification, SecondaryUser, SecondaryStores,
           SecondaryPropagates, TimerStarts, TimerRuns, TimerFires,
           otherThanTimer, otherThanInformer,
           otherThanDelivery, otherThanProcessor, dispatcherVars, taskVars,
           serverVars, epVars, vars
  <1> QED
    BY <1>3, <1>4, <1>5, <1>7, <1>8, DispatcherKeepsAnswers DEF LoopNext
-------------------------------------------------------------------------------
(***************************************************************************)
(* The informer catches up with the server.                                *)
(***************************************************************************)
LEMMA ChangeIsOnItsWay ==
    ASSUME LoopTypeOK, CacheCatchesUp, NEW c, Changed(c), UNCHANGED cache
    PROVE  CacheCatchesUp'
  <1> DEFINE n == Len(watch)
  <1>1. /\ n \in Nat
        /\ Len(watch') = n + 1
        /\ \A i \in 1..n : watch'[i] = watch[i]
        /\ watch'[n + 1] = c
    BY AppendProperties, LenProperties DEF Changed, LoopTypeOK, ServerTypeOK
  <1>2. /\ c.res \in Resources
        /\ store'[c.res] = Leaves(c)
        /\ \A x \in Resources : x # c.res => store'[x] = store[x]
    BY DEF Changed, Change, LoopTypeOK, ServerTypeOK
  <1> HIDE DEF n
  <1> SUFFICES ASSUME NEW r \in Resources
               PROVE  CatchesUp(watch', r, cache[r], store'[r])
    BY DEF CacheCatchesUp
  <1>3. CASE r = c.res
    <2>1. /\ n + 1 \in 1..Len(watch')
          /\ LastChange(watch', r, n + 1)
          /\ Leaves(watch'[n + 1]) = store'[r]
      BY <1>1, <1>2, <1>3 DEF LastChange
    <2> QED
      BY <2>1 DEF CatchesUp
  <1>4. CASE r # c.res
    <2>1. CASE cache[r] = store[r] /\ \A i \in 1..n : watch[i].res # r
      <3>1. \A i \in 1..Len(watch') : watch'[i].res # r
        BY <1>1, <1>4, <2>1
      <3> QED
        BY <1>2, <1>4, <2>1, <3>1 DEF CatchesUp
    <2>2. ASSUME NEW i \in 1..n, LastChange(watch, r, i),
                 Leaves(watch[i]) = store[r]
          PROVE  CatchesUp(watch', r, cache[r], store'[r])
      <3>1. i \in 1..Len(watch') /\ watch'[i] = watch[i]
        BY <1>1
      <3>2. LastChange(watch', r, i)
        BY <1>1, <1>4, <2>2, <3>1 DEF LastChange, n
      <3> QED
        BY <1>2, <1>4, <2>2, <3>1, <3>2 DEF CatchesUp
    <2> QED
      BY <2>1, <2>2 DEF CacheCatchesUp, CatchesUp, n
  <1> QED
    BY <1>3, <1>4

LEMMA InformerStoresCatchesUp ==
    ASSUME LoopTypeOK, CacheCatchesUp, InformerStores
    PROVE  CacheCatchesUp'
  <1>1. PICK c \in Change : c = watch[1] /\ c = Head(watch)
    BY TakenFromQueue DEF InformerStores, LoopTypeOK, ServerTypeOK
  <1>2. /\ Len(watch) \in Nat /\ 1 \in 1..Len(watch)
        /\ Len(watch') = Len(watch) - 1
        /\ \A i \in 1..Len(watch') :
              i + 1 \in 1..Len(watch) /\ watch'[i] = watch[i + 1]
    BY TakenFromQueue, LenProperties DEF InformerStores, LoopTypeOK, ServerTypeOK
  <1>3. /\ c.res \in Resources
        /\ cache'[c.res] = Leaves(c)
        /\ \A x \in Resources : x # c.res => cache'[x] = cache[x]
        /\ store' = store
    BY <1>1 DEF InformerStores, Change, Leaves, LoopTypeOK, EPTypeOK
  <1> SUFFICES ASSUME NEW r \in Resources
               PROVE  CatchesUp(watch', r, cache'[r], store[r])
    BY <1>3 DEF CacheCatchesUp
  <1>4. CASE cache[r] = store[r] /\ \A i \in 1..Len(watch) : watch[i].res # r
    <2>1. r # c.res /\ \A i \in 1..Len(watch') : watch'[i].res # r
      BY <1>1, <1>2, <1>4
    <2> QED
      BY <1>3, <1>4, <2>1 DEF CatchesUp
  <1>5. ASSUME NEW i \in 1..Len(watch), LastChange(watch, r, i),
               Leaves(watch[i]) = store[r]
        PROVE  CatchesUp(watch', r, cache'[r], store[r])
    <2>1. CASE i = 1
      <3>1. cache'[r] = store[r]
        BY <1>1, <1>3, <1>5, <2>1 DEF LastChange
      <3>2. ASSUME NEW j \in 1..Len(watch'), watch'[j].res = r
            PROVE  FALSE
        <4>1. j + 1 <= 1
          BY <1>2, <1>5, <2>1, <3>2 DEF LastChange
        <4> QED
          BY <4>1
      <3> QED
        BY <3>1, <3>2 DEF CatchesUp
    <2>2. CASE i # 1
      <3>1. i - 1 \in 1..Len(watch') /\ i - 1 + 1 = i
        BY <1>2, <2>2
      <3>2. watch'[i - 1] = watch[i]
        BY <1>2, <3>1
      <3>3. ASSUME NEW j \in 1..Len(watch'), watch'[j].res = r
            PROVE  j <= i - 1
        <4>1. j + 1 <= i
          BY <1>2, <1>5, <3>3 DEF LastChange
        <4> QED
          BY <4>1
      <3>4. LastChange(watch', r, i - 1)
        BY <1>5, <3>2, <3>3 DEF LastChange
      <3> QED
        BY <1>5, <3>1, <3>2, <3>4 DEF CatchesUp
    <2> QED
      BY <2>1, <2>2
  <1> QED
    BY <1>4, <1>5 DEF CacheCatchesUp, CatchesUp

\* The informer lists, when it starts or later.
InformerLists == InformerRelists \/ ControllerSourceStarts

LEMMA InformerListsCatchesUp ==
    ASSUME VersionsAreResources, LoopTypeOK, CacheCatchesUp, InformerLists
    PROVE  CacheCatchesUp'
  <1>1. UNCHANGED <<cache, store>>
    BY DEF InformerLists, InformerRelists, ControllerSourceStarts, epVars
  <1>2. /\ ServerTypeOK /\ cache \in [Resources -> CustomResource \cup {None}]
        /\ watch' \in Relists(cache)
    BY DEF LoopTypeOK, EPTypeOK, VersionsAreResources, InformerLists,
           InformerRelists, ControllerSourceStarts
  <1>3. /\ Len(watch') \in Nat
        /\ \A i \in 1..Len(watch') : \E j \in 1..Len(watch) :
              watch'[i].res = watch[j].res
        /\ \A i, j \in 1..Len(watch') : watch'[i].res = watch'[j].res => i = j
    <2>1. watch' \in Seq(Change)
      BY <1>2, RelistKeepsChanges
    <2>2. ASSUME NEW i \in 1..Len(watch')
          PROVE  \E j \in 1..Len(watch) : watch'[i].res = watch[j].res
      BY <1>2, RelistKeepsChanges
    <2>3. \A i, j \in 1..Len(watch') : watch'[i].res = watch'[j].res => i = j
      BY <1>2, RelistKeepsChanges
    <2> QED
      BY <2>1, <2>2, <2>3, LenProperties
  <1>4. ASSUME NEW j \in 1..Len(watch), LastChange(watch, watch[j].res, j)
        PROVE  \/ watch[j].gone /\ cache[watch[j].res] = None
               \/ \E i \in 1..Len(watch') :
                     /\ watch'[i].res = watch[j].res
                     /\ Leaves(watch'[i]) = Leaves(watch[j])
    BY <1>2, <1>4, RelistKeepsChanges DEF LastChange, Leaves
  <1>5. ASSUME NEW i \in 1..Len(watch')
        PROVE  \E j \in 1..Len(watch) :
                  /\ watch'[i].res = watch[j].res
                  /\ LastChange(watch, watch[j].res, j)
                  /\ ~(watch[j].gone /\ cache[watch[j].res] = None)
    BY <1>2, RelistKeepsChanges DEF LastChange
  <1> SUFFICES ASSUME NEW r \in Resources
               PROVE  CatchesUp(watch', r, cache[r], store[r])
    BY <1>1 DEF CacheCatchesUp
  <1>6. CASE cache[r] = store[r] /\ \A i \in 1..Len(watch) : watch[i].res # r
    BY <1>3, <1>6 DEF CatchesUp
  <1>7. ASSUME NEW j \in 1..Len(watch), LastChange(watch, r, j),
               Leaves(watch[j]) = store[r]
        PROVE  CatchesUp(watch', r, cache[r], store[r])
    <2>1. watch[j].res = r
      BY <1>7 DEF LastChange
    <2>2. ASSUME NEW i \in 1..Len(watch'), watch'[i].res = r,
                 Leaves(watch'[i]) = Leaves(watch[j])
          PROVE  CatchesUp(watch', r, cache[r], store[r])
      <3>1. LastChange(watch', r, i)
        BY <1>3, <2>2 DEF LastChange
      <3> QED
        BY <1>7, <2>2, <3>1 DEF CatchesUp
    <2>3. CASE watch[j].gone /\ cache[r] = None
      <3>1. ASSUME NEW i \in 1..Len(watch'), watch'[i].res = r
            PROVE  FALSE
        <4>1. PICK k \in 1..Len(watch) :
                 /\ watch'[i].res = watch[k].res
                 /\ LastChange(watch, watch[k].res, k)
                 /\ ~(watch[k].gone /\ cache[watch[k].res] = None)
          BY <1>5
        <4>2. k = j
          BY <1>7, <3>1, <4>1 DEF LastChange
        <4> QED
          BY <2>1, <2>3, <4>1, <4>2
      <3> QED
        BY <1>7, <2>3, <3>1 DEF CatchesUp, Leaves
    <2> QED
      BY <1>4, <1>7, <2>1, <2>2, <2>3
  <1> QED
    BY <1>6, <1>7 DEF CacheCatchesUp, CatchesUp

LEMMA RestartCatchesUp ==
    ASSUME ServerTypeOK, OperatorRestarts
    PROVE  CacheCatchesUp'
  <1>1. /\ watch' \in InitialLists /\ store' = store
        /\ \A r \in Resources : cache'[r] = None
    BY DEF OperatorRestarts
  <1>2. /\ \A i \in 1..Len(watch') : /\ store[watch'[i].res] # None
                                     /\ watch'[i].obj = store[watch'[i].res]
                                     /\ ~watch'[i].gone
        /\ \A i, j \in 1..Len(watch') : watch'[i].res = watch'[j].res => i = j
        /\ \A r \in Resources : store[r] # None =>
              \E i \in 1..Len(watch') : watch'[i].res = r
        /\ Len(watch') \in Nat
    BY <1>1, FirstListIsOfTheStore, LenProperties
  <1> SUFFICES ASSUME NEW r \in Resources
               PROVE  CatchesUp(watch', r, None, store[r])
    BY <1>1 DEF CacheCatchesUp
  <1>3. CASE store[r] = None
    BY <1>2, <1>3 DEF CatchesUp
  <1>4. CASE store[r] # None
    <2>1. PICK i \in 1..Len(watch') : watch'[i].res = r
      BY <1>2, <1>4
    <2>2. LastChange(watch', r, i) /\ Leaves(watch'[i]) = store[r]
      BY <1>2, <2>1 DEF LastChange, Leaves
    <2> QED
      BY <2>2 DEF CatchesUp
  <1> QED
    BY <1>3, <1>4

\* No handler throws in the timer's thread, as no cleanup does and no execution
\* is rejected: the timer goes on.
LEMMA TimerGoesOn ==
    ASSUME EPTypeOK, NEW r \in Resources, TimerEventReceived(r)
    PROVE  UNCHANGED timerState
  <1>1. HandleEvent(r, "TIMER")
    BY DEF TimerEventReceived
  <1>2. AcceptsEvents => ~DeleteEventPresent(eventingState', r)
    BY <1>1, OwnSourcesAssumption
       DEF HandleEvent, CleanupForDeletedEvent, CleanupMarker, EPTypeOK,
           MarkEventReceived, MarkDeleteEventReceived, UnMarkEventReceived,
           SubmitReconciliationExecution, SkipExecution, DeleteEventPresent
  <1>3. r \in underProcessing' \ underProcessing => queue' # queue
    <2> SUFFICES ASSUME r \notin underProcessing, r \in underProcessing'
                 PROVE  queue' # queue
      OBVIOUS
    <2>1. MaySubmit(r, underProcessing)
          /\ SubmitReconciliationExecution(r, underProcessing,
                 MarkEventReceived(eventingState, r), retryState)
      BY <1>1 DEF HandleEvent, SubmitReconciliationExecution, SkipExecution
    <2> DEFINE scope == [res |-> r, version |-> cache[r], retry |-> retryState[r]]
    <2>2. queue' = Append(queue, scope)
      BY <2>1, OwnSourcesAssumption DEF SubmitReconciliationExecution
    <2>3. queue \in Seq(ExecutionScope) /\ scope \in ExecutionScope
      BY <2>1 DEF EPTypeOK, MaySubmit, ExecutionScope
    <2>4. Len(queue') = Len(queue) + 1 /\ Len(queue) \in Nat
      <3> HIDE DEF scope
      <3> QED
        BY <2>2, <2>3, AppendProperties, LenProperties
    <2> QED
      BY <2>4
  <1> QED
    BY <1>2, <1>3 DEF TimerEventReceived, HandlerThrew

\* The processor does not change the informer's store, nor does it start it.
LEMMA CacheOfTheLoop ==
    ASSUME VersionsAreResources, LoopInv, [LoopNext]_vars,
           ~InformerStores, ~OperatorRestarts
    PROVE  UNCHANGED <<cache, running>>
           /\ (UNCHANGED timerState \/ timerState' = "running")
  <1>1. LoopTypeOK
    BY DEF LoopInv
  <1>2. ASSUME NEW r \in Resources, NEW action, HandleEvent(r, action)
        PROVE  UNCHANGED <<cache, running>>
    BY <1>2 DEF HandleEvent
  <1>3. CASE \/ Users \/ InformerRelists \/ ControllerSourceStarts
             \/ SecondaryUser \/ SecondaryStores \/ SecondaryPropagates
             \/ UNCHANGED vars
    BY <1>3 DEF Users, InformerRelists, ControllerSourceStarts, SecondaryUser,
                SecondaryStores, SecondaryPropagates, otherThanInformer, epVars,
                timerVars, vars
  <1>4. CASE FilterNotification \/ TimerStarts
    BY <1>4 DEF FilterNotification, TimerStarts, StartTimer, otherThanTimer,
                timerVars
  <1>5. CASE DeliverEvent
    <2>1. delivering.res \in Resources
      BY <1>1, <1>5 DEF DeliverEvent, LoopTypeOK
    <2> QED
      BY <1>2, <1>5, <2>1 DEF DeliverEvent, EventReceived
  <1>6. CASE SecondaryEvent
    BY <1>2, <1>6 DEF SecondaryEvent, EventReceived, epVars, timerVars
  <1>7. ASSUME NEW r \in Resources, TimerRuns(r) \/ TimerDelivers(r)
        PROVE  UNCHANGED <<cache, running, timerState>>
    BY <1>1, <1>2, <1>7, TimerGoesOn DEF TimerRuns, TimerDelivers, TimerFires,
         FireTimer, TimerEventReceived, otherThanTimer, LoopTypeOK
  <1>8. ASSUME NEW t \in Threads, Starts(t) \/ Finishes(t) \/ Postpones(t)
        PROVE  UNCHANGED <<cache, running, timerState>>
    BY <1>8 DEF Starts, Finishes, Postpones, StartExecution,
         EventProcessingFinished, PostponeReconciliation, timerVars
  <1>9. ASSUME NEW t \in Threads, Dispatches(t) \/ ApiCallEnds(t)
        PROVE  UNCHANGED <<cache, running, timerState>>
    <2>1. TypedDispatch(t)
      BY <1>1, <1>9, DispatchIsTyped, ServerAnswersIsTyped
         DEF Dispatches, ApiCallEnds
    <2> QED
      BY <2>1 DEF TypedDispatch, ProcessorStep, StartExecution, HandleExecution,
           ExecutionDies, EventProcessingFinished, PostponeReconciliation,
           epVars, timerVars
  <1> QED
    BY <1>3, <1>4, <1>5, <1>6, <1>7, <1>8, <1>9 DEF LoopNext

LEMMA LoopCatchesUp ==
    ASSUME VersionsAreResources, LoopInv, HistoryInv, CacheCatchesUp,
           [LoopNext]_vars
    PROVE  CacheCatchesUp'
  <1>1. LoopTypeOK /\ ServerTypeOK
    BY DEF LoopInv, LoopTypeOK
  <1>2. CASE InformerStores \/ InformerLists \/ OperatorRestarts
    BY <1>1, <1>2, InformerStoresCatchesUp, InformerListsCatchesUp,
       RestartCatchesUp
  <1>3. ASSUME ~InformerStores, ~InformerLists, ~OperatorRestarts
        PROVE  CacheCatchesUp'
    <2>1. UNCHANGED cache
      BY <1>3, CacheOfTheLoop
    <2>2. (\E c : Changed(c)) \/ UNCHANGED <<watch, store>>
      <3>1. CASE Users
        BY <1>1, <3>1, UsersChange DEF Users
      <3>2. ASSUME NEW t \in Threads, Dispatches(t) \/ ApiCallEnds(t)
            PROVE  (\E c : Changed(c)) \/ UNCHANGED <<watch, store>>
        BY <3>2, AnswersOfTheServer
           DEF Dispatches, Dispatch, ApiCallEnds, serverVars
      <3>3. CASE ~Users /\ \A t \in Threads : ~Dispatches(t) /\ ~ApiCallEnds(t)
        BY <1>3, <3>3
           DEF LoopNext, InformerLists, FilterNotification, DeliverEvent,
               SecondaryUser,
               SecondaryStores, SecondaryPropagates, SecondaryEvent, TimerStarts,
               TimerRuns, TimerDelivers, Starts, Finishes, Postpones,
               otherThanInformer, otherThanProcessor, serverVars, vars
      <3> QED
        BY <3>1, <3>2, <3>3
    <2>3. CASE UNCHANGED <<watch, store>>
      BY <2>1, <2>3 DEF CacheCatchesUp
    <2> QED
      BY <1>1, <2>1, <2>2, <2>3, ChangeIsOnItsWay
  <1> QED
    BY <1>2, <1>3

LEMMA TimerStaysReady ==
    ASSUME VersionsAreResources, LoopInv, TimerIsReady, [LoopNext]_vars
    PROVE  TimerIsReady'
  <1>1. CASE OperatorRestarts
    BY <1>1 DEF OperatorRestarts, TimerIsReady
  <1>2. CASE InformerStores
    BY <1>2 DEF InformerStores, TimerIsReady, timerVars, otherThanDelivery
  <1>3. CASE ControllerSourceStarts
    BY <1>3 DEF ControllerSourceStarts, TimerIsReady, epVars, timerVars
  <1>4. CASE ~InformerStores /\ ~OperatorRestarts /\ ~ControllerSourceStarts
    <2>1. UNCHANGED informerRunning
      BY <1>4
         DEF LoopNext, Users, InformerRelists, FilterNotification,
             DeliverEvent, SecondaryUser, SecondaryStores, SecondaryPropagates,
             SecondaryEvent, TimerStarts, TimerRuns, TimerDelivers, Starts,
             Dispatches, ApiCallEnds, Finishes, Postpones, otherThanInformer,
             otherThanProcessor, otherThanDelivery, vars
    <2> QED
      BY <1>4, <2>1, CacheOfTheLoop DEF TimerIsReady
  <1> QED
    BY <1>1, <1>2, <1>3, <1>4
-------------------------------------------------------------------------------
(***************************************************************************)
(* NothingLost: an event that waits has something left that processes it.  *)
(***************************************************************************)
Waits(r) ==
    EventPresent(eventingState, r) /\ cache[r] # None /\ gaveUp[r] = None
IsProcessedLater(r) ==
    r \in underProcessing \/ r \in onceTasks \/ timerThread = r
NothingLost ==
    \A r \in Resources : Waits(r) => IsProcessedLater(r) \/ ChangeIsUnderWay(r)

\* The conditions under which it holds: the timer is started first, and every
\* change becomes an event.
EveryChangeIsEvent == TimerFirst /\ ~GenerationAware /\ EventFilter = "passthrough"

\* Whether there are changes of r among the elements of q.
IsOf(q, r) == \E i \in 1..Len(q) : q[i].res = r

LEMMA InDomain ==
    ASSUME NEW S, NEW q \in Seq(S), NEW r
    PROVE  IsOf(q, r) <=> \E i \in DOMAIN q : q[i].res = r
  BY LenProperties DEF IsOf

\* A queue has what it had, without its head, and what is appended.
LEMMA QueueKeeps ==
    ASSUME NEW S, NEW q \in Seq(S), NEW r
    PROVE  /\ \A e \in S : /\ IsOf(q, r) => IsOf(Append(q, e), r)
                           /\ e.res = r => IsOf(Append(q, e), r)
           /\ q # <<>> /\ Head(q).res # r /\ IsOf(q, r) => IsOf(Tail(q), r)
  <1>1. ASSUME NEW e \in S
        PROVE  /\ IsOf(q, r) => IsOf(Append(q, e), r)
               /\ e.res = r => IsOf(Append(q, e), r)
    <2>1. /\ Len(q) \in Nat /\ Len(Append(q, e)) = Len(q) + 1
          /\ \A i \in 1..Len(q) : Append(q, e)[i] = q[i]
          /\ Append(q, e)[Len(q) + 1] = e
      BY AppendProperties, LenProperties
    <2>2. /\ Len(q) + 1 \in 1..Len(Append(q, e))
          /\ \A i \in 1..Len(q) : i \in 1..Len(Append(q, e))
      BY <2>1
    <2> QED
      BY <2>1, <2>2 DEF IsOf
  <1>2. ASSUME q # <<>>, Head(q).res # r, NEW i \in 1..Len(q), q[i].res = r
        PROVE  IsOf(Tail(q), r)
    <2>1. /\ Head(q) = q[1] /\ Len(q) \in Nat
          /\ Len(Tail(q)) = Len(q) - 1
          /\ \A k \in 1..Len(Tail(q)) : Tail(q)[k] = q[k + 1]
      BY <1>2, TakenFromQueue, LenProperties
    <2>2. i - 1 \in 1..Len(Tail(q)) /\ (i - 1) + 1 = i
      BY <1>2, <2>1
    <2>3. Tail(q)[i - 1] = q[i]
      BY <2>1, <2>2
    <2> QED
      BY <1>2, <2>2, <2>3 DEF IsOf
  <1> QED
    BY <1>1, <1>2 DEF IsOf

\* The event of the handler is processed; the others wait as they did.
LEMMA HandleEventLosesNothing ==
    ASSUME LoopTypeOK, running, NothingLost,
           NEW r \in Resources, NEW action, HandleEvent(r, action),
           UNCHANGED <<notifications, watch, gaveUp>>,
           \A x \in Resources \ {r} :
              /\ timerThread = x => timerThread' = x
              /\ delivering # None /\ delivering.res = x => UNCHANGED delivering
    PROVE  NothingLost'
  <1>1. EPTypeOK
    BY DEF LoopTypeOK
  <1>2. ~Waits(r)' \/ IsProcessedLater(r)'
    BY <1>1 DEF HandleEvent, AcceptsEvents, CleanupMarker, MarkEventReceived,
         MarkDeleteEventReceived, EventPresent, Waits, IsProcessedLater,
         SubmitReconciliationExecution, MaySubmit, SkipExecution, EPTypeOK,
         CleanupForDeletedEvent
  <1>3. ASSUME NEW x \in Resources \ {r}
        PROVE  /\ Waits(x)' => Waits(x)
               /\ IsProcessedLater(x) => IsProcessedLater(x)'
               /\ ChangeIsUnderWay(x) => ChangeIsUnderWay(x)'
    <2>1. /\ eventingState'[x] = eventingState[x]
          /\ cache' = cache
          /\ x \in underProcessing => x \in underProcessing'
          /\ x \in onceTasks => x \in onceTasks'
      BY <1>1, <1>3 DEF HandleEvent, CleanupMarker, MarkEventReceived,
           MarkDeleteEventReceived, UnMarkEventReceived, CancelOnceSchedule,
           SubmitReconciliationExecution, MaySubmit, SkipExecution, EPTypeOK,
           CleanupForDeletedEvent
    <2> QED
      BY <1>3, <2>1 DEF Waits, IsProcessedLater, ChangeIsUnderWay, EventPresent
  <1> QED
    BY <1>2, <1>3 DEF NothingLost

\* An update that is not yet in the informer's store is on its way.
LEMMA UpdateIsOnItsWay ==
    ASSUME VersionsAreResources, LoopTypeOK, HistoryInv, CacheCatchesUp,
           NEW r \in Resources, cache[r] # None,
           NEW p \in PostExecutionControl, UpdateIsPast(p, r), ~IsCacheReady(r, p)
    PROVE  ChangeIsUnderWay(r)
  <1>1. /\ p.updated # None /\ cache[r] # p.updated /\ cache[r] = p.before
        /\ p.updated \in CustomResource /\ p.before \in CustomResource
    BY DEF IsCacheReady, PostExecutionControl, VersionsAreResources
  <1>2. CASE cache[r] = store[r]
    <2>1. /\ p.before.rv <= p.updated.rv /\ p.updated.rv < p.before.rv
      BY <1>1, <1>2 DEF UpdateIsPast
    <2>2. p.before.rv \in Nat /\ p.updated.rv \in Nat
      BY <1>1 DEF CustomResource
    <2> QED
      BY <2>1, <2>2
  <1>3. CASE IsOf(watch, r)
    BY <1>3, InDomain DEF ChangeIsUnderWay, LoopTypeOK, ServerTypeOK
  <1> QED
    BY <1>2, <1>3 DEF CacheCatchesUp, CatchesUp, IsOf, LastChange

\* An exception that is not followed by a retry ends the attempts.
LEMMA LastAttemptGivesUp ==
    ASSUME VersionsAreResources, LoopInv, Informed, running,
           NEW t \in Threads, Finishes(t), IsRetried(t),
           NEW r \in Resources, r = active[t].res,
           ~EventPresent(eventingState, r),
           ~HasNextDelay(GetOrInitRetry(retryState, r), r)
    PROVE  GivesUp(t) /\ gaveUp'[r] = Snapshot(t) /\ gaveUp'[r] # None
  <1>1. /\ EPTypeOK /\ active[t] # None /\ t # lockHolder
        /\ gaveUp \in [Resources -> CustomResource \cup {None}]
    BY FinishedTask, NoneAssumption
       DEF LoopInv, LoopTypeOK, Finishes, EventProcessingFinished
  <1>2. active[t].retry = retryState[r] /\ retryState[r] \in Int
    BY <1>1 DEF Informed, ThreadsInformed, EPTypeOK
  <1>3. MaxAttempts # -1 /\ GetOrInitRetry(retryState, r)[r] >= MaxAttempts
    BY <1>1, <1>2, RetryAssumption DEF HasNextDelay, GetOrInitRetry, EPTypeOK,
       NoRetry
  <1>4. MaxAttempts = 0 \/ (MaxAttempts > 0 /\ active[t].retry >= MaxAttempts)
    BY <1>1, <1>2, <1>3, RetryAssumption DEF GetOrInitRetry, EPTypeOK, NoRetry
  <1>5. GivesUp(t)
    BY <1>4 DEF GivesUp, IsRetried
  <1>6. Snapshot(t) # None
    BY <1>1, SnapshotType, NoneAssumption DEF VersionsAreResources
  <1> QED
    BY <1>1, <1>5, <1>6 DEF Finishes

\* The end of an execution leaves no event behind.
LEMMA FinishLosesNothing ==
    ASSUME VersionsAreResources, LoopInv, HistoryInv, AnswersFit,
           CacheCatchesUp, TimerIsReady, Informed, TimerFirst, NothingLost,
           NEW t \in Threads, Finishes(t)
    PROVE  NothingLost'
  <1>0. PICK r \in Resources : r = active[t].res
    BY FinishedTask DEF LoopInv, Finishes, EventProcessingFinished
  <1>1. /\ LoopTypeOK /\ EPTypeOK /\ TasksInv
        /\ result[t] # None /\ result[t] \in PostExecutionControl
        /\ running
        /\ UNCHANGED <<cache, timerThread, notifications, watch, delivering>>
        /\ \A x \in Resources \ {r} : gaveUp'[x] = gaveUp[x]
    BY <1>0 DEF LoopInv, LoopTypeOK, EPTypeOK, TimerIsReady, Finishes,
         EventProcessingFinished, serverVars
  <1>2. \/ IsRetried(t) /\ HandleRetryOnException(t, r)
        \/ ~IsRetried(t) /\ FinishWithoutRetry(t, r)
    BY <1>0, <1>1 DEF Finishes, EventProcessingFinished, AcceptsEvents
  <1>3. cache[r] # None => timerState = "running"
    BY <1>1 DEF TimerIsReady
  <1>4. UpdateIsPast(result[t], r)
    BY <1>0, <1>1 DEF AnswersFit
  <1>5. ChangeIsUnderWay(r) => ChangeIsUnderWay(r)'
    BY <1>1 DEF ChangeIsUnderWay
  <1>6. Waits(r)' => IsProcessedLater(r)' \/ ChangeIsUnderWay(r)'
    <2>1. ASSUME NEW up, NEW em, NEW rs,
                 SubmitReconciliationExecution(r, up, em, rs), r \notin up
          PROVE  Waits(r)' => IsProcessedLater(r)'
      BY <1>1, <2>1 DEF SubmitReconciliationExecution, MaySubmit, Waits,
           IsProcessedLater
    <2>2. r \notin UnsetUnderExecution(r)
      BY DEF UnsetUnderExecution
    <2>3. CASE IsRetried(t) /\ HandleRetryOnException(t, r)
      <3>1. CASE EventPresent(eventingState, r)
        BY <2>1, <2>2, <2>3, <3>1 DEF HandleRetryOnException
      <3>2. CASE ~EventPresent(eventingState, r)
        <4> DEFINE rs == GetOrInitRetry(retryState, r)
        <4>1. /\ retryState' = NextDelay(rs, r)
              /\ onceTasks' = IF HasNextDelay(rs, r)
                                THEN ScheduleOnce(onceTasks, r) ELSE onceTasks
          BY <2>3, <3>2 DEF HandleRetryOnException
        <4>2. rs \in [Resources -> Int]
          BY <1>1 DEF GetOrInitRetry, NoRetry, EPTypeOK
        <4> HIDE DEF rs
        <4>3. CASE HasNextDelay(rs, r)
          BY <1>1, <1>3, <4>1, <4>3 DEF ScheduleOnce, Waits, IsProcessedLater
        <4>4. CASE ~HasNextDelay(rs, r)
          BY <1>0, <1>1, <2>3, <3>2, <4>4, LastAttemptGivesUp DEF Waits, rs
        <4> QED
          BY <4>3, <4>4
      <3> QED
        BY <3>1, <3>2
    <2>4. CASE FinishWithoutRetry(t, r)
      <3>1. CASE eventingState'[r] = "NO_EVENT_PRESENT"
        BY <3>1 DEF Waits, EventPresent
      <3>2. CASE SubmitReconciliationExecution(r, UnsetUnderExecution(r),
                     eventingState, ForgetRetry(r))
        BY <2>1, <2>2, <3>2
      <3>3. CASE ~IsCacheReady(r, result[t])
        BY <1>1, <1>4, <1>5, <3>3, UpdateIsOnItsWay DEF Waits
      <3> QED
        <4>1. CASE /\ DeleteEventPresent(eventingState, r)
                   /\ \E tasks : CleanupForDeletedEvent(r, eventingState, tasks)
          <5>1. ~CleanupMayThrow
            BY OwnSourcesAssumption
          <5>2. eventingState' = CleanupMarker(eventingState, r)
            BY <4>1, <5>1, Zenon DEF CleanupForDeletedEvent
          <5> QED
            BY <1>1, <3>1, <5>2 DEF CleanupMarker, EPTypeOK
        <4>2. CASE UNCHANGED eventingState /\ eventingState[r] = "NO_EVENT_PRESENT"
          BY <3>1, <4>2
        <4> QED
          BY <2>4, <3>2, <3>3, <4>1, <4>2, Zenon DEF FinishWithoutRetry
    <2> QED
      BY <1>2, <2>3, <2>4
  <1>7. ASSUME NEW x \in Resources \ {r}
        PROVE  /\ Waits(x)' => Waits(x)
               /\ IsProcessedLater(x) => IsProcessedLater(x)'
               /\ ChangeIsUnderWay(x) => ChangeIsUnderWay(x)'
    <2>1. ASSUME NEW up, NEW em, NEW rs,
                 SubmitReconciliationExecution(r, up, em, rs)
          PROVE  /\ underProcessing' = up \/ underProcessing' = up \cup {r}
                 /\ eventingState' = em \/ eventingState' = UnMarkEventReceived(em, r)
      BY <2>1 DEF SubmitReconciliationExecution, SkipExecution
    <2>2. CASE HandleRetryOnException(t, r)
      <3>1. /\ eventingState'[x] = eventingState[x]
            /\ x \in underProcessing => x \in underProcessing'
        <4> DEFINE em == MarkEventReceived(eventingState, r)
                   up == UnsetUnderExecution(r)
        <4>1. \/ SubmitReconciliationExecution(r, up, em,
                      GetOrInitRetry(retryState, r))
              \/ underProcessing' = up /\ eventingState' = em
          BY <2>2 DEF HandleRetryOnException
        <4>2. /\ underProcessing' = up \/ underProcessing' = up \cup {r}
              /\ eventingState' = em \/ eventingState' = UnMarkEventReceived(em, r)
          BY <2>1, <4>1
        <4>3. /\ em[x] = eventingState[x] /\ UnMarkEventReceived(em, r)[x] = em[x]
              /\ x \in underProcessing => x \in up
          BY <1>1, <1>7 DEF MarkEventReceived, UnMarkEventReceived,
               UnsetUnderExecution, EPTypeOK
        <4> QED
          BY <4>2, <4>3
      <3>2. x \in onceTasks => x \in onceTasks'
        BY <1>1, <1>7, <2>2 DEF HandleRetryOnException, ScheduleOnce, EPTypeOK
      <3> QED
        BY <1>1, <1>7, <3>1, <3>2 DEF Waits, IsProcessedLater, ChangeIsUnderWay,
             EventPresent
    <2>3. CASE FinishWithoutRetry(t, r)
      <3>1. /\ eventingState'[x] = eventingState[x]
            /\ x \in underProcessing => x \in underProcessing'
        BY <1>1, <1>7, <2>1, <2>3 DEF FinishWithoutRetry, CleanupMarker,
             CleanupForDeletedEvent, UnMarkEventReceived, UnsetUnderExecution,
             EPTypeOK
      <3>2. x \in onceTasks => x \in onceTasks'
        BY <1>1, <1>7, <2>3 DEF FinishWithoutRetry, ScheduleOnce,
             CancelOnceSchedule, CleanupForDeletedEvent, EPTypeOK
      <3> QED
        BY <1>1, <1>7, <3>1, <3>2 DEF Waits, IsProcessedLater, ChangeIsUnderWay,
             EventPresent
    <2> QED
      BY <1>2, <2>2, <2>3
  <1> QED
    BY <1>6, <1>7 DEF NothingLost

\* Where the processor and its timer are as they were, and what was under way
\* still is, nothing is lost.
Untouched ==
    UNCHANGED <<underProcessing, eventingState, onceTasks, timerThread, cache,
                gaveUp>>

LEMMA UntouchedLosesNothing ==
    ASSUME NothingLost, Untouched,
           \A r \in Resources : Waits(r) /\ ChangeIsUnderWay(r)
               => ChangeIsUnderWay(r)'
    PROVE  NothingLost'
  BY DEF NothingLost, Untouched, Waits, IsProcessedLater, EventPresent

\* The informer notifies of the change it stores.
LEMMA InformerStoresLosesNothing ==
    ASSUME LoopTypeOK, LoopTypeOK', NothingLost, InformerStores
    PROVE  NothingLost'
  <1>1. PICK c \in Change : c = Head(watch)
    BY TakenFromQueue DEF InformerStores, LoopTypeOK, ServerTypeOK
  <1>2. /\ watch \in Seq(Change) /\ watch' \in Seq(Change)
        /\ notifications' \in Seq(Notification)
        /\ watch # <<>> /\ watch' = Tail(watch)
    BY DEF InformerStores, LoopTypeOK, ServerTypeOK
  <1>3. PICK n : n.res = c.res /\ notifications' = Append(notifications, n)
    BY <1>1 DEF InformerStores
  <1>4. /\ \A r \in Resources :
              IsOf(notifications, r) => IsOf(notifications', r)
        /\ IsOf(notifications', c.res)
    <2>1. notifications \in Seq(Notification \cup {n}) /\ n \in Notification \cup {n}
      BY SeqMonotonic DEF LoopTypeOK, ServerTypeOK
    <2> QED
      BY <1>3, <2>1, QueueKeeps
  <1>5. \A r \in Resources : r # c.res /\ IsOf(watch, r) => IsOf(watch', r)
    BY <1>1, <1>2, QueueKeeps
  <1>6. /\ delivering' = delivering
        /\ UNCHANGED <<underProcessing, eventingState, onceTasks, timerThread,
                       gaveUp>>
        /\ \A r \in Resources : r # c.res => cache'[r] = cache[r]
    BY <1>1 DEF InformerStores, timerVars, LoopTypeOK, EPTypeOK,
         otherThanDelivery, historyOfLoop
  <1>7. ASSUME NEW r \in Resources, Waits(r)'
        PROVE  IsProcessedLater(r)' \/ ChangeIsUnderWay(r)'
    <2>1. CASE r = c.res
      BY <1>2, <1>4, <2>1, InDomain DEF ChangeIsUnderWay
    <2>2. CASE r # c.res
      <3>1. Waits(r)
        BY <1>6, <1>7, <2>2 DEF Waits, EventPresent
      <3>2. IsProcessedLater(r) => IsProcessedLater(r)'
        BY <1>6 DEF IsProcessedLater
      <3>3. CASE IsOf(notifications, r) \/ IsOf(watch, r)
        <4>1. IsOf(notifications', r) \/ IsOf(watch', r)
          BY <1>4, <1>5, <2>2, <3>3
        <4> QED
          BY <1>2, <4>1, InDomain DEF ChangeIsUnderWay
      <3>4. CASE delivering # None /\ delivering.res = r
        BY <1>6, <3>4 DEF ChangeIsUnderWay
      <3>5. ChangeIsUnderWay(r) =>
               \/ delivering # None /\ delivering.res = r
               \/ IsOf(notifications, r) \/ IsOf(watch, r)
        BY InDomain DEF ChangeIsUnderWay, LoopTypeOK, ServerTypeOK
      <3> QED
        BY <3>1, <3>2, <3>3, <3>4, <3>5 DEF NothingLost
    <2> QED
      BY <2>1, <2>2
  <1> QED
    BY <1>7 DEF NothingLost

\* A new list has a change of a resource that is in the store and had one.
LEMMA RelistKeepsOne ==
    ASSUME VersionsAreResources, LoopTypeOK, CacheCatchesUp, InformerLists,
           NEW r \in Resources, cache[r] # None, IsOf(watch, r)
    PROVE  IsOf(watch', r)
  <1>1. /\ ServerTypeOK /\ cache \in [Resources -> CustomResource \cup {None}]
        /\ watch' \in Relists(cache)
    BY DEF LoopTypeOK, EPTypeOK, VersionsAreResources, InformerLists,
           InformerRelists, ControllerSourceStarts
  <1>2. PICK j \in 1..Len(watch) :
           /\ watch[j].res = r
           /\ \A i \in 1..Len(watch) : watch[i].res = watch[j].res => i <= j
    BY DEF CacheCatchesUp, CatchesUp, LastChange, IsOf
  <1>3. cache[watch[j].res] # None
    BY <1>2
  <1>4. \A k \in 1..Len(watch) :
           (\A i \in 1..Len(watch) : watch[i].res = watch[k].res => i <= k)
           => \/ watch[k].gone /\ cache[watch[k].res] = None
              \/ \E i \in 1..Len(watch') : watch'[i].res = watch[k].res
    BY <1>1, RelistKeepsChanges
  <1>5. \E i \in 1..Len(watch') : watch'[i].res = watch[j].res
    BY <1>2, <1>3, <1>4
  <1> QED
    BY <1>2, <1>5 DEF IsOf

\* An informer that lists anew leaves a change of each resource it knows.
LEMMA InformerListsLosesNothing ==
    ASSUME VersionsAreResources, LoopTypeOK, CacheCatchesUp, NothingLost,
           InformerLists
    PROVE  NothingLost'
  <1>1. Untouched /\ UNCHANGED <<delivering, notifications>>
    BY DEF InformerLists, InformerRelists, ControllerSourceStarts, epVars,
           timerVars, Untouched, historyOfLoop
  <1>2. /\ ServerTypeOK /\ cache \in [Resources -> CustomResource \cup {None}]
        /\ watch' \in Relists(cache)
    BY DEF LoopTypeOK, EPTypeOK, VersionsAreResources, InformerLists,
           InformerRelists, ControllerSourceStarts
  <1>3. watch \in Seq(Change) /\ watch' \in Seq(Change)
    BY <1>2, RelistKeepsChanges DEF ServerTypeOK
  <1>4. ASSUME NEW r \in Resources, Waits(r), IsOf(watch, r)
        PROVE  IsOf(watch', r)
    BY <1>4, RelistKeepsOne DEF Waits
  <1>5. ASSUME NEW r \in Resources, Waits(r), ChangeIsUnderWay(r)
        PROVE  ChangeIsUnderWay(r)'
    <2>1. CASE IsOf(watch, r)
      BY <1>3, <1>4, <1>5, <2>1, InDomain DEF ChangeIsUnderWay
    <2>2. CASE ~IsOf(watch, r)
      BY <1>1, <1>3, <1>5, <2>2, InDomain DEF ChangeIsUnderWay
    <2> QED
      BY <2>1, <2>2
  <1> QED
    BY <1>1, <1>5, UntouchedLosesNothing

\* Every change becomes an event.
LEMMA FilterLosesNothing ==
    ASSUME LoopTypeOK, EveryChangeIsEvent, NothingLost, FilterNotification
    PROVE  NothingLost'
  <1>1. PICK n \in Notification : n = Head(notifications)
    BY TakenFromQueue DEF FilterNotification, LoopTypeOK, ServerTypeOK
  <1>2. /\ notifications \in Seq(Notification) /\ notifications # <<>>
        /\ notifications' = Tail(notifications)
        /\ notifications' \in Seq(Notification)
        /\ Untouched /\ watch' = watch /\ delivering = None
    BY TakenFromQueue DEF FilterNotification, LoopTypeOK, ServerTypeOK, timerVars,
         Untouched, otherThanDelivery, historyOfLoop
  <1>3. delivering' # None /\ delivering'.res = n.res
    <2>1. AcceptChange(n.res, n.old, n.new)
      BY DEF AcceptChange, OtherFiltersAccept, EventFilterAccepts,
           GenerationAwareAccepts, EveryChangeIsEvent
    <2>2. PICK a \in {"DELETED", "OTHER"} :
             delivering' = [res |-> n.res, action |-> a]
      BY <1>1, <2>1 DEF FilterNotification
    <2>3. n.res \in Resources
      BY DEF Notification
    <2>4. [res |-> n.res, action |-> a]
             \in [res : Resources, action : {"DELETED", "OTHER"}]
      BY <2>3
    <2> QED
      BY <2>2, <2>4, NoDeliveryAssumption
  <1>4. ASSUME NEW r \in Resources, ChangeIsUnderWay(r)
        PROVE  ChangeIsUnderWay(r)'
    <2>1. CASE r = n.res
      BY <1>3, <2>1 DEF ChangeIsUnderWay
    <2>2. CASE r # n.res /\ IsOf(notifications, r)
      <3>1. IsOf(notifications', r)
        BY <1>1, <1>2, <2>2, QueueKeeps
      <3> QED
        BY <1>2, <3>1, InDomain DEF ChangeIsUnderWay
    <2>3. CASE ~IsOf(notifications, r)
      BY <1>2, <1>4, <2>3, InDomain DEF ChangeIsUnderWay
    <2> QED
      BY <2>1, <2>2, <2>3
  <1> QED
    BY <1>2, <1>4, UntouchedLosesNothing

\* A change of the server is on its way.
LEMMA ChangeLosesNothing ==
    ASSUME LoopTypeOK, NothingLost, Untouched, UNCHANGED delivering,
           (\E c : Changed(c)) \/ UNCHANGED <<watch, notifications>>
    PROVE  NothingLost'
  <1>1. ASSUME NEW r \in Resources, ChangeIsUnderWay(r)
        PROVE  ChangeIsUnderWay(r)'
    <2>1. CASE UNCHANGED <<watch, notifications>>
      BY <1>1, <2>1 DEF ChangeIsUnderWay
    <2>2. ASSUME NEW c, Changed(c)
          PROVE  ChangeIsUnderWay(r)'
      <3>1. /\ watch \in Seq(Change) /\ c \in Change
            /\ watch' = Append(watch, c) /\ watch' \in Seq(Change)
            /\ notifications' = notifications
        BY <2>2, AppendProperties DEF Changed, LoopTypeOK, ServerTypeOK
      <3>2. IsOf(watch, r) => IsOf(watch', r)
        BY <3>1, QueueKeeps
      <3> QED
        BY <1>1, <3>1, <3>2, InDomain DEF ChangeIsUnderWay
    <2> QED
      BY <2>1, <2>2
  <1> QED
    BY <1>1, UntouchedLosesNothing

\* The dispatcher leaves the processor as it is, but for what it answers.
OnlyAnswers ==
    UNCHANGED <<running, lockHolder, underProcessing, eventingState, retryState,
                queue, active, cache, whiteList, timerVars>>

LEMMA DispatcherLeavesProcessor ==
    ASSUME NEW t \in Threads, Dispatch(t) \/ ServerAnswers(t)
    PROVE  OnlyAnswers
  <1>1. ASSUME NEW p, Returns(t, p) PROVE OnlyAnswers
    BY <1>1 DEF Returns, HandleExecution, OnlyAnswers
  <1>2. CASE UNCHANGED epVars
    BY <1>2 DEF OnlyAnswers, epVars, taskVars
  <1>3. ASSUME NEW op, NEW obj, NEW d, Calls(t, op, obj, d) PROVE OnlyAnswers
    BY <1>2, <1>3 DEF Calls
  <1>4. ASSUME NEW original, ReconcileFails(t, original) PROVE OnlyAnswers
    BY <1>1, <1>3, <1>4 DEF ReconcileFails
  <1>5. ASSUME NEW outcome, NEW d, ReconcileReturns(t, outcome, d)
        PROVE  OnlyAnswers
    BY <1>1, <1>3, <1>5 DEF ReconcileReturns
  <1>6. ASSUME NEW outcome, CleanupReturns(t, outcome) PROVE OnlyAnswers
    BY <1>1, <1>3, <1>6 DEF CleanupReturns
  <1>7. CASE Dispatch(t)
    BY <1>1, <1>3, <1>4, <1>5, <1>6, <1>7
       DEF Dispatch, SkipsCleanup, AddsFinalizer, Reconciles, CleansUp
  <1>8. CASE ServerAnswers(t)
    <2>1. CASE CallThrows(t)
      BY <1>1, <1>4, <2>1 DEF CallThrows
    <2>2. CASE CallRefused(t)
      BY <2>2, <2>1 DEF CallRefused
    <2>3. ASSUME NEW u, UpdatesStatusNext(t, u) PROVE OnlyAnswers
      BY <1>2, <2>3 DEF UpdatesStatusNext
    <2>4. CASE CallExecuted(t)
      BY <1>1, <2>3, <2>4, <2>1 DEF CallExecuted
    <2> QED
      BY <1>8, <2>2, <2>4 DEF ServerAnswers
  <1> QED
    BY <1>7, <1>8

LEMMA LoopLosesNothing ==
    ASSUME VersionsAreResources, LoopInv, LoopInv', HistoryInv, AnswersFit,
           CacheCatchesUp, TimerIsReady, Informed, EveryChangeIsEvent,
           NothingLost, [LoopNext]_vars
    PROVE  NothingLost'
  <1>1. LoopTypeOK /\ LoopTypeOK' /\ ServerTypeOK /\ running /\ TimerFirst
    BY DEF LoopInv, LoopTypeOK, TimerIsReady, EveryChangeIsEvent
  <1>2. CASE OperatorRestarts
    BY <1>2 DEF OperatorRestarts, NothingLost, Waits, EventPresent
  <1>3. CASE InformerStores \/ InformerLists \/ FilterNotification
    BY <1>1, <1>3, InformerStoresLosesNothing, InformerListsLosesNothing,
       FilterLosesNothing
  <1>4. CASE DeliverEvent
    <2>1. PICK r \in Resources : r = delivering.res
      BY <1>1, <1>4 DEF DeliverEvent, LoopTypeOK
    <2>2. /\ HandleEvent(r, delivering.action)
          /\ UNCHANGED <<notifications, watch, timerThread, gaveUp>>
      BY <1>4, <2>1 DEF DeliverEvent, EventReceived, serverVars,
           otherThanDelivery, historyOfLoop
    <2> QED
      BY <1>1, <2>1, <2>2, HandleEventLosesNothing
  <1>5. CASE SecondaryEvent
    <2>1. UNCHANGED <<notifications, watch, delivering, gaveUp>>
      BY <1>5 DEF SecondaryEvent, serverVars, historyOfLoop
    <2>2. CASE UNCHANGED epVars
      BY <1>1, <2>1, <2>2, ChangeLosesNothing DEF Untouched, epVars, timerVars
    <2>3. ASSUME NEW r \in Resources, EventReceived(r, "OTHER")
          PROVE  NothingLost'
      BY <1>1, <2>1, <2>3, HandleEventLosesNothing DEF EventReceived
    <2> QED
      BY <1>5, <2>2, <2>3 DEF SecondaryEvent
  <1>6. ASSUME NEW r \in Resources, TimerDelivers(r)
        PROVE  NothingLost'
    <2>1. /\ HandleEvent(r, "TIMER") /\ timerThread = r
          /\ UNCHANGED <<notifications, watch, delivering, gaveUp>>
      BY <1>6 DEF TimerDelivers, TimerEventReceived, otherThanProcessor,
                  serverVars, otherThanDelivery, historyOfLoop
    <2> QED
      BY <1>1, <2>1, HandleEventLosesNothing
  <1>7. ASSUME NEW r \in Resources, TimerRuns(r)
        PROVE  NothingLost'
    <2>1. /\ UNCHANGED <<underProcessing, eventingState, gaveUp, cache,
                         delivering, notifications, watch>>
          /\ timerThread = None
          /\ onceTasks' = onceTasks \ {r} /\ timerThread' = r
      BY <1>7 DEF TimerRuns, TimerFires, FireTimer, otherThanTimer,
                  otherThanProcessor, serverVars, otherThanDelivery,
                  historyOfLoop
    <2>2. ASSUME NEW x \in Resources
          PROVE  /\ Waits(x)' => Waits(x)
                 /\ IsProcessedLater(x) => IsProcessedLater(x)'
                 /\ ChangeIsUnderWay(x) => ChangeIsUnderWay(x)'
      BY <2>1, ResourceIDAssumption
         DEF Waits, IsProcessedLater, ChangeIsUnderWay, EventPresent
    <2> QED
      BY <2>2 DEF NothingLost
  <1>8. ASSUME NEW t \in Threads, Dispatches(t) \/ ApiCallEnds(t)
        PROVE  NothingLost'
    <2>1. Untouched /\ UNCHANGED delivering
      BY <1>8, DispatcherLeavesProcessor
         DEF Dispatches, ApiCallEnds, OnlyAnswers, Untouched, timerVars,
             historyOfLoop
    <2>2. (\E c : Changed(c)) \/ UNCHANGED <<watch, notifications>>
      BY <1>8, AnswersOfTheServer
         DEF Dispatches, Dispatch, ApiCallEnds, serverVars
    <2> QED
      BY <1>1, <2>1, <2>2, ChangeLosesNothing
  <1>9. CASE Users
    BY <1>1, <1>9, UsersChange, ChangeLosesNothing
       DEF Users, Untouched, epVars, timerVars, otherThanDelivery, historyOfLoop
  <1>10. ASSUME NEW t \in Threads, Postpones(t)
         PROVE  NothingLost'
    <2>1. Untouched /\ UNCHANGED <<delivering, watch, notifications>>
      BY <1>10 DEF Postpones, PostponeReconciliation, Untouched, timerVars,
           otherThanProcessor, serverVars, otherThanDelivery, historyOfLoop
    <2> QED
      BY <1>1, <2>1, ChangeLosesNothing
  <1>12. ASSUME NEW t \in Threads, Starts(t)
         PROVE  NothingLost'
    <2>1. PICK h \in Resources : h = Head(queue).res /\ h \in underProcessing
      BY <1>12, TakenFromQueue
         DEF Starts, StartExecution, LoopInv, TasksInv, Tasks, QueueMarked,
             EPTypeOK, ExecutionScope
    <2>2. /\ UNCHANGED <<underProcessing, eventingState, onceTasks, timerThread,
                         cache, delivering, watch, notifications>>
          /\ \A x \in Resources \ {h} : gaveUp'[x] = gaveUp[x]
      BY <1>1, <1>12, <2>1 DEF Starts, StartExecution, timerVars, serverVars,
           LoopTypeOK
    <2> QED
      BY <2>1, <2>2 DEF NothingLost, Waits, IsProcessedLater, ChangeIsUnderWay,
           EventPresent
  <1>11. CASE \/ SecondaryUser \/ SecondaryStores \/ SecondaryPropagates
              \/ TimerStarts \/ UNCHANGED vars
    <2>1. Untouched /\ UNCHANGED <<delivering, watch, notifications>>
      BY <1>11 DEF SecondaryUser, SecondaryStores, SecondaryPropagates,
           TimerStarts, StartTimer, otherThanTimer, Untouched, epVars,
           timerVars, otherThanInformer, otherThanProcessor, serverVars,
           otherThanDelivery, historyOfLoop, vars
    <2> QED
      BY <1>1, <2>1, ChangeLosesNothing
  <1> QED
    BY <1>1, <1>2, <1>3, <1>4, <1>5, <1>6, <1>7, <1>8, <1>9, <1>10, <1>11,
       <1>12, FinishLosesNothing DEF LoopNext, InformerLists
-------------------------------------------------------------------------------
\* What every step of the loop keeps.
EventInv ==
    /\ LoopInv /\ HistoryInv
    /\ AnswersFit /\ CacheCatchesUp /\ TimerIsReady
    /\ Informed

LEMMA InitialEvents == LoopInit => EventInv /\ NothingLost
  <1> SUFFICES ASSUME LoopInit PROVE EventInv /\ NothingLost
    OBVIOUS
  <1>1. LoopInv /\ HistoryInv
    BY InitialLoop, InitialHistory
  <1>2. /\ \A r \in Resources : /\ store[r] = None /\ cache[r] = None
                                /\ eventingState[r] = "NO_EVENT_PRESENT"
        /\ watch = <<>> /\ running /\ ~informerRunning
        /\ \A t \in Threads : result[t] = None /\ call[t] = None
    BY DEF LoopInit, EPInit, ServerInit, DispatcherInit
  <1>3. AnswersFit /\ TimerIsReady /\ NothingLost
    BY <1>2 DEF AnswersFit, TimerIsReady, NothingLost, Waits, EventPresent
  <1>4. CacheCatchesUp
    BY <1>2 DEF CacheCatchesUp, CatchesUp
  <1>5. Informed
    BY InitialInformed DEF LoopInit
  <1> QED
    BY <1>1, <1>3, <1>4, <1>5 DEF EventInv

LEMMA NextKeepsEvents ==
    ASSUME VersionsAreResources, EventInv, [LoopNext]_vars
    PROVE  EventInv'
  <1>1. LoopInv'
    BY LoopKeepsTypes, LoopKeepsTasks, LoopKeepsCalls DEF LoopInv, EventInv
  <1>2. Informed'
    <2>1. CASE EPInit'
      BY <2>1, RetryAssumption DEF EPInit, Informed, QueueInformed,
         ThreadsInformed, WithinLimit, NoRetry
    <2> QED
      BY <2>1, ProcessorInLoop, NextKeepsInformed DEF EventInv, LoopInv
  <1> QED
    BY <1>1, <1>2, NextKeepsHistory, LoopKeepsAnswers, LoopCatchesUp,
       TimerStaysReady DEF EventInv

\* The informer's store comes to be what the server has, whatever is merged by
\* a new list; an update made by an execution is no newer than the server's;
\* and the timer runs before there are resources, if it is started first.
THEOREM EventInvariant == VersionsAreResources /\ LoopSpec => []EventInv
  <1> SUFFICES ASSUME VersionsAreResources PROVE LoopSpec => []EventInv
    OBVIOUS
  <1>1. LoopInit => EventInv
    BY InitialEvents
  <1>2. EventInv /\ [LoopNext]_vars => EventInv'
    BY NextKeepsEvents
  <1> QED
    BY <1>1, <1>2, PTL DEF LoopSpec

\* If the timer is started first and no event filter rejects changes, a
\* received event is never left without an execution, a timer or a change that
\* will process it: neither when it waits for an update of the last execution
\* to reach the cache (EventProcessor.java:228-251), nor for a retry, nor when
\* the informer lists anew or the operator crashes.
THEOREM NoEventIsLost ==
    VersionsAreResources /\ TimerFirst /\ EventFilter = "passthrough" /\ LoopSpec
        => []NoLostEvent
  <1> SUFFICES ASSUME VersionsAreResources, TimerFirst,
                      EventFilter = "passthrough"
               PROVE  LoopSpec => []NoLostEvent
    OBVIOUS
  <1>1. GenerationAware \/ NothingLost => NoLostEvent
    BY DEF NoLostEvent, NothingLost, Waits, IsProcessedLater
  <1>2. LoopInit => NothingLost
    BY InitialEvents
  <1>3. EventInv /\ EventInv' /\ (GenerationAware \/ NothingLost) /\ [LoopNext]_vars
            => (GenerationAware \/ NothingLost)'
    BY LoopLosesNothing DEF EventInv, EveryChangeIsEvent
  <1>4. LoopSpec => []EventInv
    BY EventInvariant
  <1> QED
    BY <1>1, <1>2, <1>3, <1>4, PTL DEF LoopSpec

\* If the timer is started first and at least one retry is allowed, a failed
\* execution with retries left is queued again or scheduled
\* (EventProcessor.java:193-219).
THEOREM FailuresAreRetried ==
    VersionsAreResources /\ TimerFirst /\ MaxAttempts # 0 /\ LoopSpec
        => FailureIsRetried
  <1> SUFFICES ASSUME VersionsAreResources, TimerFirst, MaxAttempts # 0
               PROVE  LoopSpec => FailureIsRetried
    OBVIOUS
  <1> DEFINE Retried(t) ==
                /\ result[t] # None
                /\ Finishes(t)
                /\ IsRetried(t)
                /\ ~RetriesExhausted(active[t].res)
                /\ cache[active[t].res] # None
                => \/ active[t].res \in onceTasks'
                   \/ active[t].res \in underProcessing'
  <1>1. EventInv => [\A t \in Threads : Retried(t)]_vars
    <2> SUFFICES ASSUME EventInv, NEW t \in Threads,
                        result[t] # None, Finishes(t), IsRetried(t),
                        ~RetriesExhausted(active[t].res),
                        cache[active[t].res] # None
                 PROVE  \/ active[t].res \in onceTasks'
                        \/ active[t].res \in underProcessing'
      OBVIOUS
    <2>1. PICK r \in Resources : r = active[t].res
      BY FinishedTask DEF EventInv, LoopInv
    <2>2. /\ EPTypeOK /\ running /\ timerState = "running"
      BY <2>1 DEF EventInv, TimerIsReady, LoopInv, LoopTypeOK
    <2>3. HandleRetryOnException(t, r)
      BY <2>1, <2>2 DEF Finishes, EventProcessingFinished, AcceptsEvents
    <2>4. CASE EventPresent(eventingState, r)
      BY <2>1, <2>3, <2>4 DEF HandleRetryOnException, UnsetUnderExecution,
           SubmitReconciliationExecution, MaySubmit
    <2>5. CASE ~EventPresent(eventingState, r)
      <3>1. HasNextDelay(GetOrInitRetry(retryState, r), r)
        BY <2>1, <2>2, RetryAssumption
           DEF HasNextDelay, GetOrInitRetry, NoRetry, RetriesExhausted, EPTypeOK
      <3> QED
        BY <2>1, <2>2, <2>3, <2>5, <3>1 DEF HandleRetryOnException, ScheduleOnce
    <2> QED
      BY <2>4, <2>5
  <1>2. LoopSpec => []EventInv
    BY EventInvariant
  <1> QED
    BY <1>1, <1>2, PTL DEF FailureIsRetried

\* The execution that follows an update at once is not given the version from
\* before the update, if the dispatcher has left the resource of the
\* ExecutionScope as it was: a version in the cache that is not the one from
\* before is another one (EventProcessor.java:228-235).
THEOREM InstantReconciliationsAreFresh ==
    VersionsAreResources /\ LoopSpec => InstantReconciliationIsFresh
  <1> SUFFICES ASSUME VersionsAreResources
               PROVE  LoopSpec => InstantReconciliationIsFresh
    OBVIOUS
  <1>1. EventInv => [\A t \in Threads :
          /\ result[t] # None /\ result[t].updated # None
          /\ result[t].updated.rv # active[t].version.rv
          /\ result[t].before = active[t].version
          /\ EventProcessingFinished(t)
          /\ Len(queue') = Len(queue) + 1
          => queue'[Len(queue')].version.rv # active[t].version.rv]_vars
    <2> SUFFICES ASSUME EventInv, NEW t \in Threads,
                        result[t] # None, result[t].updated # None,
                        result[t].updated.rv # active[t].version.rv,
                        result[t].before = active[t].version,
                        EventProcessingFinished(t),
                        Len(queue') = Len(queue) + 1
                 PROVE  queue'[Len(queue')].version.rv # active[t].version.rv
      OBVIOUS
    <2>1. PICK r \in Resources : r = active[t].res
      BY FinishedTask DEF EventInv, LoopInv
    <2>2. /\ EPTypeOK /\ active[t] # None /\ ~IsRetried(t)
          /\ Len(queue) \in Nat /\ queue' # queue
      BY FinishedTask, LenProperties
         DEF EventInv, LoopInv, LoopTypeOK, EPTypeOK, IsRetried,
             PostExecutionControl
    <2>3. /\ IsCacheReady(r, result[t])
          /\ SubmitReconciliationExecution(r, UnsetUnderExecution(r),
                                           eventingState, ForgetRetry(r))
      BY <2>1, <2>2 DEF EventProcessingFinished, FinishWithoutRetry
    <2>4. ForgetRetry(r) \in [Resources -> Int]
      BY <2>2 DEF ForgetRetry, NoRetry, EPTypeOK
    <2>5. /\ queue'[Len(queue')].version = cache[r] /\ cache[r] # None
      BY <2>2, <2>3, <2>4, SubmissionEffect
    <2>6. active[t].version.rv = cache[r].rv => active[t].version = cache[r]
      <3>1. /\ active[t].version \in TaskVersions(r)
            /\ cache[r] \in NewerThanTasks(r)
        BY <2>1, <2>2, <2>5 DEF TaskVersions, NewerThanTasks
      <3> QED
        BY <3>1 DEF EventInv, HistoryInv, InOrder, TasksFollowed, Follows
    <2> QED
      BY <2>3, <2>5, <2>6 DEF IsCacheReady
  <1>2. LoopSpec => []EventInv
    BY EventInvariant
  <1> QED
    BY <1>1, <1>2, PTL DEF InstantReconciliationIsFresh
===============================================================================
