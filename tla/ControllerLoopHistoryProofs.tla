---------------------- MODULE ControllerLoopHistoryProofs ----------------------
(***************************************************************************)
(* What the reconciler is given over the life of a custom resource.  The   *)
(* operator holds states of a resource that follow one another: the one a  *)
(* task was given, the one in the informer's store, the changes on their   *)
(* way, and the server's.  A later one never has an earlier generation,    *)
(* is marked for deletion if an earlier one is, and has lost the finalizer *)
(* only if a cleanup has asked for that.  What the reconciler was given    *)
(* before is thus of no later state than any of them.                      *)
(***************************************************************************)
EXTENDS ControllerLoopProofs

\* The versions in the tasks of r.
TaskVersions(r) ==
    {queue[i].version : i \in {j \in 1..Len(queue) : queue[j].res = r}}
    \cup {active[t].version : t \in {s \in Threads : active[s] # None
                                                     /\ active[s].res = r}}

\* The changes of r on their way that leave it there.
Pending(r) == {i \in 1..Len(watch) : watch[i].res = r /\ ~watch[i].gone}

\* The states of r that are newer than the informer's, and than a task's.
NewerThanCache(r) ==
    {watch[i].obj : i \in Pending(r)} \cup ({store[r]} \ {None})
NewerThanTasks(r) == ({cache[r]} \ {None}) \cup NewerThanCache(r)

States(r) == TaskVersions(r) \cup NewerThanTasks(r)

RemovalAsked(uid) == <<uid, "removeFinalizer">> \in cleaned

\* b is a later state than a, of the same object or of one created later.
Follows(a, b) ==
    /\ a.uid <= b.uid
    /\ a.rv = b.rv => a = b
    /\ a.uid = b.uid =>
          /\ a.gen <= b.gen
          /\ a.del => b.del
          /\ UseFinalizer /\ a.fin => b.fin \/ RemovalAsked(b.uid)

TasksFollowed ==
    \A r \in Resources : \A a \in TaskVersions(r), b \in NewerThanTasks(r) :
        Follows(a, b)
CacheFollowed ==
    \A r \in Resources : cache[r] # None =>
        \A b \in NewerThanCache(r) : Follows(cache[r], b)
ChangesInOrder ==
    \A r \in Resources : \A i \in Pending(r) :
        /\ store[r] # None => Follows(watch[i].obj, store[r])
        /\ \A j \in Pending(r) : i < j => Follows(watch[i].obj, watch[j].obj)

InOrder == TasksFollowed /\ CacheFollowed /\ ChangesInOrder

\* Nothing in the history of an object is of a later state than o.
FitsHistory(o) ==
    /\ o.uid <= resourceVersion /\ o.rv <= resourceVersion
    /\ \A n \in cleaned : n[1] = o.uid => o.del
    /\ \A n \in reconciled : n[1] = o.uid =>
          /\ n[2] <= o.gen
          /\ UseFinalizer => o.fin \/ RemovalAsked(o.uid)
    /\ o.obs > 0 => <<o.uid, o.obs>> \in succeeded

StatesFit == \A r \in Resources : \A o \in States(r) : FitsHistory(o)

\* A resourceVersion tells states of a resource apart, a uid resources.
VersionsAreUnique ==
    \A r \in Resources : \A o \in States(r) :
        store[r] # None /\ o.rv = store[r].rv => o.uid = store[r].uid
UidsAreUnique ==
    \A r, s \in Resources : r # s =>
        \A o \in States(r), p \in States(s) : o.uid # p.uid
HistoryIsPast ==
    /\ \A n \in reconciled : n[1] <= resourceVersion
    /\ \A n \in cleaned : n[1] <= resourceVersion

\* What t asks the API server to write, v being what it was given for r.
CallFits(c, r, v) ==
    /\ c.obj.uid = v.uid /\ c.obj.gen = v.gen
    /\ c.obj.rv <= resourceVersion
    /\ store[r] # None /\ store[r].rv = c.obj.rv => store[r].uid = c.obj.uid
    /\ c.op \in {"addFinalizer", "updateResource", "updateResourceAndStatus"}
          => (UseFinalizer => c.obj.fin)
    /\ c.op = "removeFinalizer" => RemovalAsked(v.uid)
    /\ c.obj.obs > 0 => <<v.uid, c.obj.obs>> \in succeeded
    /\ c.op = "updateResourceAndStatus" => <<v.uid, v.gen>> \in succeeded
CallsFit ==
    \A t \in Threads : call[t] # None =>
        CallFits(call[t], active[t].res, active[t].version)

\* The inductive invariant, with LoopInv.
HistoryInv ==
    /\ InOrder
    /\ StatesFit
    /\ VersionsAreUnique
    /\ UidsAreUnique
    /\ HistoryIsPast
    /\ CallsFit
-------------------------------------------------------------------------------
\* The states of a resource are custom resources.
LEMMA StatesAreTyped ==
    ASSUME VersionsAreResources, LoopTypeOK, NEW r \in Resources
    PROVE  /\ States(r) \subseteq CustomResource
           /\ \A i \in 1..Len(watch) : watch[i] \in Change
           /\ Len(watch) \in Nat /\ Len(queue) \in Nat
  <1>1. /\ Len(watch) \in Nat /\ Len(queue) \in Nat
        /\ \A i \in 1..Len(watch) : watch[i] \in Change
        /\ \A i \in 1..Len(queue) : queue[i] \in ExecutionScope
    BY LenProperties, ElementOfSeq DEF LoopTypeOK, ServerTypeOK, EPTypeOK
  <1>2. TaskVersions(r) \subseteq CustomResource
    BY <1>1 DEF TaskVersions, LoopTypeOK, EPTypeOK, ExecutionScope,
                VersionsAreResources
  <1>3. NewerThanTasks(r) \subseteq CustomResource
    BY <1>1 DEF NewerThanTasks, NewerThanCache, Pending, Change, LoopTypeOK,
                EPTypeOK, ServerTypeOK, VersionsAreResources
  <1> QED
    BY <1>1, <1>2, <1>3 DEF States

\* Follows is kept by a step that adds to the history.
LEMMA FollowsIsStable ==
    ASSUME cleaned \subseteq cleaned'
    PROVE  \A a, b : Follows(a, b) => Follows(a, b)'
  BY DEF Follows, RemovalAsked

LEMMA FollowsItself == \A a \in CustomResource : Follows(a, a)
  BY DEF Follows, CustomResource

\* A step that leaves the server and the history as they are, and has no state
\* that was not there before, keeps what does not depend on the order.
LEMMA StatesPass ==
    ASSUME HistoryInv, InOrder',
           UNCHANGED <<store, resourceVersion, reconciled, succeeded, cleaned>>,
           \A r \in Resources : States(r)' \subseteq States(r),
           \A t \in Threads : call'[t] # None =>
               call'[t] = call[t] /\ active'[t] = active[t]
    PROVE  HistoryInv'
  <1>1. \A o : FitsHistory(o) => FitsHistory(o)'
    BY DEF FitsHistory, RemovalAsked
  <1>2. StatesFit'
    BY <1>1 DEF HistoryInv, StatesFit
  <1>3. VersionsAreUnique' /\ UidsAreUnique' /\ HistoryIsPast'
    BY DEF HistoryInv, VersionsAreUnique, UidsAreUnique, HistoryIsPast
  <1>4. CallsFit'
    BY DEF HistoryInv, CallsFit, CallFits, RemovalAsked
  <1> QED
    BY <1>2, <1>3, <1>4 DEF HistoryInv
-------------------------------------------------------------------------------
(***************************************************************************)
(* The processor.                                                          *)
(***************************************************************************)
\* A task after a step was one before it, or has been given the state that is
\* in the informer's store.
TasksAreKnown ==
    /\ \A i \in 1..Len(queue') :
          \/ \E j \in 1..Len(queue) : queue'[i] = queue[j]
          \/ /\ cache[queue'[i].res] # None
             /\ queue'[i].version = cache[queue'[i].res]
    /\ \A t \in Threads : active'[t] # None =>
          \/ active'[t] = active[t]
          \/ \E j \in 1..Len(queue) : active'[t] = queue[j]

LEMMA SubmissionIsKnown ==
    ASSUME EPTypeOK, NEW r \in Resources, NEW up, NEW em,
           NEW rs \in [Resources -> Int],
           SubmitReconciliationExecution(r, up, em, rs)
    PROVE  \A i \in 1..Len(queue') :
              \/ \E j \in 1..Len(queue) : queue'[i] = queue[j]
              \/ /\ cache[queue'[i].res] # None
                 /\ queue'[i].version = cache[queue'[i].res]
  <1>1. Len(queue) \in Nat
    BY LenProperties DEF EPTypeOK
  <1> QED
    BY <1>1, SubmissionEffect

LEMMA ThreadDoneIsKnown ==
    ASSUME EPTypeOK, NEW t \in Threads, ThreadDone(t)
    PROVE  \A s \in Threads : active'[s] # None => active'[s] = active[s]
  BY DEF ThreadDone, EPTypeOK

LEMMA TasksStayKnown ==
    ASSUME TasksInv,
           \/ \E r \in Resources : \E action : HandleEvent(r, action)
           \/ \E t \in Threads : \/ StartExecution(t)
                                 \/ EventProcessingFinished(t)
                                 \/ PostponeReconciliation(t)
           \/ UNCHANGED <<queue, active>>
    PROVE  TasksAreKnown
  <1>1. EPTypeOK
    BY DEF TasksInv
  <1>2. CASE UNCHANGED <<queue, active>>
    BY <1>2 DEF TasksAreKnown
  <1>3. ASSUME NEW r \in Resources, NEW action, HandleEvent(r, action)
        PROVE  TasksAreKnown
    <2>1. UNCHANGED active
      BY <1>3 DEF HandleEvent
    <2>2. CASE SubmitReconciliationExecution(r, underProcessing,
                   MarkEventReceived(eventingState, r), retryState)
      BY <1>1, <2>1, <2>2, SubmissionIsKnown DEF EPTypeOK, TasksAreKnown
    <2> QED
      BY <1>2, <1>3, <2>1, <2>2 DEF HandleEvent
  <1>4. ASSUME NEW t \in Threads, StartExecution(t)
        PROVE  TasksAreKnown
    <2>1. /\ queue # <<>>
          /\ active' = [active EXCEPT ![t] = Head(queue)]
          /\ queue' = Tail(queue)
      BY <1>4 DEF StartExecution
    <2>2. /\ Head(queue) = queue[1] /\ 1 \in 1..Len(queue)
          /\ \A i \in 1..Len(queue') :
                i + 1 \in 1..Len(queue) /\ queue'[i] = queue[i + 1]
      BY <1>1, <2>1, TakenFromQueue DEF EPTypeOK
    <2>3. /\ active'[t] = queue[1]
          /\ \A s \in Threads : s # t => active'[s] = active[s]
      BY <1>1, <2>1, <2>2 DEF EPTypeOK
    <2> QED
      BY <2>2, <2>3 DEF TasksAreKnown
  <1>5. ASSUME NEW t \in Threads, EventProcessingFinished(t)
        PROVE  TasksAreKnown
    <2> DEFINE r == active[t].res
    <2>1. r \in Resources
      BY <1>5, FinishedTask DEF EventProcessingFinished
    <2>2. ASSUME ThreadDone(t),
                 \/ UNCHANGED queue
                 \/ \E up, em : \E rs \in [Resources -> Int] :
                       SubmitReconciliationExecution(r, up, em, rs)
          PROVE  TasksAreKnown
      <3> HIDE DEF r
      <3> QED
        BY <1>1, <2>1, <2>2, ThreadDoneIsKnown, SubmissionIsKnown
           DEF TasksAreKnown
    <2>3. CASE HandleRetryOnException(t, r)
      <3>1. GetOrInitRetry(retryState, r) \in [Resources -> Int]
        BY <1>1, <2>1, RetryTypes
      <3> QED
        BY <2>2, <2>3, <3>1 DEF HandleRetryOnException
    <2>4. CASE FinishWithoutRetry(t, r)
      <3>1. ForgetRetry(r) \in [Resources -> Int]
        BY <1>1, <2>1, RetryTypes
      <3> QED
        BY <1>2, <2>2, <2>4, <3>1 DEF FinishWithoutRetry
    <2> QED
      BY <1>5, <2>2, <2>3, <2>4 DEF EventProcessingFinished
  <1>6. ASSUME NEW t \in Threads, PostponeReconciliation(t)
        PROVE  TasksAreKnown
    BY <1>1, <1>6, ThreadDoneIsKnown DEF PostponeReconciliation, TasksAreKnown
  <1> QED
    BY <1>2, <1>3, <1>4, <1>5, <1>6

\* What the processor does keeps the history.
LEMMA ProcessorKeepsHistory ==
    ASSUME VersionsAreResources, LoopTypeOK, HistoryInv, TasksAreKnown,
           UNCHANGED <<cache, watch, store, resourceVersion,
                       reconciled, succeeded, cleaned>>,
           \A t \in Threads : call'[t] # None =>
               call'[t] = call[t] /\ active'[t] = active[t]
    PROVE  HistoryInv'
  <1>1. \A r \in Resources :
           /\ Pending(r)' = Pending(r)
           /\ NewerThanCache(r)' = NewerThanCache(r)
           /\ NewerThanTasks(r)' = NewerThanTasks(r)
    BY DEF Pending, NewerThanCache, NewerThanTasks
  <1>2. \A r \in Resources :
           TaskVersions(r)' \subseteq TaskVersions(r) \cup ({cache[r]} \ {None})
    BY DEF TasksAreKnown, TaskVersions
  <1>3. \A a, b : Follows(a, b) => Follows(a, b)'
    BY FollowsIsStable
  <1>4. TasksFollowed'
    <2> SUFFICES ASSUME NEW r \in Resources, NEW a \in TaskVersions(r)',
                        NEW b \in NewerThanTasks(r)
                 PROVE  Follows(a, b)
      BY <1>1, <1>3 DEF TasksFollowed
    <2>1. CASE a \in TaskVersions(r)
      BY <2>1 DEF HistoryInv, InOrder, TasksFollowed
    <2>2. CASE a = cache[r] /\ cache[r] # None
      <3>1. a \in CustomResource
        BY <2>2 DEF LoopTypeOK, EPTypeOK, VersionsAreResources
      <3>2. b \in NewerThanCache(r) \/ b = a
        BY <2>2 DEF NewerThanTasks
      <3> QED
        BY <2>2, <3>1, <3>2, FollowsItself
           DEF HistoryInv, InOrder, CacheFollowed
    <2> QED
      BY <1>2, <2>1, <2>2
  <1>5. CacheFollowed' /\ ChangesInOrder'
    BY <1>1, <1>3 DEF HistoryInv, InOrder, CacheFollowed, ChangesInOrder
  <1>6. \A r \in Resources : States(r)' \subseteq States(r)
    BY <1>1, <1>2 DEF States, NewerThanTasks
  <1> QED
    BY <1>4, <1>5, <1>6, StatesPass DEF InOrder
-------------------------------------------------------------------------------
(***************************************************************************)
(* The informer.                                                           *)
(***************************************************************************)
\* What the informer stores is the oldest change on its way.
LEMMA InformerStoresKeepsHistory ==
    ASSUME VersionsAreResources, LoopTypeOK, HistoryInv, InformerStores
    PROVE  HistoryInv'
  <1> DEFINE c == Head(watch)
  <1>1. /\ Len(watch) \in Nat /\ 1 \in 1..Len(watch) /\ c = watch[1]
        /\ c \in Change
        /\ watch' = Tail(watch) /\ Len(watch') = Len(watch) - 1
        /\ \A i \in 1..Len(watch') :
              i + 1 \in 1..Len(watch) /\ watch'[i] = watch[i + 1]
    BY TakenFromQueue, LenProperties DEF InformerStores, LoopTypeOK, ServerTypeOK
  <1>2. /\ c.res \in Resources /\ c.gone \in BOOLEAN /\ c.obj \in CustomResource
    BY <1>1 DEF Change
  <1>3. /\ cache' = [cache EXCEPT ![c.res] = IF c.gone THEN None ELSE c.obj]
        /\ UNCHANGED <<queue, active, call, store, resourceVersion,
                       reconciled, succeeded, cleaned>>
    BY DEF InformerStores, taskVars, otherThanDelivery, dispatcherVars,
           historyVars
  <1>4. \A r \in Resources :
           cache'[r] = IF r = c.res THEN IF c.gone THEN None ELSE c.obj
                                    ELSE cache[r]
    BY <1>2, <1>3 DEF LoopTypeOK, EPTypeOK
  <1> HIDE DEF c
  <1>5. \A r \in Resources :
           /\ \A i \in Pending(r)' : /\ i + 1 \in Pending(r) /\ i \in Nat /\ i > 0
                                     /\ watch'[i] = watch[i + 1]
           /\ TaskVersions(r)' = TaskVersions(r)
    BY <1>1, <1>3 DEF Pending, TaskVersions
  <1>6. \A r \in Resources : cache'[r] # None =>
           \/ cache'[r] = cache[r]
           \/ 1 \in Pending(r) /\ cache'[r] = watch[1].obj
    BY <1>1, <1>4 DEF Pending
  <1>7. \A r \in Resources : NewerThanCache(r)' \subseteq NewerThanCache(r)
    BY <1>3, <1>5 DEF NewerThanCache
  <1>8. \A r \in Resources : NewerThanTasks(r)' \subseteq NewerThanTasks(r)
    BY <1>6, <1>7 DEF NewerThanTasks, NewerThanCache
  <1>9. \A a, b : Follows(a, b) => Follows(a, b)'
    BY <1>3, FollowsIsStable
  <1>10. TasksFollowed'
    BY <1>5, <1>8, <1>9 DEF HistoryInv, InOrder, TasksFollowed
  <1>11. ChangesInOrder'
    BY <1>3, <1>5, <1>9 DEF HistoryInv, InOrder, ChangesInOrder
  <1>12. CacheFollowed'
    <2> SUFFICES ASSUME NEW r \in Resources, cache'[r] # None,
                        NEW b \in NewerThanCache(r)'
                 PROVE  Follows(cache[r], b)'
      BY DEF CacheFollowed
    <2>1. PICK a : a = cache'[r]
      OBVIOUS
    <2> SUFFICES Follows(a, b)
      BY <1>9, <2>1 DEF Follows, RemovalAsked
    <2>2. CASE a = cache[r]
      BY <1>7, <2>1, <2>2 DEF HistoryInv, InOrder, CacheFollowed
    <2>3. CASE 1 \in Pending(r) /\ a = watch[1].obj
      <3>1. \/ \E j \in Pending(r) : 1 < j /\ b = watch[j].obj
            \/ store[r] # None /\ b = store[r]
        BY <1>3, <1>5 DEF NewerThanCache
      <3> QED
        BY <2>3, <3>1 DEF HistoryInv, InOrder, ChangesInOrder
    <2> QED
      BY <1>6, <2>1, <2>2, <2>3
  <1>13. \A r \in Resources : States(r)' \subseteq States(r)
    BY <1>5, <1>8 DEF States
  <1> QED
    BY <1>3, <1>10, <1>11, <1>12, <1>13, StatesPass DEF InOrder

\* A list leaves at most one change of each resource, which was on its way.
LEMMA InformerListsKeepsHistory ==
    ASSUME VersionsAreResources, LoopTypeOK, HistoryInv,
           InformerRelists \/ ControllerSourceStarts
    PROVE  HistoryInv'
  <1>1. UNCHANGED <<queue, active, call, cache, store, resourceVersion,
                    reconciled, succeeded, cleaned>>
    BY DEF InformerRelists, ControllerSourceStarts, epVars, taskVars,
           dispatcherVars, historyVars
  <1>2. /\ \A i \in 1..Len(watch') : \E j \in 1..Len(watch) :
              /\ watch'[i].res = watch[j].res
              /\ watch'[i].gone = watch[j].gone
              /\ ~watch'[i].gone => watch'[i].obj = watch[j].obj
        /\ \A i, j \in 1..Len(watch') : watch'[i].res = watch'[j].res => i = j
        /\ Len(watch') \in Nat
    <2>1. /\ ServerTypeOK /\ cache \in [Resources -> CustomResource \cup {None}]
          /\ watch' \in Relists(cache)
      BY DEF LoopTypeOK, EPTypeOK, VersionsAreResources, InformerRelists,
             ControllerSourceStarts
    <2>2. watch' \in Seq(Change)
      BY <2>1, RelistKeepsChanges
    <2>3. ASSUME NEW i \in 1..Len(watch')
          PROVE  \E j \in 1..Len(watch) :
                    /\ watch'[i].res = watch[j].res
                    /\ watch'[i].gone = watch[j].gone
                    /\ ~watch'[i].gone => watch'[i].obj = watch[j].obj
      BY <2>1, RelistKeepsChanges
    <2>4. \A i, j \in 1..Len(watch') : watch'[i].res = watch'[j].res => i = j
      BY <2>1, RelistKeepsChanges
    <2> QED
      BY <2>2, <2>3, <2>4, LenProperties
  <1>3. \A r \in Resources :
           /\ \A i \in Pending(r)' : /\ \A j \in Pending(r)' : i = j /\ ~(i < j)
                                     /\ \E j \in Pending(r) :
                                           watch'[i].obj = watch[j].obj
           /\ TaskVersions(r)' = TaskVersions(r)
    BY <1>1, <1>2 DEF Pending, TaskVersions
  <1>4. \A r \in Resources : NewerThanCache(r)' \subseteq NewerThanCache(r)
    BY <1>1, <1>3 DEF NewerThanCache
  <1>5. \A r \in Resources : NewerThanTasks(r)' \subseteq NewerThanTasks(r)
    BY <1>1, <1>4 DEF NewerThanTasks
  <1>6. \A a, b : Follows(a, b) => Follows(a, b)'
    BY <1>1, FollowsIsStable
  <1>7. TasksFollowed' /\ CacheFollowed'
    BY <1>1, <1>3, <1>4, <1>5, <1>6
       DEF HistoryInv, InOrder, TasksFollowed, CacheFollowed
  <1>8. ChangesInOrder'
    <2> SUFFICES ASSUME NEW r \in Resources, NEW i \in Pending(r)',
                        store'[r] # None
                 PROVE  Follows(watch[i].obj, store[r])'
      BY <1>3 DEF ChangesInOrder
    <2>1. PICK j \in Pending(r) : watch'[i].obj = watch[j].obj
      BY <1>3
    <2>2. PICK a, b : a = watch[j].obj /\ b = store[r]
      OBVIOUS
    <2>3. Follows(a, b)
      BY <1>1, <2>1, <2>2 DEF HistoryInv, InOrder, ChangesInOrder
    <2> QED
      BY <1>1, <1>6, <2>1, <2>2, <2>3 DEF Follows, RemovalAsked
  <1>9. \A r \in Resources : States(r)' \subseteq States(r)
    BY <1>3, <1>5 DEF States
  <1> QED
    BY <1>1, <1>7, <1>8, <1>9, StatesPass DEF InOrder

\* After a restart there are only the states that the server has.
LEMMA RestartKeepsHistory ==
    ASSUME VersionsAreResources, LoopTypeOK, HistoryInv, OperatorRestarts
    PROVE  HistoryInv'
  <1>1. /\ queue' = <<>>
        /\ active' = [t \in Threads |-> None]
        /\ call' = [t \in Threads |-> None]
        /\ cache' = [r \in Resources |-> None]
        /\ watch' \in InitialLists
        /\ UNCHANGED <<store, resourceVersion, reconciled, succeeded, cleaned>>
    BY DEF OperatorRestarts
  <1>2. /\ \A i \in 1..Len(watch') :
              /\ store[watch'[i].res] # None
              /\ watch'[i].obj = store[watch'[i].res]
        /\ \A i, j \in 1..Len(watch') : watch'[i].res = watch'[j].res => i = j
        /\ Len(watch') \in Nat
    BY <1>1, FirstListIsOfTheStore, LenProperties DEF LoopTypeOK
  <1>3. \A r \in Resources : TaskVersions(r)' = {} /\ cache'[r] = None
    BY <1>1 DEF TaskVersions
  <1>4. \A r \in Resources :
           \A i \in Pending(r)' : /\ \A j \in Pending(r)' : i = j /\ ~(i < j)
                                  /\ store[r] # None
                                  /\ watch'[i].obj = store[r]
    BY <1>2 DEF Pending
  <1>5. \A r \in Resources : NewerThanTasks(r)' \subseteq NewerThanTasks(r)
    BY <1>1, <1>3, <1>4 DEF NewerThanTasks, NewerThanCache
  <1>6. TasksFollowed' /\ CacheFollowed'
    BY <1>3 DEF TasksFollowed, CacheFollowed
  <1>7. ChangesInOrder'
    <2> SUFFICES ASSUME NEW r \in Resources, NEW i \in Pending(r)'
                 PROVE  Follows(watch[i].obj, store[r])'
      BY <1>4 DEF ChangesInOrder
    <2>1. PICK a : a = store[r]
      OBVIOUS
    <2>2. a \in CustomResource
      BY <1>4, <2>1 DEF LoopTypeOK, ServerTypeOK
    <2> QED
      BY <1>1, <1>4, <2>1, <2>2, FollowsItself, FollowsIsStable
         DEF Follows, RemovalAsked
  <1>8. \A r \in Resources : States(r)' \subseteq States(r)
    BY <1>3, <1>5 DEF States
  <1> QED
    BY <1>1, <1>6, <1>7, <1>8, StatesPass DEF InOrder
-------------------------------------------------------------------------------
(***************************************************************************)
(* The server.                                                             *)
(***************************************************************************)
\* A state that may follow what the server has of r: of a new object, or of
\* the same one, later.
MayFollow(r, new) ==
    \/ store[r] = None /\ new.uid = resourceVersion + 1 /\ new.obs = 0
    \/ /\ store[r] # None /\ new.uid = store[r].uid
       /\ store[r].gen <= new.gen
       /\ store[r].del => new.del
       /\ UseFinalizer /\ store[r].fin => new.fin \/ RemovalAsked(new.uid)
       /\ new.obs > 0 => <<new.uid, new.obs>> \in succeeded

\* The server stores new for r, or removes what it has, and sends the change c.
Stores(r, new, c) ==
    /\ c.res = r
    /\ c.gone \/ (new # None /\ c.obj = new)
    /\ watch' = Append(watch, c)
    /\ store' = [store EXCEPT ![r] = new]
    /\ resourceVersion' = resourceVersion + 1

\* A change is a later state than all the operator has.
LEMMA ChangeIsLater ==
    ASSUME VersionsAreResources, LoopTypeOK, HistoryInv, NEW r \in Resources,
           NEW new \in CustomResource, MayFollow(r, new),
           new.rv = resourceVersion + 1
    PROVE  \A a \in States(r) :
              store[r] = None \/ Follows(a, store[r]) => Follows(a, new)
  <1> SUFFICES ASSUME NEW a \in States(r),
                      store[r] = None \/ Follows(a, store[r])
               PROVE  Follows(a, new)
    OBVIOUS
  <1>1. /\ a.uid \in Nat /\ a.gen \in Nat /\ a.uid <= resourceVersion
        /\ a.rv \in Nat /\ a.rv <= resourceVersion
        /\ new.uid \in Nat /\ new.gen \in Nat /\ resourceVersion \in Nat
    BY StatesAreTyped DEF HistoryInv, StatesFit, FitsHistory, CustomResource,
                          LoopTypeOK, ServerTypeOK
  <1>2. CASE store[r] = None
    BY <1>1, <1>2 DEF MayFollow, Follows
  <1>3. CASE store[r] # None
    <2>1. store[r].gen \in Nat
      BY <1>3 DEF LoopTypeOK, ServerTypeOK, CustomResource
    <2> QED
      BY <1>1, <1>3, <2>1 DEF MayFollow, Follows
  <1> QED
    BY <1>2, <1>3

\* It fits the history.
LEMMA ChangeFits ==
    ASSUME VersionsAreResources, LoopTypeOK, HistoryInv, NEW r \in Resources,
           NEW new \in CustomResource, MayFollow(r, new),
           new.rv = resourceVersion + 1, resourceVersion' = resourceVersion + 1,
           UNCHANGED <<reconciled, succeeded, cleaned>>
    PROVE  FitsHistory(new)'
  <1>1. /\ resourceVersion \in Nat /\ new.gen \in Nat /\ new.uid \in Nat
        /\ reconciled \subseteq Nat \X Nat /\ cleaned \subseteq Nat \X CleanupOutcomes
    BY DEF LoopTypeOK, ServerTypeOK, DispatcherTypeOK, CustomResource
  <1>2. CASE store[r] = None
    BY <1>1, <1>2 DEF MayFollow, FitsHistory, HistoryInv, HistoryIsPast
  <1>3. CASE store[r] # None
    <2>1. store[r] \in CustomResource /\ FitsHistory(store[r])
      BY <1>3 DEF LoopTypeOK, ServerTypeOK, HistoryInv, StatesFit, States,
                  NewerThanTasks, NewerThanCache
    <2>2. store[r].gen \in Nat /\ store[r].uid \in Nat
      BY <2>1 DEF CustomResource
    <2> QED
      BY <1>1, <1>3, <2>1, <2>2 DEF MayFollow, FitsHistory, RemovalAsked
  <1> QED
    BY <1>2, <1>3

LEMMA StoresKeepsHistory ==
    ASSUME VersionsAreResources, LoopTypeOK, HistoryInv, NEW r \in Resources,
           NEW new \in CustomResource \cup {None}, NEW c \in Change,
           Stores(r, new, c),
           new # None => MayFollow(r, new) /\ new.rv = resourceVersion + 1,
           UNCHANGED <<queue, active, cache, reconciled, succeeded, cleaned>>,
           \A t \in Threads : call'[t] # None =>
               \/ call'[t] = call[t]
               \/ CallFits(call[t], active[t].res, active[t].version)'
    PROVE  HistoryInv'
  <1>1. /\ Len(watch) \in Nat /\ resourceVersion \in Nat
        /\ Len(watch') = Len(watch) + 1
        /\ \A i \in 1..Len(watch) : watch'[i] = watch[i]
        /\ watch'[Len(watch) + 1] = c
        /\ c.gone \in BOOLEAN
    BY AppendProperties, LenProperties DEF Stores, LoopTypeOK, ServerTypeOK, Change
  <1>2. /\ store'[r] = new
        /\ \A x \in Resources : x # r => store'[x] = store[x]
    BY DEF Stores, LoopTypeOK, ServerTypeOK
  <1>3. \A x \in Resources : TaskVersions(x)' = TaskVersions(x)
    BY DEF TaskVersions
  <1>4. \A x \in Resources : \A i \in Pending(x)' :
           \/ i \in Pending(x) /\ i <= Len(watch) /\ watch'[i] = watch[i]
           \/ /\ i = Len(watch) + 1 /\ x = r
              /\ new # None /\ watch'[i].obj = new
    BY <1>1 DEF Pending, Stores
  <1>5. \A x \in Resources : \A b \in NewerThanCache(x)' :
           b \in NewerThanCache(x) \/ (x = r /\ b = new /\ new # None)
    BY <1>2, <1>4 DEF NewerThanCache
  <1>6. \A x \in Resources : \A b \in NewerThanTasks(x)' :
           b \in NewerThanTasks(x) \/ (x = r /\ b = new /\ new # None)
    BY <1>5 DEF NewerThanTasks
  <1>7. \A x \in Resources : \A o \in States(x)' :
           o \in States(x) \/ (x = r /\ o = new /\ new # None)
    BY <1>3, <1>6 DEF States
  <1>8. \A a, b : Follows(a, b) => Follows(a, b)'
    BY FollowsIsStable
  <1>9. new # None => \A a \in States(r) :
           store[r] = None \/ Follows(a, store[r]) => Follows(a, new)
    BY ChangeIsLater
  <1>10. TasksFollowed'
    <2> SUFFICES ASSUME NEW x \in Resources, NEW a \in TaskVersions(x),
                        NEW b \in NewerThanTasks(x)'
                 PROVE  Follows(a, b)
      BY <1>3, <1>8 DEF TasksFollowed
    <2>1. CASE b \in NewerThanTasks(x)
      BY <2>1 DEF HistoryInv, InOrder, TasksFollowed
    <2>2. CASE x = r /\ b = new /\ new # None
      BY <1>9, <2>2 DEF HistoryInv, InOrder, TasksFollowed, States,
                        NewerThanTasks, NewerThanCache
    <2> QED
      BY <1>6, <2>1, <2>2
  <1>11. CacheFollowed'
    <2> SUFFICES ASSUME NEW x \in Resources, cache[x] # None,
                        NEW b \in NewerThanCache(x)'
                 PROVE  Follows(cache[x], b)
      <3> SUFFICES ASSUME NEW x \in Resources, cache[x] # None,
                          NEW b \in NewerThanCache(x)'
                   PROVE  Follows(cache[x], b)'
        BY DEF CacheFollowed
      <3> QED
        BY DEF Follows, RemovalAsked
    <2>1. CASE b \in NewerThanCache(x)
      BY <2>1 DEF HistoryInv, InOrder, CacheFollowed
    <2>2. CASE x = r /\ b = new /\ new # None
      BY <1>9, <2>2 DEF HistoryInv, InOrder, CacheFollowed, States,
                        NewerThanTasks, NewerThanCache
    <2> QED
      BY <1>5, <2>1, <2>2
  <1>12. ChangesInOrder'
    <2>1. ASSUME NEW x \in Resources, NEW i \in Pending(x)', NEW b,
                 \/ b = store'[x] /\ b # None
                 \/ \E j \in Pending(x)' : i < j /\ b = watch'[j].obj
          PROVE  Follows(watch'[i].obj, b)
      <3>1. CASE i \in Pending(x) /\ i <= Len(watch) /\ watch'[i] = watch[i]
        <4>1. watch[i].obj \in States(x)
          BY <3>1 DEF States, NewerThanTasks, NewerThanCache
        <4>2. CASE x = r /\ b = new /\ new # None
          BY <1>9, <3>1, <4>1, <4>2 DEF HistoryInv, InOrder, ChangesInOrder
        <4>3. CASE x # r /\ b = store[x] /\ b # None
          BY <3>1, <4>3 DEF HistoryInv, InOrder, ChangesInOrder
        <4>4. CASE \E j \in Pending(x) : i < j /\ b = watch[j].obj
          BY <3>1, <4>4 DEF HistoryInv, InOrder, ChangesInOrder
        <4> QED
          BY <1>2, <1>4, <2>1, <4>2, <4>3, <4>4
      <3>2. CASE i = Len(watch) + 1 /\ x = r /\ new # None /\ watch'[i].obj = new
        <4>1. b = new
          BY <1>1, <1>2, <1>4, <2>1, <3>2 DEF Pending
        <4> QED
          BY <3>2, <4>1, FollowsItself
      <3> QED
        BY <1>4, <3>1, <3>2
    <2>2. ASSUME NEW x \in Resources, NEW i \in Pending(x)', store'[x] # None
          PROVE  Follows(watch[i].obj, store[x])'
      BY <2>1, <2>2 DEF Follows, RemovalAsked
    <2>3. ASSUME NEW x \in Resources, NEW i \in Pending(x)',
                 NEW j \in Pending(x)', i < j
          PROVE  Follows(watch[i].obj, watch[j].obj)'
      BY <2>1, <2>3 DEF Follows, RemovalAsked
    <2> QED
      BY <2>2, <2>3 DEF ChangesInOrder
  <1>13. StatesFit'
    <2>1. ASSUME NEW o \in CustomResource, FitsHistory(o)
          PROVE  FitsHistory(o)'
      <3>1. /\ o.uid \in Nat /\ o.rv \in Nat
            /\ resourceVersion' = resourceVersion + 1
        BY DEF CustomResource, Stores
      <3> QED
        BY <1>1, <2>1, <3>1 DEF FitsHistory, RemovalAsked
    <2>2. ASSUME new # None PROVE FitsHistory(new)'
      <3>1. /\ new \in CustomResource /\ MayFollow(r, new)
            /\ new.rv = resourceVersion + 1
            /\ resourceVersion' = resourceVersion + 1
            /\ UNCHANGED <<reconciled, succeeded, cleaned>>
        BY <2>2 DEF Stores
      <3> QED
        BY <3>1, ChangeFits
    <2>3. \A x \in Resources : States(x) \subseteq CustomResource
      BY StatesAreTyped
    <2> QED
      BY <1>7, <2>1, <2>2, <2>3 DEF HistoryInv, StatesFit
  <1>14. \A x \in Resources : \A o \in States(x) :
            o.rv \in Nat /\ o.rv <= resourceVersion /\ o.uid <= resourceVersion
            /\ o.uid \in Nat
    BY StatesAreTyped DEF HistoryInv, StatesFit, FitsHistory, CustomResource
  <1>15. VersionsAreUnique'
    <2> SUFFICES ASSUME NEW x \in Resources, NEW o \in States(x)',
                        store'[x] # None, o.rv = store'[x].rv
                 PROVE  o.uid = store'[x].uid
      BY DEF VersionsAreUnique
    <2>1. CASE x # r
      BY <1>2, <1>7, <2>1 DEF HistoryInv, VersionsAreUnique
    <2>2. CASE x = r
      BY <1>1, <1>2, <1>7, <1>14, <2>2
    <2> QED
      BY <2>1, <2>2
  <1>16. UidsAreUnique'
    <2>1. ASSUME NEW x \in Resources, x # r, NEW o \in States(x), new # None
          PROVE  o.uid # new.uid
      <3>1. CASE store[r] = None
        BY <1>1, <1>14, <2>1, <3>1 DEF MayFollow
      <3>2. CASE store[r] # None
        BY <2>1, <3>2 DEF MayFollow, HistoryInv, UidsAreUnique, States,
                          NewerThanTasks, NewerThanCache
      <3> QED
        BY <3>1, <3>2
    <2> QED
      BY <1>7, <2>1 DEF HistoryInv, UidsAreUnique
  <1>17. HistoryIsPast'
    BY <1>1 DEF Stores, HistoryInv, HistoryIsPast, LoopTypeOK, DispatcherTypeOK
  <1>18. CallsFit'
    <2> SUFFICES ASSUME NEW t \in Threads, call'[t] # None, call'[t] = call[t]
                 PROVE  CallFits(call[t], active[t].res, active[t].version)'
      BY DEF CallsFit
    <2>1. /\ CallFits(call[t], active[t].res, active[t].version)
          /\ call[t].obj.rv \in Nat
      BY DEF HistoryInv, CallsFit, LoopTypeOK, DispatcherTypeOK, ApiCall,
             CustomResource
    <2>2. store'[active[t].res] = store[active[t].res]
          \/ store'[active[t].res] = new
      BY DEF Stores, LoopTypeOK, ServerTypeOK
    <2> QED
      BY <1>1, <2>1, <2>2 DEF Stores, CallFits, RemovalAsked
  <1> QED
    BY <1>10, <1>11, <1>12, <1>13, <1>15, <1>16, <1>17, <1>18
       DEF InOrder, HistoryInv

\* The calls on their way after a step are the same, or fit what the step does.
CallsStayFit ==
    \A t \in Threads : call'[t] # None =>
        \/ call'[t] = call[t]
        \/ CallFits(call[t], active[t].res, active[t].version)'

LEMMA CommitKeepsHistory ==
    ASSUME VersionsAreResources, LoopTypeOK, HistoryInv, NEW r \in Resources,
           NEW obj \in CustomResource, MayFollow(r, obj), Commit(r, obj),
           UNCHANGED <<queue, active, cache, reconciled, succeeded, cleaned>>,
           CallsStayFit
    PROVE  HistoryInv'
  <1> DEFINE new == IF Removed(obj) THEN None ELSE Stamped(obj)
  <1> DEFINE c == [res |-> r, obj |-> Stamped(obj), gone |-> Removed(obj)]
  <1>1. /\ Stamped(obj) \in CustomResource
        /\ Stamped(obj).rv = resourceVersion + 1
        /\ Stamped(obj).uid = obj.uid /\ Stamped(obj).gen = obj.gen
        /\ Stamped(obj).del = obj.del /\ Stamped(obj).fin = obj.fin
        /\ Stamped(obj).obs = obj.obs
        /\ Removed(obj) \in BOOLEAN
    <2>1. resourceVersion + 1 \in Nat
      BY DEF LoopTypeOK, ServerTypeOK
    <2>2. Removed(obj) \in BOOLEAN
      BY DEF Removed
    <2> QED
      BY <2>1, <2>2 DEF Stamped, CustomResource
  <1>2. MayFollow(r, Stamped(obj))
    BY <1>1 DEF MayFollow
  <1>3. Stamped(obj) # None
    BY <1>1, NoneAssumption DEF VersionsAreResources
  <1>4. c \in Change
    BY <1>1 DEF Change
  <1>5. Stores(r, new, c)
    BY <1>1, <1>3 DEF Stores, Commit
  <1>6. /\ new \in CustomResource \cup {None}
        /\ new # None => MayFollow(r, new) /\ new.rv = resourceVersion + 1
    BY <1>1, <1>2
  <1> HIDE DEF new, c
  <1> QED
    BY <1>4, <1>5, <1>6, StoresKeepsHistory DEF CallsStayFit

LEMMA UsersKeepHistory ==
    ASSUME VersionsAreResources, LoopTypeOK, HistoryInv, Users
    PROVE  HistoryInv'
  <1>1. /\ UserAction
        /\ UNCHANGED <<queue, active, cache, reconciled, succeeded, cleaned>>
        /\ CallsStayFit
    BY DEF Users, epVars, taskVars, otherThanDelivery, dispatcherVars,
           historyVars, CallsStayFit
  <1>2. PICK r \in Resources : \/ UserCreates(r) \/ UserUpdatesSpec(r)
                               \/ UserUpdatesMetadata(r) \/ UserDeletes(r)
                               \/ ForeignFinalizerRemoved(r)
    BY <1>1 DEF UserAction
  <1>3. CASE UserCreates(r)
    <2>1. PICK foreign \in ForeignFinalizers :
             Commit(r, [rv |-> 0, uid |-> resourceVersion + 1, gen |-> 1,
                        fin |-> FALSE, foreign |-> foreign, del |-> FALSE,
                        ann |-> FALSE, obs |-> 0, err |-> FALSE])
      BY <1>3 DEF UserCreates
    <2> DEFINE obj == [rv |-> 0, uid |-> resourceVersion + 1, gen |-> 1,
                       fin |-> FALSE, foreign |-> foreign, del |-> FALSE,
                       ann |-> FALSE, obs |-> 0, err |-> FALSE]
    <2>2. obj \in CustomResource
      BY ServerAssumption DEF LoopTypeOK, ServerTypeOK, CustomResource
    <2>3. MayFollow(r, obj)
      BY <1>3 DEF UserCreates, MayFollow
    <2>4. Commit(r, obj)
      BY <2>1
    <2> HIDE DEF obj
    <2> QED
      BY <1>1, <2>2, <2>3, <2>4, CommitKeepsHistory
  <1>4. CASE store[r] # None
    <2> DEFINE s == store[r]
    <2>1. s \in CustomResource /\ FitsHistory(s)
      BY <1>4 DEF LoopTypeOK, ServerTypeOK, HistoryInv, StatesFit, States,
                  NewerThanTasks, NewerThanCache
    <2>2. PICK o \in CustomResource : o = s
      BY <2>1
    <2> HIDE DEF s
    <2>3. /\ [o EXCEPT !.gen = @ + 1] \in CustomResource
          /\ [o EXCEPT !.ann = FALSE] \in CustomResource
          /\ [o EXCEPT !.del = TRUE, !.gen = @ + 1] \in CustomResource
          /\ [o EXCEPT !.foreign = FALSE] \in CustomResource
          /\ Stamped(o) \in CustomResource
      <3>1. o.gen + 1 \in Nat /\ resourceVersion + 1 \in Nat
        BY DEF CustomResource, LoopTypeOK, ServerTypeOK
      <3>2. [o EXCEPT !.gen = @ + 1] \in CustomResource
        BY <3>1 DEF CustomResource
      <3>3. [o EXCEPT !.del = TRUE, !.gen = @ + 1] \in CustomResource
        BY <3>1 DEF CustomResource
      <3>4. /\ [o EXCEPT !.ann = FALSE] \in CustomResource
            /\ [o EXCEPT !.foreign = FALSE] \in CustomResource
            /\ Stamped(o) \in CustomResource
        BY <3>1 DEF CustomResource, Stamped
      <3> QED
        BY <3>2, <3>3, <3>4
    <2>4. /\ MayFollow(r, [o EXCEPT !.gen = @ + 1])
          /\ MayFollow(r, [o EXCEPT !.ann = FALSE])
          /\ MayFollow(r, [o EXCEPT !.del = TRUE, !.gen = @ + 1])
          /\ MayFollow(r, [o EXCEPT !.foreign = FALSE])
      BY <1>4, <2>1, <2>2 DEF CustomResource, MayFollow, FitsHistory, s
    <2>5. CASE UserUpdatesSpec(r) \/ UserUpdatesMetadata(r)
               \/ ForeignFinalizerRemoved(r)
      BY <1>1, <2>2, <2>3, <2>4, <2>5, CommitKeepsHistory
         DEF UserUpdatesSpec, UserUpdatesMetadata, ForeignFinalizerRemoved, s
    <2>6. CASE UserDeletes(r)
      <3>1. CASE Commit(r, [o EXCEPT !.del = TRUE, !.gen = @ + 1])
        BY <1>1, <2>3, <2>4, <3>1, CommitKeepsHistory
      <3> DEFINE c == [res |-> r, obj |-> Stamped(o), gone |-> TRUE]
      <3>2. CASE /\ resourceVersion' = resourceVersion + 1
                 /\ store' = [store EXCEPT ![r] = None]
                 /\ watch' = Append(watch, c)
        <4>1. c \in Change
          BY <2>3 DEF Change
        <4>2. Stores(r, None, c)
          BY <3>2 DEF Stores
        <4> HIDE DEF c
        <4> QED
          BY <1>1, <4>1, <4>2, StoresKeepsHistory DEF CallsStayFit
      <3> QED
        BY <2>2, <2>6, <3>1, <3>2 DEF UserDeletes, s
    <2> QED
      BY <1>2, <1>4, <2>5, <2>6 DEF UserCreates
  <1> QED
    BY <1>2, <1>3, <1>4 DEF UserUpdatesSpec, UserUpdatesMetadata, UserDeletes,
                            ForeignFinalizerRemoved
-------------------------------------------------------------------------------
(***************************************************************************)
(* The dispatcher.                                                         *)
(***************************************************************************)
\* What a thread executes is a state of its resource, and the only task's.
LEMMA SnapshotIsState ==
    ASSUME VersionsAreResources, LoopInv, NEW t \in Threads, active[t] # None
    PROVE  /\ active[t].res \in Resources
           /\ Snapshot(t) \in CustomResource
           /\ Snapshot(t) \in States(active[t].res)
           /\ \A v \in TaskVersions(active[t].res) : v = Snapshot(t)
  <1>1. TasksInv /\ EPTypeOK
    BY DEF LoopInv, LoopTypeOK
  <1>2. active[t].res \in Resources /\ Snapshot(t) \in CustomResource
    BY <1>1, SnapshotType
  <1>3. Snapshot(t) \in States(active[t].res)
    BY DEF States, TaskVersions, Snapshot
  <1>4. SerialExecution /\ DOMAIN queue = 1..Len(queue)
    BY <1>1, TasksAreSerial, LenProperties DEF EPTypeOK
  <1>5. \A v \in TaskVersions(active[t].res) : v = Snapshot(t)
    BY <1>2, <1>4 DEF SerialExecution, Queued, RunningOn, TaskVersions, Snapshot
  <1> QED
    BY <1>2, <1>3, <1>5

\* A step of the dispatcher that adds to the history what t was given.
LEMMA HistoryGrows ==
    ASSUME VersionsAreResources, LoopInv, HistoryInv,
           NEW t \in Threads, active[t] # None,
           UNCHANGED <<queue, active, cache, watch, store, resourceVersion>>,
           reconciled \subseteq reconciled',
           succeeded \subseteq succeeded',
           cleaned \subseteq cleaned',
           \A n \in reconciled' : \/ n \in reconciled
                                  \/ /\ n = <<Snapshot(t).uid, Snapshot(t).gen>>
                                     /\ UseFinalizer => Snapshot(t).fin,
           \A n \in cleaned' : \/ n \in cleaned
                               \/ n[1] = Snapshot(t).uid /\ Snapshot(t).del,
           CallsStayFit
    PROVE  HistoryInv'
  <1> DEFINE r == active[t].res
  <1>1. PICK v \in CustomResource : v = Snapshot(t)
    BY SnapshotIsState
  <1>2. /\ r \in Resources /\ v \in States(r)
        /\ \A a \in TaskVersions(r) : a = v
        /\ FitsHistory(v)
        /\ v.uid \in Nat /\ v.gen \in Nat
    BY <1>1, SnapshotIsState DEF HistoryInv, StatesFit, CustomResource
  <1>3. \A x \in Resources :
           /\ TaskVersions(x)' = TaskVersions(x)
           /\ Pending(x)' = Pending(x)
           /\ NewerThanCache(x)' = NewerThanCache(x)
           /\ NewerThanTasks(x)' = NewerThanTasks(x)
           /\ States(x)' = States(x)
    BY DEF TaskVersions, Pending, NewerThanCache, NewerThanTasks, States
  <1>4. \A a, b : Follows(a, b) => Follows(a, b)'
    BY FollowsIsStable
  <1>5. InOrder'
    BY <1>3, <1>4 DEF HistoryInv, InOrder, TasksFollowed, CacheFollowed,
                      ChangesInOrder
  <1>6. \A o \in States(r) : o = v \/ Follows(v, o)
    BY <1>1, <1>2, SnapshotIsState
       DEF States, HistoryInv, InOrder, TasksFollowed, TaskVersions, Snapshot
  <1>7. StatesFit'
    <2> SUFFICES ASSUME NEW x \in Resources, NEW o \in States(x)
                 PROVE  FitsHistory(o)'
      BY <1>3 DEF StatesFit
    <2>1. FitsHistory(o) /\ o \in CustomResource
      BY StatesAreTyped DEF HistoryInv, StatesFit, LoopInv
    <2>2. CASE x # r
      <3>1. o.uid # v.uid
        BY <1>2, <2>2 DEF HistoryInv, UidsAreUnique
      <3> QED
        BY <1>1, <2>1, <3>1 DEF FitsHistory, RemovalAsked
    <2>3. CASE x = r
      <3>1. o = v \/ Follows(v, o)
        BY <1>6, <2>3
      <3>2. \A n \in cleaned' : n[1] = o.uid => o.del
        BY <1>1, <2>1, <3>1 DEF FitsHistory, Follows
      <3>3. \A n \in reconciled' : n[1] = o.uid => n[2] <= o.gen
        BY <1>1, <1>2, <2>1, <3>1 DEF FitsHistory, Follows
      <3>4. \A n \in reconciled' : n[1] = o.uid =>
               (UseFinalizer => o.fin \/ RemovalAsked(o.uid)')
        BY <1>1, <1>2, <2>1, <3>1 DEF FitsHistory, Follows, RemovalAsked
      <3> QED
        BY <2>1, <3>2, <3>3, <3>4 DEF FitsHistory, RemovalAsked
    <2> QED
      BY <2>2, <2>3
  <1>8. VersionsAreUnique' /\ UidsAreUnique'
    BY <1>3 DEF HistoryInv, VersionsAreUnique, UidsAreUnique
  <1>9. HistoryIsPast'
    BY <1>1, <1>2 DEF HistoryInv, HistoryIsPast, FitsHistory
  <1>10. CallsFit'
    BY DEF CallsStayFit, HistoryInv, CallsFit, CallFits, RemovalAsked
  <1> QED
    BY <1>5, <1>7, <1>8, <1>9, <1>10 DEF HistoryInv

\* A call that begins is of what the thread was given.
LEMMA NewCallFits ==
    ASSUME VersionsAreResources, LoopInv, HistoryInv,
           NEW t \in Threads, active[t] # None,
           NEW op, NEW obj, NEW d, Calls(t, op, obj, d),
           UNCHANGED <<store, resourceVersion>>,
           obj.uid = Snapshot(t).uid, obj.gen = Snapshot(t).gen,
           obj.rv = Snapshot(t).rv,
           op \in {"addFinalizer", "updateResource", "updateResourceAndStatus"}
               => (UseFinalizer => obj.fin),
           op = "removeFinalizer"
               => <<Snapshot(t).uid, "removeFinalizer">> \in cleaned',
           obj.obs > 0 => <<Snapshot(t).uid, obj.obs>> \in succeeded',
           op = "updateResourceAndStatus"
               => <<Snapshot(t).uid, Snapshot(t).gen>> \in succeeded'
    PROVE  CallsStayFit
  <1>1. /\ call'[t].op = op /\ call'[t].obj = obj
        /\ \A s \in Threads : s # t => call'[s] = call[s]
        /\ UNCHANGED active
    BY DEF Calls, LoopInv, LoopTypeOK, DispatcherTypeOK, epVars, taskVars
  <1>2. /\ obj.rv <= resourceVersion
        /\ store[active[t].res] # None /\ store[active[t].res].rv = obj.rv
              => store[active[t].res].uid = obj.uid
    BY SnapshotIsState
       DEF HistoryInv, StatesFit, FitsHistory, VersionsAreUnique
  <1>3. CallFits(call[t], active[t].res, active[t].version)'
    BY <1>1, <1>2 DEF CallFits, RemovalAsked, Snapshot
  <1> QED
    BY <1>1, <1>3 DEF CallsStayFit

LEMMA ReturnFits ==
    ASSUME LoopInv, NEW t \in Threads, NEW p, Returns(t, p)
    PROVE  CallsStayFit
  BY DEF Returns, CallsStayFit, LoopInv, LoopTypeOK, DispatcherTypeOK

\* o, of what t was given, may be written by the ErrorStatusHandler.
OriginalFits(t, o) ==
    /\ o.uid = Snapshot(t).uid /\ o.gen = Snapshot(t).gen
    /\ o.rv <= resourceVersion
    /\ store[active[t].res] # None /\ store[active[t].res].rv = o.rv
          => store[active[t].res].uid = o.uid
    /\ o.obs > 0 => <<Snapshot(t).uid, o.obs>> \in succeeded

LEMMA FailureFits ==
    ASSUME LoopInv, NEW t \in Threads, active[t] # None,
           NEW original \in CustomResource, ReconcileFails(t, original),
           OriginalFits(t, original)'
    PROVE  UNCHANGED <<queue, active, cache>> /\ CallsStayFit
  <1>1. CASE Calls(t, "errorStatus", ErrorStatus(original), FALSE)
    <2>1. PICK o : o = ErrorStatus(original)
      OBVIOUS
    <2>2. /\ o.uid = original.uid /\ o.gen = original.gen
          /\ o.rv = original.rv /\ o.obs = original.obs
      BY <2>1 DEF ErrorStatus, CustomResource
    <2>3. /\ call'[t].op = "errorStatus" /\ call'[t].obj = o
          /\ \A s \in Threads : s # t => call'[s] = call[s]
          /\ UNCHANGED <<queue, active, cache>>
      BY <1>1, <2>1 DEF Calls, LoopInv, LoopTypeOK, DispatcherTypeOK, epVars,
           taskVars
    <2>4. CallFits(call[t], active[t].res, active[t].version)'
      BY <2>2, <2>3 DEF OriginalFits, CallFits, Snapshot
    <2> QED
      BY <2>3, <2>4 DEF CallsStayFit
  <1>2. CASE Returns(t, ExceptionDuringExecution(t))
    <2>1. CallsStayFit
      BY <1>2, ReturnFits
    <2> QED
      BY <1>2, <2>1 DEF Returns, HandleExecution
  <1> QED
    BY <1>1, <1>2 DEF ReconcileFails

\* What t was given is an original, and so is what a call of its is about.
LEMMA OriginalsFit ==
    ASSUME VersionsAreResources, LoopInv, HistoryInv,
           NEW t \in Threads, active[t] # None
    PROVE  /\ OriginalFits(t, Snapshot(t))
           /\ call[t] # None => /\ Original(t) \in CustomResource
                               /\ OriginalFits(t, Original(t))
  <1>1. /\ OriginalFits(t, Snapshot(t))
        /\ Snapshot(t) \in CustomResource
    BY SnapshotIsState DEF HistoryInv, StatesFit, FitsHistory,
       VersionsAreUnique, OriginalFits
  <1>2. ASSUME call[t] # None
        PROVE  /\ Original(t) \in CustomResource
               /\ OriginalFits(t, Original(t))
    <2>1. CASE call[t].op = "observeGeneration"
      <3>1. Original(t) = call[t].obj /\ call[t].obj \in CustomResource
        BY <1>2, <2>1 DEF Original, LoopInv, LoopTypeOK, DispatcherTypeOK,
             ApiCall
      <3>2. CallFits(call[t], active[t].res, active[t].version)
        BY <1>2 DEF HistoryInv, CallsFit
      <3> QED
        BY <3>1, <3>2 DEF CallFits, OriginalFits, Snapshot
    <2>2. CASE call[t].op # "observeGeneration"
      BY <1>1, <2>2 DEF Original
    <2> QED
      BY <2>1, <2>2
  <1> QED
    BY <1>1, <1>2

LEMMA DispatchKeepsHistory ==
    ASSUME VersionsAreResources, LoopInv, HistoryInv, NEW t \in Threads,
           Dispatch(t)
    PROVE  HistoryInv'
  <1>1. /\ IsDispatched(t) /\ active[t] # None
        /\ UNCHANGED <<store, resourceVersion, watch>>
    BY DEF Dispatch, SkipsCleanup, AddsFinalizer, Reconciles, IsReconciled,
           CleansUp, IsDispatched, serverVars
  <1>2. PICK v \in CustomResource : v = Snapshot(t)
    BY <1>1, SnapshotIsState
  <1>3. v.obs > 0 => <<v.uid, v.obs>> \in succeeded
    BY <1>1, <1>2, SnapshotIsState DEF HistoryInv, StatesFit, FitsHistory
  <1>4. ASSUME NEW p, Returns(t, p)
        PROVE  UNCHANGED <<queue, active, cache>> /\ CallsStayFit
    BY <1>4, ReturnFits DEF Returns, HandleExecution
  <1>5. ASSUME NEW op, NEW obj, NEW d, Calls(t, op, obj, d)
        PROVE  UNCHANGED <<queue, active, cache>>
    BY <1>5 DEF Calls, epVars, taskVars
  <1>6. CASE SkipsCleanup(t)
    BY <1>1, <1>4, <1>6, HistoryGrows DEF SkipsCleanup, historyVars
  <1>7. CASE AddsFinalizer(t)
    <2> DEFINE obj == [v EXCEPT !.fin = TRUE]
    <2>1. /\ obj.uid = v.uid /\ obj.gen = v.gen /\ obj.rv = v.rv
          /\ obj.obs = v.obs /\ obj.fin
      BY DEF CustomResource
    <2>2. /\ Calls(t, "addFinalizer", obj, FALSE)
          /\ UNCHANGED <<reconciled, succeeded, cleaned>>
      BY <1>2, <1>7 DEF AddsFinalizer, historyVars
    <2> HIDE DEF obj
    <2>3. CallsStayFit
      BY <1>1, <1>2, <1>3, <2>1, <2>2, NewCallFits
    <2> QED
      BY <1>1, <1>5, <2>2, <2>3, HistoryGrows
  <1>8. CASE Reconciles(t)
    <2>1. /\ ~v.del /\ (UseFinalizer => v.fin)
          /\ reconciled' = reconciled \cup {<<v.uid, v.gen>>}
          /\ UNCHANGED cleaned
          /\ succeeded \subseteq succeeded'
      BY <1>2, <1>8 DEF Reconciles, IsReconciled, NeedsFinalizer
    <2>2. CASE ReconcileFails(t, Snapshot(t))
      <3>1. UNCHANGED active
        BY <2>2 DEF ReconcileFails, Calls, Returns, HandleExecution, epVars,
             taskVars
      <3>2. OriginalFits(t, Snapshot(t))'
        BY <1>1, <2>1, <3>1, OriginalsFit DEF OriginalFits, Snapshot
      <3>3. UNCHANGED <<queue, active, cache>> /\ CallsStayFit
        <4>1. Snapshot(t)' = Snapshot(t)
          BY <3>1 DEF Snapshot
        <4> QED
          BY <1>1, <1>2, <2>2, <3>2, <4>1, FailureFits DEF OriginalFits
      <3> QED
        BY <1>1, <1>2, <2>1, <3>3, HistoryGrows
    <2>3. ASSUME NEW outcome \in ReconcileOutcomes, NEW d \in Reschedules,
                 ReconcileReturns(t, outcome, d),
                 <<v.uid, v.gen>> \in succeeded'
          PROVE  CallsStayFit /\ UNCHANGED <<queue, active, cache>>
      <3> DEFINE st == StatusOf(v)
      <3> DEFINE an == [v EXCEPT !.ann = TRUE]
      <3>1. /\ st.uid = v.uid /\ st.gen = v.gen /\ st.rv = v.rv /\ st.obs = v.gen
            /\ an.uid = v.uid /\ an.gen = v.gen /\ an.rv = v.rv /\ an.obs = v.obs
            /\ an.fin = v.fin
        BY DEF StatusOf, CustomResource
      <3>2. \/ Calls(t, "updateStatus", st, d)
            \/ Calls(t, "observeGeneration", st, d)
            \/ \E p : Returns(t, p)
            \/ /\ outcome \in {"updateResource", "updateResourceAndStatus"}
               /\ Calls(t, outcome, an, d)
        BY <1>2, <2>3 DEF ReconcileReturns
      <3> HIDE DEF st, an
      <3>3. ASSUME NEW op \in {"updateStatus", "observeGeneration"},
                   Calls(t, op, st, d)
            PROVE  CallsStayFit /\ UNCHANGED <<queue, active, cache>>
        BY <1>1, <1>2, <1>5, <2>3, <3>1, <3>3, NewCallFits
      <3>4. CASE \E p : Returns(t, p)
        BY <1>4, <3>4
      <3>5. CASE /\ outcome \in {"updateResource", "updateResourceAndStatus"}
                 /\ Calls(t, outcome, an, d)
        BY <1>1, <1>2, <1>3, <1>5, <2>1, <2>3, <3>1, <3>5, NewCallFits
      <3> QED
        BY <3>2, <3>3, <3>4, <3>5
    <2>4. CASE /\ \E outcome \in ReconcileOutcomes, d \in Reschedules :
                     ReconcileReturns(t, outcome, d)
               /\ succeeded' = succeeded \cup {<<v.uid, v.gen>>}
      BY <1>1, <1>2, <2>1, <2>3, <2>4, HistoryGrows
    <2> QED
      BY <1>2, <1>8, <2>2, <2>4 DEF Reconciles
  <1>9. CASE CleansUp(t)
    <2>1. PICK outcome \in CleanupOutcomes :
             /\ CleanupReturns(t, outcome)
             /\ cleaned' = cleaned \cup {<<v.uid, outcome>>}
      BY <1>2, <1>9 DEF CleansUp
    <2>2. v.del /\ UNCHANGED <<reconciled, succeeded>>
      BY <1>2, <1>9 DEF CleansUp
    <2>3. CASE \E p : Returns(t, p)
      BY <1>1, <1>2, <1>4, <2>1, <2>2, <2>3, HistoryGrows
    <2> DEFINE obj == [v EXCEPT !.fin = FALSE]
    <2>4. CASE outcome = "removeFinalizer"
               /\ Calls(t, "removeFinalizer", obj, FALSE)
      <3>1. /\ obj.uid = v.uid /\ obj.gen = v.gen /\ obj.rv = v.rv
            /\ obj.obs = v.obs
        BY DEF CustomResource
      <3>2. <<v.uid, "removeFinalizer">> \in cleaned'
        BY <2>1, <2>4
      <3> HIDE DEF obj
      <3>3. CallsStayFit
        BY <1>1, <1>2, <1>3, <2>2, <2>4, <3>1, <3>2, NewCallFits
      <3>4. UNCHANGED <<queue, active, cache>>
        BY <1>5, <2>4
      <3> QED
        BY <1>1, <1>2, <2>1, <2>2, <3>3, <3>4, HistoryGrows
    <2> QED
      BY <1>2, <2>1, <2>3, <2>4 DEF CleanupReturns
  <1> QED
    BY <1>6, <1>7, <1>8, <1>9 DEF Dispatch

\* The calls that write the status.
StatusOps == {"updateStatus", "observeGeneration", "errorStatus"}

\* A write that the server accepts makes a later state of the same object.
LEMMA WriteMayFollow ==
    ASSUME VersionsAreResources, LoopInv, HistoryInv,
           NEW t \in Threads, active[t] # None, call[t] # None,
           NEW r \in Resources, r = active[t].res, IsCurrent(r, call[t].obj),
           NEW new, new = IF call[t].op \in StatusOps
                            THEN PutStatus(r, call[t].obj)
                            ELSE PutResource(r, call[t].obj)
    PROVE  /\ new \in CustomResource
           /\ MayFollow(r, new)
           /\ store[r] # None /\ new.uid = call[t].obj.uid
           /\ new.rv = store[r].rv /\ store[r].rv <= resourceVersion
  <1>1. /\ store[r] \in CustomResource /\ FitsHistory(store[r])
        /\ store[r] # None /\ store[r].rv = call[t].obj.rv
    BY DEF IsCurrent, LoopInv, LoopTypeOK, ServerTypeOK, HistoryInv, StatesFit,
           States, NewerThanTasks, NewerThanCache
  <1>2. PICK s \in CustomResource : s = store[r]
    BY <1>1
  <1>3. PICK o \in CustomResource : o = call[t].obj
    BY DEF LoopInv, LoopTypeOK, DispatcherTypeOK, ApiCall
  <1>4. CallFits(call[t], r, Snapshot(t)) /\ call[t] \in ApiCall
    BY DEF HistoryInv, CallsFit, Snapshot, LoopInv, LoopTypeOK, DispatcherTypeOK
  <1>5. s.uid = o.uid
    BY <1>1, <1>2, <1>3, <1>4 DEF CallFits
  <1>6. CASE call[t].op \in StatusOps
    <2>1. new = [s EXCEPT !.obs = o.obs, !.err = o.err]
      BY <1>2, <1>3, <1>6 DEF PutStatus
    <2>2. /\ new \in CustomResource
          /\ new.uid = s.uid /\ new.gen = s.gen /\ new.del = s.del
          /\ new.fin = s.fin /\ new.obs = o.obs /\ new.rv = s.rv
      BY <2>1 DEF CustomResource
    <2>3. new.obs > 0 => <<new.uid, new.obs>> \in succeeded
      BY <1>3, <1>4, <1>5, <2>2 DEF CallFits
    <2> QED
      BY <1>1, <1>2, <1>3, <1>5, <2>2, <2>3
         DEF MayFollow, CustomResource, FitsHistory
  <1>7. CASE call[t].op \notin StatusOps
    <2>1. new = [s EXCEPT !.fin = o.fin, !.ann = o.ann]
      BY <1>2, <1>3, <1>7 DEF PutResource
    <2>2. /\ new \in CustomResource
          /\ new.uid = s.uid /\ new.gen = s.gen /\ new.del = s.del
          /\ new.fin = o.fin /\ new.obs = s.obs /\ new.rv = s.rv
      BY <2>1 DEF CustomResource
    <2>3. UseFinalizer => new.fin \/ RemovalAsked(new.uid)
      BY <1>3, <1>4, <1>5, <1>7, <2>2 DEF CallFits, ApiCall, StatusOps
    <2> QED
      BY <1>1, <1>2, <1>3, <1>5, <2>2, <2>3
         DEF MayFollow, CustomResource, FitsHistory
  <1> QED
    BY <1>6, <1>7

LEMMA AnswersKeepHistory ==
    ASSUME VersionsAreResources, LoopInv, HistoryInv, NEW t \in Threads,
           ServerAnswers(t)
    PROVE  HistoryInv'
  <1>1. /\ call[t] # None /\ active[t] # None /\ active[t].res \in Resources
        /\ call[t] \in ApiCall
        /\ UNCHANGED <<reconciled, succeeded, cleaned>>
    BY SnapshotIsState DEF ServerAnswers, LoopInv, CallOfTask, historyVars,
         LoopTypeOK, DispatcherTypeOK
  <1>2. ASSUME NEW p, Returns(t, p)
        PROVE  UNCHANGED <<queue, active, cache>> /\ CallsStayFit
    BY <1>2, ReturnFits DEF Returns, HandleExecution
  <1>3. PICK orig \in CustomResource :
           orig = Original(t) /\ OriginalFits(t, orig)
    BY <1>1, OriginalsFit
  <1>4. ASSUME CallThrows(t), OriginalFits(t, orig) /\ UNCHANGED active
                                  => OriginalFits(t, orig)'
        PROVE  UNCHANGED <<queue, active, cache>> /\ CallsStayFit
    <2>1. CASE ReconcileFails(t, orig)
      <3>1. UNCHANGED active
        BY <2>1 DEF ReconcileFails, Calls, Returns, HandleExecution, epVars,
             taskVars
      <3> QED
        BY <1>1, <1>3, <1>4, <2>1, <3>1, FailureFits
    <2>2. CASE Returns(t, ExceptionDuringExecution(t))
      BY <1>2, <2>2
    <2> QED
      BY <1>3, <1>4, <2>1, <2>2 DEF CallThrows
  <1>5. CASE CallRefused(t)
    <2>1. UNCHANGED <<store, resourceVersion, watch>> /\ CallThrows(t)
      BY <1>5 DEF CallRefused, serverVars
    <2>2. UNCHANGED active => Snapshot(t)' = Snapshot(t)
      BY DEF Snapshot
    <2>3. UNCHANGED <<queue, active, cache>> /\ CallsStayFit
      BY <1>1, <1>4, <2>1, <2>2 DEF OriginalFits
    <2> QED
      BY <1>1, <2>1, <2>3, HistoryGrows
  <1>6. CASE CallExecuted(t)
    <2>1. PICK r \in Resources : r = active[t].res
      BY <1>1
    <2>2. PICK new : new = IF call[t].op \in StatusOps
                             THEN PutStatus(r, call[t].obj)
                             ELSE PutResource(r, call[t].obj)
      OBVIOUS
    <2>3. /\ IsCurrent(r, call[t].obj)
          /\ Write(r, new)
          /\ \/ CallThrows(t)
             \/ \E p : Returns(t, p)
             \/ /\ call[t].op = "updateResourceAndStatus"
                /\ UpdatesStatusNext(t, Written(r, new))
      BY <1>6, <2>1, <2>2 DEF CallExecuted, StatusOps
    <2>4. /\ new \in CustomResource
          /\ MayFollow(r, new)
          /\ store[r] # None /\ new.uid = call[t].obj.uid
          /\ new.rv = store[r].rv /\ store[r].rv <= resourceVersion
      BY <1>1, <2>1, <2>2, <2>3, WriteMayFollow
    <2>5. ASSUME CallThrows(t)
          PROVE  UNCHANGED <<queue, active, cache>> /\ CallsStayFit
      <3>1. /\ resourceVersion \in Nat /\ orig.rv \in Nat
            /\ store \in [Resources -> CustomResource \cup {None}]
        BY DEF LoopInv, LoopTypeOK, ServerTypeOK, CustomResource
      <3>2. CASE new = store[r]
        <4>1. UNCHANGED <<store, resourceVersion>>
          BY <2>3, <3>2 DEF Write, serverVars
        <4> QED
          BY <1>4, <1>1, <2>5, <4>1 DEF OriginalFits, Snapshot
      <3>3. CASE new # store[r]
        <4>1. Commit(r, new) /\ Stamped(new).rv = resourceVersion + 1
          BY <2>3, <2>4, <3>3, <3>1 DEF Write, Stamped, CustomResource
        <4>2. /\ resourceVersion' = resourceVersion + 1
              /\ store'[r] = None \/ store'[r].rv = resourceVersion + 1
          BY <3>1, <4>1 DEF Commit
        <4> QED
          BY <1>1, <1>4, <2>1, <2>5, <3>1, <4>2 DEF OriginalFits, Snapshot
      <3> QED
        BY <3>2, <3>3
    <2>6. ASSUME call[t].op = "updateResourceAndStatus",
                 UpdatesStatusNext(t, Written(r, new))
          PROVE  UNCHANGED <<queue, active, cache>> /\ CallsStayFit
      <3>1. PICK w : w = Written(r, new)
        OBVIOUS
      <3>2. /\ w.rv \in Nat /\ w.rv <= resourceVersion'
            /\ store'[r] # None => store'[r].uid = new.uid
        <4>1. CASE new = store[r]
          BY <2>3, <2>4, <3>1, <4>1 DEF Write, Written, serverVars, CustomResource
        <4>2. CASE new # store[r]
          <5>1. /\ Commit(r, new) /\ w = Stamped(new) /\ resourceVersion \in Nat
                /\ store \in [Resources -> CustomResource \cup {None}]
            BY <2>3, <3>1, <4>2 DEF Write, Written, LoopInv, LoopTypeOK,
                 ServerTypeOK
          <5>2. /\ Stamped(new).uid = new.uid
                /\ Stamped(new).rv = resourceVersion + 1
            BY <2>4, <5>1 DEF Stamped, CustomResource
          <5> QED
            BY <5>1, <5>2 DEF Commit
        <4> QED
          BY <4>1, <4>2
      <3>3. PICK o \in CustomResource : o = call[t].obj
        BY <1>1 DEF ApiCall
      <3>4. PICK n : n = StatusOf([o EXCEPT !.rv = w.rv])
        OBVIOUS
      <3>5. /\ n.uid = o.uid /\ n.gen = o.gen /\ n.rv = w.rv /\ n.obs = o.gen
        BY <3>2, <3>4 DEF StatusOf, CustomResource
      <3>6. /\ call'[t].op = "updateStatus" /\ call'[t].obj = n
            /\ \A s \in Threads : s # t => call'[s] = call[s]
        BY <2>6, <3>1, <3>3, <3>4
           DEF UpdatesStatusNext, LoopInv, LoopTypeOK, DispatcherTypeOK
      <3>7. /\ o.uid = Snapshot(t).uid /\ o.gen = Snapshot(t).gen
            /\ <<o.uid, o.gen>> \in succeeded
        BY <1>1, <2>6, <3>3 DEF HistoryInv, CallsFit, CallFits, Snapshot
      <3>8. UNCHANGED <<queue, active, cache>>
        BY <2>6 DEF UpdatesStatusNext, epVars, taskVars
      <3>9. CallFits(call[t], active[t].res, active[t].version)'
        BY <1>1, <2>1, <2>4, <3>2, <3>3, <3>5, <3>6, <3>7, <3>8
           DEF CallFits, RemovalAsked, Snapshot
      <3> QED
        BY <3>6, <3>8, <3>9 DEF CallsStayFit
    <2>7. UNCHANGED <<queue, active, cache>> /\ CallsStayFit
      BY <1>2, <2>3, <2>5, <2>6
    <2>8. CASE new = store[r]
      <3>1. UNCHANGED <<store, resourceVersion, watch>>
        BY <2>3, <2>8 DEF Write, serverVars
      <3> QED
        BY <1>1, <2>7, <3>1, HistoryGrows
    <2>9. CASE new # store[r]
      <3>1. Commit(r, new) /\ LoopTypeOK
        BY <2>3, <2>9 DEF Write, LoopInv
      <3> QED
        BY <1>1, <2>4, <2>7, <3>1, CommitKeepsHistory
    <2> QED
      BY <2>8, <2>9
  <1> QED
    BY <1>5, <1>6 DEF ServerAnswers
-------------------------------------------------------------------------------
(***************************************************************************)
(* The loop.                                                               *)
(***************************************************************************)
\* The steps of the processor's threads, and those that it takes no part in.
LEMMA OthersKeepHistory ==
    ASSUME VersionsAreResources, LoopInv, HistoryInv,
           \/ FilterNotification \/ DeliverEvent
           \/ SecondaryUser \/ SecondaryStores \/ SecondaryPropagates
           \/ SecondaryEvent \/ TimerStarts
           \/ \E r \in Resources : TimerRuns(r) \/ TimerDelivers(r)
           \/ \E t \in Threads : Starts(t) \/ Finishes(t) \/ Postpones(t)
           \/ UNCHANGED vars
    PROVE  HistoryInv'
  <1>1. TasksInv /\ EPTypeOK /\ Tasks /\ LoopTypeOK /\ CallOfTask
    BY DEF LoopInv, TasksInv
  <1>2. ASSUME TasksAreKnown,
               UNCHANGED <<cache, watch, store, resourceVersion,
                           reconciled, succeeded, cleaned, call>>,
               \A t \in Threads : call[t] # None => active'[t] = active[t]
        PROVE  HistoryInv'
    BY <1>1, <1>2, ProcessorKeepsHistory
  <1>3. ASSUME NEW r \in Resources, NEW action, HandleEvent(r, action),
               UNCHANGED <<watch, store, resourceVersion, dispatcherVars>>
        PROVE  HistoryInv'
    <2>1. TasksAreKnown
      BY <1>1, <1>3, TasksStayKnown
    <2>2. UNCHANGED <<cache, active>>
      BY <1>3 DEF HandleEvent
    <2> QED
      BY <1>2, <1>3, <2>1, <2>2 DEF dispatcherVars, historyVars
  <1>4. CASE UNCHANGED <<queue, active, cache, watch, store, resourceVersion,
                         dispatcherVars>>
    <2>1. TasksAreKnown
      BY <1>4 DEF TasksAreKnown
    <2> QED
      BY <1>2, <1>4, <2>1 DEF dispatcherVars, historyVars
  <1>5. CASE DeliverEvent
    <2>1. /\ delivering.res \in Resources
          /\ HandleEvent(delivering.res, delivering.action)
          /\ UNCHANGED <<watch, store, resourceVersion, dispatcherVars>>
      BY <1>1, <1>5 DEF DeliverEvent, EventReceived, LoopTypeOK, serverVars,
                        otherThanDelivery
    <2> QED
      BY <1>3, <2>1
  <1>6. CASE SecondaryEvent
    BY <1>3, <1>4, <1>6 DEF SecondaryEvent, EventReceived, serverVars, epVars,
                            taskVars, dispatcherVars, historyVars
  <1>7. ASSUME NEW r \in Resources, TimerDelivers(r)
        PROVE  HistoryInv'
    BY <1>3, <1>7 DEF TimerDelivers, TimerEventReceived, otherThanProcessor,
                      serverVars, otherThanDelivery
  <1>8. ASSUME NEW t \in Threads, Starts(t) \/ Finishes(t) \/ Postpones(t)
        PROVE  HistoryInv'
    <2>1. TasksAreKnown
      BY <1>1, <1>8, TasksStayKnown DEF Starts, Finishes, Postpones
    <2>2. UNCHANGED <<cache, watch, store, resourceVersion, dispatcherVars>>
      BY <1>8 DEF Starts, Finishes, Postpones, StartExecution,
           EventProcessingFinished, PostponeReconciliation,
           otherThanProcessor, serverVars, otherThanDelivery
    <2>3. call[t] = None /\ \A s \in Threads : s # t => active'[s] = active[s]
      <3>1. CASE Starts(t)
        BY <1>1, <3>1 DEF Starts, StartExecution, CallOfTask, EPTypeOK
      <3>2. CASE Finishes(t)
        BY <1>1, <3>2
           DEF Finishes, EventProcessingFinished, HandleRetryOnException,
               FinishWithoutRetry, ThreadDone, CallOfTask, EPTypeOK
      <3>3. CASE Postpones(t)
        BY <1>1, <3>3, NoneAssumption
           DEF Postpones, PostponeReconciliation, ThreadDone, CallOfTask,
               EPTypeOK, Tasks, PostponedUnmarked
      <3> QED
        BY <1>8, <3>1, <3>2, <3>3
    <2> QED
      BY <1>2, <2>1, <2>2, <2>3 DEF dispatcherVars, historyVars
  <1>9. CASE \/ FilterNotification
             \/ SecondaryUser \/ SecondaryStores \/ SecondaryPropagates
             \/ TimerStarts \/ (\E r \in Resources : TimerRuns(r))
             \/ UNCHANGED vars
    BY <1>4, <1>9
       DEF FilterNotification, SecondaryUser, SecondaryStores,
           SecondaryPropagates, TimerStarts, TimerRuns, TimerFires,
           otherThanTimer, otherThanInformer, otherThanDelivery,
           otherThanProcessor, serverVars, taskVars, epVars, vars
  <1> QED
    BY <1>5, <1>6, <1>7, <1>8, <1>9

LEMMA NextKeepsHistory ==
    ASSUME VersionsAreResources, LoopInv, HistoryInv, [LoopNext]_vars
    PROVE  HistoryInv'
  <1>1. LoopTypeOK
    BY DEF LoopInv
  <1>2. CASE \/ Users \/ OperatorRestarts \/ ControllerSourceStarts
             \/ InformerStores \/ InformerRelists
    BY <1>1, <1>2, UsersKeepHistory, InformerStoresKeepsHistory,
       InformerListsKeepsHistory, RestartKeepsHistory
  <1>3. ASSUME NEW t \in Threads, Dispatches(t) \/ ApiCallEnds(t)
        PROVE  HistoryInv'
    BY <1>3, DispatchKeepsHistory, AnswersKeepHistory DEF Dispatches, ApiCallEnds
  <1> QED
    BY <1>2, <1>3, OthersKeepHistory DEF LoopNext

LEMMA InitialHistory == LoopInit => HistoryInv
  <1> SUFFICES ASSUME LoopInit PROVE HistoryInv
    OBVIOUS
  <1>1. /\ \A r \in Resources : store[r] = None /\ cache[r] = None
        /\ watch = <<>> /\ queue = <<>>
        /\ \A t \in Threads : active[t] = None /\ call[t] = None
        /\ reconciled = {} /\ cleaned = {}
    BY DEF LoopInit, EPInit, ServerInit, DispatcherInit
  <1>2. \A r \in Resources : States(r) = {} /\ Pending(r) = {}
    BY <1>1 DEF States, TaskVersions, NewerThanTasks, NewerThanCache, Pending
  <1>3. InOrder
    BY <1>1, <1>2 DEF InOrder, TasksFollowed, CacheFollowed, ChangesInOrder,
                      States
  <1>4. StatesFit /\ VersionsAreUnique /\ UidsAreUnique /\ HistoryIsPast /\ CallsFit
    BY <1>1, <1>2 DEF StatesFit, VersionsAreUnique, UidsAreUnique,
                      HistoryIsPast, CallsFit
  <1> QED
    BY <1>3, <1>4 DEF HistoryInv

\* In every reachable state of the loop the states of a resource that tasks,
\* caches, informers and calls hold are in order and fit its history.
THEOREM HistoryInvariant == VersionsAreResources /\ LoopSpec => []HistoryInv
  <1> SUFFICES ASSUME VersionsAreResources PROVE LoopSpec => []HistoryInv
    OBVIOUS
  <1>1. LoopInit => HistoryInv
    BY InitialHistory
  <1>2. LoopInv /\ HistoryInv /\ [LoopNext]_vars => HistoryInv'
    BY NextKeepsHistory
  <1>3. LoopSpec => []LoopInv
    BY LoopInvariant
  <1> QED
    BY <1>1, <1>2, <1>3, PTL DEF LoopSpec
-------------------------------------------------------------------------------
\* The generation in a status is one for which the reconciler returned: no
\* failed, refused or concurrent execution, and no update of a stale resource,
\* makes a generation look observed (updateStatusObservedGenerationIfRequired).
THEOREM ObservedWasReconciled ==
    VersionsAreResources /\ LoopSpec => []ObservedGenerationWasReconciled
  <1>1. HistoryInv => ObservedGenerationWasReconciled
    BY DEF HistoryInv, StatesFit, States, NewerThanTasks, NewerThanCache,
           FitsHistory, ObservedGenerationWasReconciled
  <1> QED
    BY <1>1, HistoryInvariant, PTL

\* What the reconciler is given fits what it was given before.
LEMMA ReconciledFits ==
    ASSUME VersionsAreResources, LoopInv, HistoryInv, NEW t \in Threads,
           Reconciles(t)
    PROVE  FitsHistory(Snapshot(t)) /\ ~Snapshot(t).del
  <1>1. active[t] # None /\ ~Snapshot(t).del
    BY DEF Reconciles, IsReconciled, IsDispatched
  <1> QED
    BY <1>1, SnapshotIsState DEF HistoryInv, StatesFit

\* Once cleanup has been called for a custom resource, reconcile is not called
\* for it any more: not for a state that was queued before, nor for one that a
\* relist, a retry or a restart brings back (handleDispatch, handleCleanup).
THEOREM NeverReconciledAfterCleanup ==
    VersionsAreResources /\ LoopSpec => NoReconcileAfterCleanup
  <1> SUFFICES ASSUME VersionsAreResources
               PROVE  LoopSpec => NoReconcileAfterCleanup
    OBVIOUS
  <1>1. LoopInv /\ HistoryInv /\ [LoopNext]_vars =>
           [\A t \in Threads : Reconciles(t) => ~WasCleaned(Snapshot(t).uid)]_vars
    BY ReconciledFits DEF FitsHistory, WasCleaned
  <1>2. LoopSpec => []LoopInv /\ []HistoryInv
    BY LoopInvariant, HistoryInvariant
  <1> QED
    BY <1>1, <1>2, PTL DEF LoopSpec, NoReconcileAfterCleanup

\* The reconciler never sees a custom resource go back to an earlier
\* generation, though executions are given what the cache had when they were
\* queued (EventProcessor.submitReconciliationExecution).
THEOREM ReconciledInOrder ==
    VersionsAreResources /\ LoopSpec => GenerationsAreReconciledInOrder
  <1> SUFFICES ASSUME VersionsAreResources
               PROVE  LoopSpec => GenerationsAreReconciledInOrder
    OBVIOUS
  <1>1. LoopInv /\ HistoryInv /\ [LoopNext]_vars =>
           [\A t \in Threads : Reconciles(t) =>
              \A n \in reconciled :
                  n[1] = Snapshot(t).uid => n[2] <= Snapshot(t).gen]_vars
    BY ReconciledFits DEF FitsHistory
  <1>2. LoopSpec => []LoopInv /\ []HistoryInv
    BY LoopInvariant, HistoryInvariant
  <1> QED
    BY <1>1, <1>2, PTL DEF LoopSpec, GenerationsAreReconciledInOrder
-------------------------------------------------------------------------------
(***************************************************************************)
(* The removal of a custom resource.                                       *)
(***************************************************************************)
\* A commit removes an object only when our finalizer is not on it.
LEMMA CommitRemoves ==
    ASSUME VersionsAreResources, LoopTypeOK, NEW x \in Resources,
           NEW obj \in CustomResource, Commit(x, obj),
           NEW r \in Resources, store[r] # None, store'[r] = None
    PROVE  x = r /\ ~obj.fin
  <1>1. Stamped(obj) # None
    BY CommitIsTyped, NoneAssumption DEF LoopTypeOK, VersionsAreResources
  <1> QED
    BY <1>1 DEF Commit, Removed, LoopTypeOK, ServerTypeOK

LEMMA UserRemoves ==
    ASSUME VersionsAreResources, LoopTypeOK, UserAction,
           NEW r \in Resources, store[r] # None, store'[r] = None
    PROVE  ~store[r].fin
  <1>1. PICK x \in Resources : \/ UserCreates(x) \/ UserUpdatesSpec(x)
                               \/ UserUpdatesMetadata(x) \/ UserDeletes(x)
                               \/ ForeignFinalizerRemoved(x)
    BY DEF UserAction
  <1>2. CASE UserCreates(x)
    <2>1. PICK foreign \in ForeignFinalizers :
             Commit(x, [rv |-> 0, uid |-> resourceVersion + 1, gen |-> 1,
                        fin |-> FALSE, foreign |-> foreign, del |-> FALSE,
                        ann |-> FALSE, obs |-> 0, err |-> FALSE])
      BY <1>2 DEF UserCreates
    <2>2. [rv |-> 0, uid |-> resourceVersion + 1, gen |-> 1,
           fin |-> FALSE, foreign |-> foreign, del |-> FALSE,
           ann |-> FALSE, obs |-> 0, err |-> FALSE] \in CustomResource
      BY ServerAssumption DEF LoopTypeOK, ServerTypeOK, CustomResource
    <2> QED
      BY <1>2, <2>1, <2>2, CommitRemoves DEF UserCreates
  <1>3. CASE store[x] # None
    <2>1. PICK o \in CustomResource : o = store[x]
      BY <1>3 DEF LoopTypeOK, ServerTypeOK
    <2>2. /\ [o EXCEPT !.gen = @ + 1] \in CustomResource
          /\ [o EXCEPT !.ann = FALSE] \in CustomResource
          /\ [o EXCEPT !.del = TRUE, !.gen = @ + 1] \in CustomResource
          /\ [o EXCEPT !.foreign = FALSE] \in CustomResource
      <3>1. o.gen + 1 \in Nat
        BY DEF CustomResource
      <3>2. [o EXCEPT !.gen = @ + 1] \in CustomResource
        BY <3>1 DEF CustomResource
      <3>3. [o EXCEPT !.del = TRUE, !.gen = @ + 1] \in CustomResource
        BY <3>1 DEF CustomResource
      <3>4. /\ [o EXCEPT !.ann = FALSE] \in CustomResource
            /\ [o EXCEPT !.foreign = FALSE] \in CustomResource
        BY DEF CustomResource
      <3> QED
        BY <3>2, <3>3, <3>4
    <2>3. /\ [o EXCEPT !.gen = @ + 1].fin = o.fin
          /\ [o EXCEPT !.ann = FALSE].fin = o.fin
          /\ [o EXCEPT !.del = TRUE, !.gen = @ + 1].fin = o.fin
          /\ [o EXCEPT !.foreign = FALSE].fin = o.fin
      BY DEF CustomResource
    <2>4. CASE UserDeletes(x) /\ ~(store[x].fin \/ store[x].foreign)
      BY <2>4 DEF UserDeletes, LoopTypeOK, ServerTypeOK
    <2>5. CASE \/ Commit(x, [o EXCEPT !.gen = @ + 1])
               \/ Commit(x, [o EXCEPT !.ann = FALSE])
               \/ Commit(x, [o EXCEPT !.del = TRUE, !.gen = @ + 1])
               \/ Commit(x, [o EXCEPT !.foreign = FALSE])
      BY <2>1, <2>2, <2>3, <2>5, CommitRemoves
    <2> QED
      BY <1>1, <1>3, <2>1, <2>4, <2>5 DEF UserCreates, UserUpdatesSpec,
           UserUpdatesMetadata, UserDeletes, ForeignFinalizerRemoved
  <1> QED
    BY <1>1, <1>2, <1>3 DEF UserUpdatesSpec, UserUpdatesMetadata, UserDeletes,
                            ForeignFinalizerRemoved

\* An object of which our finalizer was seen goes only after a cleanup.
LEMMA RemovalIsAsked ==
    ASSUME VersionsAreResources, LoopInv, HistoryInv, [LoopNext]_vars,
           NEW r \in Resources, UseFinalizer, store[r] # None, store'[r] = None
    PROVE  ~store[r].fin \/ RemovalAsked(store[r].uid)
  <1>1. LoopTypeOK
    BY DEF LoopInv
  <1>2. CASE UNCHANGED store
    BY <1>2
  <1>3. CASE Users
    BY <1>1, <1>3, UserRemoves DEF Users
  <1>4. ASSUME NEW t \in Threads, ApiCallEnds(t), store' # store
        PROVE  ~store[r].fin \/ RemovalAsked(store[r].uid)
    <2>1. /\ call[t] # None /\ active[t] # None
          /\ active[t].res \in Resources /\ CallExecuted(t)
      BY <1>4, SnapshotIsState DEF ApiCallEnds, ServerAnswers, CallRefused,
           serverVars, LoopInv, CallOfTask
    <2>2. PICK x \in Resources : x = active[t].res
      BY <2>1
    <2>3. PICK new : new = IF call[t].op \in StatusOps
                             THEN PutStatus(x, call[t].obj)
                             ELSE PutResource(x, call[t].obj)
      OBVIOUS
    <2>4. IsCurrent(x, call[t].obj) /\ Write(x, new)
      BY <2>1, <2>2, <2>3 DEF CallExecuted, StatusOps
    <2>5. new \in CustomResource /\ MayFollow(x, new) /\ store[x] # None
      BY <2>1, <2>2, <2>3, <2>4, WriteMayFollow
    <2>6. Commit(x, new)
      BY <1>4, <2>4 DEF Write, serverVars
    <2>7. x = r /\ ~new.fin
      BY <1>1, <2>5, <2>6, CommitRemoves
    <2> QED
      BY <2>5, <2>7 DEF MayFollow
  <1>5. ASSUME NEW t \in Threads,
               \/ Starts(t) \/ Dispatches(t) \/ Finishes(t) \/ Postpones(t)
        PROVE  UNCHANGED store
    BY <1>5 DEF Starts, Dispatches, Dispatch, Finishes, Postpones,
         otherThanProcessor, serverVars
  <1>6. ASSUME NEW x \in Resources, TimerRuns(x) \/ TimerDelivers(x)
        PROVE  UNCHANGED store
    BY <1>6 DEF TimerRuns, TimerDelivers, otherThanProcessor, serverVars
  <1>7. CASE \/ OperatorRestarts \/ ControllerSourceStarts
             \/ InformerStores \/ InformerRelists
             \/ FilterNotification \/ DeliverEvent \/ SecondaryUser
             \/ SecondaryStores \/ SecondaryPropagates \/ SecondaryEvent
             \/ TimerStarts \/ UNCHANGED vars
    BY <1>2, <1>7
       DEF OperatorRestarts, ControllerSourceStarts, InformerStores,
           InformerRelists, FilterNotification, DeliverEvent, SecondaryUser,
           SecondaryStores, SecondaryPropagates, SecondaryEvent, TimerStarts,
           otherThanInformer,
           otherThanProcessor, serverVars, vars
  <1> QED
    BY <1>2, <1>3, <1>4, <1>5, <1>6, <1>7 DEF LoopNext

\* With a finalizer, a custom resource that was ever given to the reconciler
\* leaves the cluster only after a cleanup that asked for the removal of the
\* finalizer, whatever stale resources are written, refused, relisted, or lost
\* in a crash (ReconciliationDispatcher.java:99-111, 244-253).
THEOREM NoneEscapesCleanup ==
    VersionsAreResources /\ LoopSpec => NoRemovalWithoutCleanup
  <1> SUFFICES ASSUME VersionsAreResources
               PROVE  LoopSpec => NoRemovalWithoutCleanup
    OBVIOUS
  <1>1. LoopInv /\ HistoryInv /\ [LoopNext]_vars =>
           [\A r \in Resources :
              UseFinalizer /\ store[r] # None /\ store'[r] = None
              /\ WasReconciled(store[r].uid)
                  => <<store[r].uid, "removeFinalizer">> \in cleaned]_vars
    <2> SUFFICES ASSUME LoopInv, HistoryInv, [LoopNext]_vars,
                        NEW r \in Resources, UseFinalizer,
                        store[r] # None, store'[r] = None,
                        WasReconciled(store[r].uid)
                 PROVE  RemovalAsked(store[r].uid)
      BY DEF RemovalAsked
    <2>1. FitsHistory(store[r])
      BY DEF HistoryInv, StatesFit, States, NewerThanTasks, NewerThanCache
    <2> QED
      BY <2>1, RemovalIsAsked DEF FitsHistory, WasReconciled
  <1>2. LoopSpec => []LoopInv /\ []HistoryInv
    BY LoopInvariant, HistoryInvariant
  <1> QED
    BY <1>1, <1>2, PTL DEF LoopSpec, NoRemovalWithoutCleanup
===============================================================================
