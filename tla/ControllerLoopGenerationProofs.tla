-------------------- MODULE ControllerLoopGenerationProofs --------------------
(***************************************************************************)
(* What the status of a custom resource says of its generations, and what  *)
(* a controller that is aware of the observed generation makes of it: a    *)
(* generation that is observed is not given to the reconciler because the  *)
(* operator was started again.  For that, every object has to be traced    *)
(* back to the one it was made from; and whatever the processor deals      *)
(* with, it must have begun to with a change the filters took for news.    *)
(*                                                                         *)
(* The last part is about the generations that are to be reconciled:  none *)
(* of them is ever forgotten.                                              *)
(***************************************************************************)
EXTENDS ControllerLoopEventProofs

\* The status of an object is of its generation or an earlier one, of an
\* earlier one once it is marked for deletion; and before the finalizer is
\* there no status is written.
WellFormed(o) ==
    /\ o.gen > 0 /\ o.obs <= o.gen
    /\ o.del => o.obs < o.gen
    /\ UseFinalizer /\ ~o.fin => o.obs = 0 \/ o.del
ObjectsAreWellFormed ==
    \A r \in Resources : \A o \in States(r) : WellFormed(o)

\* What a thread that was given v may ask the server for.
MayAskFor(op, obj, v) ==
    /\ obj.gen = v.gen /\ obj.del = v.del
    /\ op = "addFinalizer" =>
          /\ UseFinalizer /\ ~v.fin /\ ~v.del
          /\ obj = [v EXCEPT !.fin = TRUE]
    /\ op = "removeFinalizer" => v.del
    /\ op \notin {"addFinalizer", "removeFinalizer"} =>
          /\ <<v.uid, v.gen>> \in sinceStart
          /\ ~v.del
          /\ UseFinalizer => v.fin
    /\ op \in {"updateStatus", "observeGeneration"} => obj.obs = v.gen

\* When the server still has the version that is sent, it differs in nothing
\* that the call leaves alone.
IsUpToDate(op, obj, r) ==
    store[r] # None /\ store[r].rv = obj.rv =>
        /\ store[r].gen = obj.gen /\ store[r].del = obj.del
        /\ op = "errorStatus" => obj.obs \in {store[r].obs, obj.gen}
        /\ op \notin {"addFinalizer", "removeFinalizer"} /\ UseFinalizer
              => store[r].fin

CallAgrees(c, r, v) == MayAskFor(c.op, c.obj, v) /\ IsUpToDate(c.op, c.obj, r)
CallsAgree ==
    \A t \in Threads : call[t] # None =>
        CallAgrees(call[t], active[t].res, active[t].version)

\* The object o comes after s on the server.
Evolves(s, o) ==
    /\ o.uid = s.uid
    /\ s.del => o.del
    /\ UseFinalizer /\ s.fin /\ ~o.fin => s.del
    /\ \/ o.gen = s.gen /\ o.del = s.del /\ o.obs = s.obs
       \/ /\ o.gen = s.gen /\ o.del = s.del /\ o.obs = s.gen /\ o.fin = s.fin
          /\ ~s.del /\ (UseFinalizer => s.fin)
          /\ <<s.uid, s.gen>> \in sinceStart
       \/ o.gen = s.gen + 1 /\ o.obs = s.obs /\ o.fin = s.fin
IsNew(o) ==
    o.uid = resourceVersion + 1 /\ o.gen = 1 /\ o.obs = 0 /\ ~o.fin /\ ~o.del

\* Our finalizer was there before, or a task of that very object has added it.
FinalizerIsOfTask(c) ==
    c.obj.fin =>
        /\ store[c.res] # None
        /\ \/ store[c.res].fin
           \/ \E v \in TaskVersions(c.res) : v.uid = c.obj.uid
EvolvesBy(c) ==
    /\ Changed(c)
    /\ c.gone \/ IF store[c.res] = None THEN IsNew(c.obj)
                                        ELSE Evolves(store[c.res], c.obj)
    /\ FinalizerIsOfTask(c)
-------------------------------------------------------------------------------
(***************************************************************************)
(* Changes on the server.                                                  *)
(***************************************************************************)
LEMMA UsersEvolve ==
    ASSUME LoopTypeOK, UserAction
    PROVE  \E c : EvolvesBy(c)
  <1>1. PICK r \in Resources : \/ UserCreates(r) \/ UserUpdatesSpec(r)
                               \/ UserUpdatesMetadata(r) \/ UserDeletes(r)
                               \/ ForeignFinalizerRemoved(r)
    BY DEF UserAction
  <1>2. ServerTypeOK
    BY DEF LoopTypeOK
  <1>3. ASSUME NEW obj \in CustomResource, Commit(r, obj),
               IF store[r] = None THEN IsNew(obj)
                 ELSE Evolves(store[r], obj) /\ obj.fin = store[r].fin
        PROVE  \E c : EvolvesBy(c)
    <2>1. PICK c : Changed(c) /\ c.res = r /\ c.obj = Stamped(obj)
      BY <1>2, <1>3, CommitChanges
    <2>2. /\ Stamped(obj).uid = obj.uid /\ Stamped(obj).gen = obj.gen
          /\ Stamped(obj).obs = obj.obs /\ Stamped(obj).fin = obj.fin
          /\ Stamped(obj).del = obj.del
      BY DEF Stamped, CustomResource
    <2>3. IF store[r] = None THEN IsNew(Stamped(obj))
                             ELSE Evolves(store[r], Stamped(obj))
      BY <1>3, <2>2 DEF IsNew, Evolves
    <2>4. FinalizerIsOfTask(c)
      BY <1>3, <2>1, <2>2 DEF IsNew, FinalizerIsOfTask
    <2> QED
      BY <2>1, <2>3, <2>4 DEF EvolvesBy
  <1>4. CASE UserCreates(r)
    <2>1. PICK foreign \in ForeignFinalizers :
             Commit(r, [rv |-> 0, uid |-> resourceVersion + 1, gen |-> 1,
                        fin |-> FALSE, foreign |-> foreign, del |-> FALSE,
                        ann |-> FALSE, obs |-> 0, err |-> FALSE])
      BY <1>4 DEF UserCreates
    <2> DEFINE obj == [rv |-> 0, uid |-> resourceVersion + 1, gen |-> 1,
                       fin |-> FALSE, foreign |-> foreign, del |-> FALSE,
                       ann |-> FALSE, obs |-> 0, err |-> FALSE]
    <2>2. obj \in CustomResource
      BY <1>2, ServerAssumption DEF ServerTypeOK, CustomResource
    <2>3. IsNew(obj) /\ store[r] = None
      BY <1>4 DEF UserCreates, IsNew
    <2>4. Commit(r, obj)
      BY <2>1
    <2> HIDE DEF obj
    <2> QED
      BY <1>3, <2>2, <2>3, <2>4
  <1>5. CASE store[r] # None
    <2>1. PICK o \in CustomResource : o = store[r]
      BY <1>2, <1>5 DEF ServerTypeOK
    <2>2. o.gen + 1 \in Nat /\ resourceVersion + 1 \in Nat
      BY <1>2 DEF CustomResource, ServerTypeOK
    <2>3. /\ [o EXCEPT !.gen = @ + 1] \in CustomResource
          /\ Evolves(o, [o EXCEPT !.gen = @ + 1])
          /\ [o EXCEPT !.gen = @ + 1].fin = o.fin
      BY <2>2 DEF CustomResource, Evolves
    <2>4. /\ [o EXCEPT !.ann = FALSE] \in CustomResource
          /\ Evolves(o, [o EXCEPT !.ann = FALSE])
          /\ [o EXCEPT !.ann = FALSE].fin = o.fin
      BY DEF CustomResource, Evolves
    <2>5. /\ [o EXCEPT !.foreign = FALSE] \in CustomResource
          /\ Evolves(o, [o EXCEPT !.foreign = FALSE])
          /\ [o EXCEPT !.foreign = FALSE].fin = o.fin
      BY DEF CustomResource, Evolves
    <2>6. /\ [o EXCEPT !.del = TRUE, !.gen = @ + 1] \in CustomResource
          /\ Evolves(o, [o EXCEPT !.del = TRUE, !.gen = @ + 1])
          /\ [o EXCEPT !.del = TRUE, !.gen = @ + 1].fin = o.fin
      BY <2>2 DEF CustomResource, Evolves
    <2>7. CASE UserUpdatesSpec(r)
      BY <1>3, <1>5, <2>1, <2>3, <2>7 DEF UserUpdatesSpec
    <2>8. CASE UserUpdatesMetadata(r)
      BY <1>3, <1>5, <2>1, <2>4, <2>8 DEF UserUpdatesMetadata
    <2>9. CASE ForeignFinalizerRemoved(r)
      BY <1>3, <1>5, <2>1, <2>5, <2>9 DEF ForeignFinalizerRemoved
    <2>10. CASE UserDeletes(r)
      <3>1. CASE Commit(r, [o EXCEPT !.del = TRUE, !.gen = @ + 1])
        BY <1>3, <1>5, <2>1, <2>6, <3>1
      <3> DEFINE c == [res |-> r, obj |-> Stamped(o), gone |-> TRUE]
      <3>2. CASE /\ resourceVersion' = resourceVersion + 1
                 /\ store' = [store EXCEPT ![r] = None]
                 /\ watch' = Append(watch, c)
                 /\ UNCHANGED notifications
        <4>1. Stamped(o) \in CustomResource /\ Stamped(o).rv = resourceVersion + 1
          BY <2>2 DEF Stamped, CustomResource
        <4>2. c \in Change /\ Stamped(o).fin = o.fin
          BY <4>1 DEF Change, Stamped, CustomResource
        <4>3. FinalizerIsOfTask(c)
          BY <1>5, <2>1, <4>2 DEF FinalizerIsOfTask
        <4>4. EvolvesBy(c)
          BY <3>2, <4>1, <4>2, <4>3 DEF EvolvesBy, Changed, Leaves
        <4> QED
          BY <4>4
      <3> QED
        BY <2>1, <2>10, <3>1, <3>2 DEF UserDeletes
    <2> QED
      BY <1>1, <1>5, <2>7, <2>8, <2>9, <2>10 DEF UserCreates
  <1> QED
    BY <1>1, <1>4, <1>5 DEF UserCreates, UserUpdatesSpec, UserUpdatesMetadata,
                            UserDeletes, ForeignFinalizerRemoved

\* The version that the server has is the one of the task, if they have the
\* same resourceVersion.
LEMMA SameVersionIsSame ==
    ASSUME VersionsAreResources, LoopInv, HistoryInv,
           NEW t \in Threads, active[t] # None,
           store[active[t].res] # None,
           store[active[t].res].rv = Snapshot(t).rv
    PROVE  store[active[t].res] = Snapshot(t)
  <1>1. PICK r \in Resources : r = active[t].res
    BY SnapshotIsState
  <1>2. Snapshot(t) \in TaskVersions(r) /\ store[r] \in NewerThanTasks(r)
    BY <1>1 DEF TaskVersions, Snapshot, NewerThanTasks, NewerThanCache
  <1> QED
    BY <1>1, <1>2 DEF HistoryInv, InOrder, TasksFollowed, Follows

LEMMA ServerEvolves ==
    ASSUME VersionsAreResources, LoopInv, HistoryInv, CallsAgree,
           NEW t \in Threads, ServerAnswers(t)
    PROVE  (\E c : EvolvesBy(c)) \/ UNCHANGED serverVars
  <1>1. /\ call[t] # None /\ active[t] # None /\ LoopTypeOK /\ ServerTypeOK
        /\ call[t] \in ApiCall
    BY DEF ServerAnswers, LoopInv, CallOfTask, LoopTypeOK, DispatcherTypeOK
  <1>2. PICK r \in Resources : r = active[t].res
    BY <1>1, SnapshotIsState
  <1>3. CASE CallRefused(t)
    BY <1>3 DEF CallRefused
  <1>4. CASE CallExecuted(t)
    <2>1. PICK new : new = IF call[t].op \in StatusOps
                             THEN PutStatus(r, call[t].obj)
                             ELSE PutResource(r, call[t].obj)
      OBVIOUS
    <2>2. IsCurrent(r, call[t].obj) /\ Write(r, new)
      BY <1>2, <1>4, <2>1 DEF CallExecuted, StatusOps
    <2>3. /\ new \in CustomResource /\ store[r] # None
      BY <1>1, <1>2, <2>1, <2>2, WriteMayFollow
    <2>4. PICK s \in CustomResource : s = store[r]
      BY <1>1, <2>3 DEF ServerTypeOK
    <2>5. PICK o \in CustomResource : o = call[t].obj
      BY <1>1 DEF ApiCall
    <2>6. PICK op : op = call[t].op
      OBVIOUS
    <2>7. PICK v \in CustomResource : v = active[t].version
      BY <1>1, SnapshotIsState DEF Snapshot
    <2>8. /\ s.rv = o.rv /\ s.uid = o.uid /\ o.uid = v.uid /\ o.gen = v.gen
          /\ op \in {"addFinalizer", "updateResource", "updateResourceAndStatus"}
                => (UseFinalizer => o.fin)
      BY <1>1, <1>2, <2>2, <2>3, <2>4, <2>5, <2>6, <2>7
         DEF IsCurrent, HistoryInv, CallsFit, CallFits
    <2>9. MayAskFor(op, o, v) /\ IsUpToDate(op, o, r)
      BY <1>1, <1>2, <2>5, <2>6, <2>7 DEF CallsAgree, CallAgrees
    <2>10. s.gen = v.gen /\ s.del = v.del
      BY <2>3, <2>4, <2>8, <2>9 DEF MayAskFor, IsUpToDate
    <2>11. op \in {"addFinalizer", "removeFinalizer", "updateResource",
                   "updateResourceAndStatus"} \cup StatusOps
      BY <1>1, <2>6 DEF ApiCall, StatusOps
    <2>12. Evolves(s, new)
      <3>1. CASE op \in {"updateStatus", "observeGeneration"}
        <4>1. new = [s EXCEPT !.obs = o.obs, !.err = o.err]
          BY <2>1, <2>4, <2>5, <2>6, <3>1 DEF PutStatus, StatusOps
        <4>2. /\ new.uid = s.uid /\ new.gen = s.gen /\ new.del = s.del
              /\ new.fin = s.fin /\ new.obs = o.obs
          BY <4>1 DEF CustomResource
        <4>3. /\ ~s.del /\ (UseFinalizer => s.fin) /\ o.obs = s.gen
              /\ <<s.uid, s.gen>> \in sinceStart
          BY <2>3, <2>4, <2>8, <2>9, <2>10, <3>1 DEF MayAskFor, IsUpToDate
        <4> QED
          BY <4>2, <4>3 DEF Evolves
      <3>2. CASE op = "errorStatus"
        <4>1. new = [s EXCEPT !.obs = o.obs, !.err = o.err]
          BY <2>1, <2>4, <2>5, <2>6, <3>2 DEF PutStatus, StatusOps
        <4>2. /\ new.uid = s.uid /\ new.gen = s.gen /\ new.del = s.del
              /\ new.fin = s.fin /\ new.obs = o.obs
          BY <4>1 DEF CustomResource
        <4>3. /\ ~s.del /\ (UseFinalizer => s.fin) /\ o.obs \in {s.obs, s.gen}
              /\ <<s.uid, s.gen>> \in sinceStart
          BY <2>3, <2>4, <2>8, <2>9, <2>10, <3>2 DEF MayAskFor, IsUpToDate
        <4> QED
          BY <4>2, <4>3 DEF Evolves
      <3>3. CASE op \notin StatusOps
        <4>1. new = [s EXCEPT !.fin = o.fin, !.ann = o.ann]
          BY <2>1, <2>4, <2>5, <2>6, <3>3 DEF PutResource
        <4>2. /\ new.uid = s.uid /\ new.gen = s.gen /\ new.del = s.del
              /\ new.fin = o.fin /\ new.obs = s.obs
          BY <4>1 DEF CustomResource
        <4>3. UseFinalizer /\ ~o.fin => s.del
          BY <2>8, <2>9, <2>10, <2>11, <3>3 DEF MayAskFor
        <4> QED
          BY <4>2, <4>3 DEF Evolves
      <3> QED
        BY <3>1, <3>2, <3>3 DEF StatusOps
    <2>13. CASE new = store[r]
      BY <2>2, <2>13 DEF Write
    <2>14. CASE new # store[r]
      <3>1. PICK c : Changed(c) /\ c.res = r /\ c.obj = Stamped(new)
        BY <1>1, <2>2, <2>3, <2>14, CommitChanges DEF Write
      <3>2. /\ Stamped(new).uid = new.uid /\ Stamped(new).gen = new.gen
            /\ Stamped(new).obs = new.obs /\ Stamped(new).fin = new.fin
            /\ Stamped(new).del = new.del
        BY <2>3 DEF Stamped, CustomResource
      <3>3. Evolves(s, Stamped(new))
        BY <2>12, <3>2 DEF Evolves
      <3>4. v \in TaskVersions(r) /\ v.uid = s.uid
        BY <1>1, <1>2, <2>7, <2>8 DEF TaskVersions
      <3>5. FinalizerIsOfTask(c)
        BY <2>3, <2>4, <3>1, <3>2, <3>3, <3>4 DEF FinalizerIsOfTask, Evolves
      <3> QED
        BY <2>3, <2>4, <3>1, <3>3, <3>5 DEF EvolvesBy
    <2> QED
      BY <2>13, <2>14
  <1> QED
    BY <1>3, <1>4 DEF ServerAnswers
-------------------------------------------------------------------------------
(***************************************************************************)
(* Every state of a resource was there before the step, or is a change     *)
(* that evolves from the object of the server.                             *)
(***************************************************************************)
\* A step that is no restart forgets nothing of what the process was given.
LEMMA SinceStartGrows ==
    ASSUME VersionsAreResources, LoopInv, [LoopNext]_vars, ~OperatorRestarts
    PROVE  sinceStart \subseteq sinceStart'
  <1>1. ASSUME UNCHANGED dispatcherVars
        PROVE  sinceStart \subseteq sinceStart'
    BY <1>1 DEF dispatcherVars, historyVars
  <1>2. ASSUME NEW t \in Threads, Dispatches(t) \/ ApiCallEnds(t)
        PROVE  sinceStart \subseteq sinceStart'
    BY <1>2 DEF Dispatches, Dispatch, SkipsCleanup, AddsFinalizer, Reconciles,
                CleansUp, ApiCallEnds, ServerAnswers, historyVars
  <1> QED
    BY <1>1, <1>2
       DEF LoopNext, Users, ControllerSourceStarts, InformerStores,
           InformerRelists, FilterNotification, DeliverEvent, SecondaryUser,
           SecondaryStores, SecondaryPropagates, SecondaryEvent, TimerStarts,
           TimerRuns, TimerDelivers, Starts, Finishes, Postpones,
           otherThanInformer, otherThanProcessor, otherThanDelivery, vars

\* The changes on the server.
LEMMA StoreOfTheLoop ==
    ASSUME VersionsAreResources, LoopInv, HistoryInv, CallsAgree,
           [LoopNext]_vars
    PROVE  \/ /\ \E c : EvolvesBy(c)
              /\ UNCHANGED <<sinceStart, cache, delivering, underProcessing,
                             eventingState, whiteList, timerVars, queue, active>>
           \/ /\ UNCHANGED <<store, resourceVersion>>
              /\ \/ OperatorRestarts \/ InformerStores \/ InformerLists
                 \/ UNCHANGED watch
  <1>1. LoopTypeOK
    BY DEF LoopInv
  <1>2. CASE Users
    BY <1>1, <1>2, UsersEvolve
       DEF Users, otherThanDelivery, dispatcherVars, historyVars, epVars, taskVars
  <1>3. ASSUME NEW t \in Threads, ApiCallEnds(t)
        PROVE  \/ /\ \E c : EvolvesBy(c)
                  /\ UNCHANGED <<sinceStart, cache, delivering, underProcessing,
                             eventingState, whiteList, timerVars, queue, active>>
               \/ UNCHANGED serverVars
    <2>1. ServerAnswers(t) /\ UNCHANGED delivering
      BY <1>3 DEF ApiCallEnds
    <2>2. UNCHANGED <<sinceStart, cache, underProcessing, eventingState,
                      whiteList, timerVars, queue, active>>
      BY <2>1, DispatcherLeavesProcessor
         DEF OnlyAnswers, ServerAnswers, historyVars
    <2> QED
      BY <2>1, <2>2, ServerEvolves
  <1>4. ASSUME ~Users, \A t \in Threads : ~ApiCallEnds(t)
        PROVE  /\ UNCHANGED <<store, resourceVersion>>
               /\ \/ OperatorRestarts \/ InformerStores \/ InformerLists
                  \/ UNCHANGED watch
    BY <1>4
       DEF LoopNext, OperatorRestarts, InformerStores, InformerLists,
           InformerRelists, ControllerSourceStarts, FilterNotification, DeliverEvent, SecondaryUser,
           SecondaryStores, SecondaryPropagates, SecondaryEvent, TimerStarts,
           TimerRuns, TimerDelivers, Starts, Dispatches, Dispatch, Finishes,
           Postpones, otherThanInformer, otherThanProcessor, serverVars, vars
  <1> QED
    BY <1>2, <1>3, <1>4 DEF serverVars

\* The tasks in the loop.
LEMMA TasksOfTheLoop ==
    ASSUME VersionsAreResources, LoopInv, [LoopNext]_vars, ~OperatorRestarts
    PROVE  TasksAreKnown
  <1>1. TasksInv /\ LoopTypeOK
    BY DEF LoopInv
  <1>2. ASSUME UNCHANGED <<queue, active>>
        PROVE  TasksAreKnown
    BY <1>2 DEF TasksAreKnown
  <1>3. ASSUME NEW r \in Resources, NEW action, HandleEvent(r, action)
        PROVE  TasksAreKnown
    BY <1>1, <1>3, TasksStayKnown
  <1>4. CASE DeliverEvent
    <2>1. /\ delivering.res \in Resources
          /\ HandleEvent(delivering.res, delivering.action)
      BY <1>1, <1>4 DEF DeliverEvent, EventReceived, LoopTypeOK
    <2> QED
      BY <1>3, <2>1
  <1>5. CASE SecondaryEvent
    BY <1>2, <1>3, <1>5 DEF SecondaryEvent, EventReceived, epVars, taskVars
  <1>6. ASSUME NEW r \in Resources, TimerDelivers(r)
        PROVE  TasksAreKnown
    BY <1>3, <1>6 DEF TimerDelivers, TimerEventReceived
  <1>7. ASSUME NEW t \in Threads, Starts(t) \/ Finishes(t) \/ Postpones(t)
        PROVE  TasksAreKnown
    BY <1>1, <1>7, TasksStayKnown DEF Starts, Finishes, Postpones
  <1>8. ASSUME NEW t \in Threads, Dispatches(t) \/ ApiCallEnds(t)
        PROVE  TasksAreKnown
    BY <1>2, <1>8, DispatcherLeavesProcessor
       DEF Dispatches, ApiCallEnds, OnlyAnswers
  <1>9. CASE \/ Users \/ ControllerSourceStarts
             \/ InformerStores \/ InformerRelists \/ FilterNotification
             \/ SecondaryUser \/ SecondaryStores \/ SecondaryPropagates
             \/ TimerStarts \/ (\E r \in Resources : TimerRuns(r))
             \/ UNCHANGED vars
    BY <1>2, <1>9
       DEF Users, ControllerSourceStarts, InformerStores, InformerRelists,
           FilterNotification, SecondaryUser, SecondaryStores,
           SecondaryPropagates, TimerStarts,
           TimerRuns, TimerFires, otherThanTimer, otherThanInformer,
           otherThanDelivery, otherThanProcessor, taskVars, epVars, vars
  <1> QED
    BY <1>4, <1>5, <1>6, <1>7, <1>8, <1>9 DEF LoopNext

\* What a change adds to the states of a resource.
LEMMA StatesAfterChange ==
    ASSUME LoopTypeOK, NEW c, Changed(c), UNCHANGED <<cache, queue, active>>,
           NEW r \in Resources, NEW o \in States(r)'
    PROVE  o \in States(r) \/ (o = c.obj /\ c.res = r /\ ~c.gone)
  <1>1. /\ Len(watch) \in Nat
        /\ Len(watch') = Len(watch) + 1
        /\ \A i \in 1..Len(watch) : watch'[i] = watch[i]
        /\ watch'[Len(watch) + 1] = c
    BY AppendProperties, LenProperties DEF Changed, LoopTypeOK, ServerTypeOK
  <1>2. store'[r] = IF r = c.res THEN Leaves(c) ELSE store[r]
    BY DEF Changed, Change, LoopTypeOK, ServerTypeOK
  <1>3. TaskVersions(r)' = TaskVersions(r)
    BY DEF TaskVersions
  <1>4. CASE o \in TaskVersions(r)' \/ o \in ({cache[r]} \ {None})'
    BY <1>3, <1>4 DEF States, NewerThanTasks
  <1>5. CASE o = store'[r] /\ o # None
    BY <1>2, <1>5 DEF Leaves, States, NewerThanTasks, NewerThanCache
  <1>6. ASSUME NEW i \in Pending(r)', o = watch'[i].obj
        PROVE  o \in States(r) \/ (o = c.obj /\ c.res = r /\ ~c.gone)
    <2>1. i \in 1..Len(watch') /\ watch'[i].res = r /\ ~watch'[i].gone
      BY DEF Pending
    <2>2. CASE i = Len(watch) + 1
      BY <1>1, <1>6, <2>1, <2>2
    <2>3. CASE i # Len(watch) + 1
      BY <1>1, <1>6, <2>1, <2>3
         DEF Pending, States, NewerThanTasks, NewerThanCache
    <2> QED
      BY <2>2, <2>3
  <1> QED
    BY <1>4, <1>5, <1>6 DEF States, NewerThanTasks, NewerThanCache

\* Without a change the states are among those there were.
LEMMA StatesWithoutChange ==
    ASSUME VersionsAreResources, LoopInv, HistoryInv, [LoopNext]_vars,
           UNCHANGED <<store, resourceVersion>>,
           \/ OperatorRestarts \/ InformerStores \/ InformerLists
           \/ UNCHANGED watch,
           NEW r \in Resources
    PROVE  States(r)' \subseteq States(r)
  <1>1. LoopTypeOK
    BY DEF LoopInv
  <1>2. CASE OperatorRestarts
    <2>1. /\ watch' \in InitialLists
          /\ queue' = <<>>
          /\ active' = [t \in Threads |-> None]
          /\ cache' = [x \in Resources |-> None]
      BY <1>2 DEF OperatorRestarts
    <2>2. \A i \in 1..Len(watch') :
             /\ store[watch'[i].res] # None
             /\ watch'[i].obj = store[watch'[i].res]
      BY <1>1, <2>1, FirstListIsOfTheStore DEF LoopTypeOK
    <2>3. TaskVersions(r)' = {} /\ cache'[r] = None
      BY <2>1 DEF TaskVersions
    <2>4. NewerThanTasks(r)' \subseteq {store[r]} \ {None}
      BY <2>2, <2>3 DEF NewerThanTasks, NewerThanCache, Pending
    <2> QED
      BY <2>3, <2>4 DEF States, NewerThanTasks, NewerThanCache
  <1>3. CASE InformerStores
    <2> DEFINE c == Head(watch)
    <2>1. /\ Len(watch) \in Nat /\ 1 \in 1..Len(watch) /\ c = watch[1]
          /\ c \in Change
          /\ \A i \in 1..Len(watch') :
                i + 1 \in 1..Len(watch) /\ watch'[i] = watch[i + 1]
      BY <1>1, <1>3, TakenFromQueue, LenProperties
         DEF InformerStores, LoopTypeOK, ServerTypeOK
    <2>2. /\ cache' = [cache EXCEPT ![c.res] = IF c.gone THEN None ELSE c.obj]
          /\ UNCHANGED <<queue, active>>
      BY <1>3 DEF InformerStores, taskVars
    <2>3. c.res \in Resources
      BY <2>1 DEF Change
    <2> HIDE DEF c
    <2>4. cache'[r] # None =>
             cache'[r] = cache[r] \/ (1 \in Pending(r) /\ cache'[r] = watch[1].obj)
      BY <1>1, <2>1, <2>2, <2>3 DEF LoopTypeOK, EPTypeOK, Pending
    <2>5. \A i \in Pending(r)' : i + 1 \in Pending(r) /\ watch'[i] = watch[i + 1]
      BY <2>1 DEF Pending
    <2>6. TaskVersions(r)' = TaskVersions(r)
      BY <2>2 DEF TaskVersions
    <2> QED
      BY <2>4, <2>5, <2>6 DEF States, NewerThanTasks, NewerThanCache
  <1>4. CASE InformerLists
    <2>1. UNCHANGED <<queue, active, cache>>
      BY <1>4 DEF InformerLists, InformerRelists, ControllerSourceStarts,
                  epVars, taskVars
    <2>2. \A i \in 1..Len(watch') : \E j \in 1..Len(watch) :
             /\ watch'[i].res = watch[j].res
             /\ watch'[i].gone = watch[j].gone
             /\ ~watch'[i].gone => watch'[i].obj = watch[j].obj
      <3>1. /\ ServerTypeOK /\ cache \in [Resources -> CustomResource \cup {None}]
            /\ watch' \in Relists(cache)
        BY <1>1, <1>4 DEF LoopTypeOK, EPTypeOK, VersionsAreResources,
                          InformerLists, InformerRelists, ControllerSourceStarts
      <3> SUFFICES ASSUME NEW i \in 1..Len(watch')
                   PROVE  \E j \in 1..Len(watch) :
                      /\ watch'[i].res = watch[j].res
                      /\ watch'[i].gone = watch[j].gone
                      /\ ~watch'[i].gone => watch'[i].obj = watch[j].obj
        OBVIOUS
      <3> QED
        BY <3>1, RelistKeepsChanges
    <2>3. \A i \in Pending(r)' : \E j \in Pending(r) : watch'[i].obj = watch[j].obj
      BY <2>2 DEF Pending
    <2>4. TaskVersions(r)' = TaskVersions(r)
      BY <2>1 DEF TaskVersions
    <2> QED
      BY <2>1, <2>3, <2>4 DEF States, NewerThanTasks, NewerThanCache
  <1>5. CASE UNCHANGED watch /\ ~OperatorRestarts /\ ~InformerStores
    <2>1. TasksAreKnown /\ UNCHANGED cache
      BY <1>5, TasksOfTheLoop, CacheOfTheLoop
    <2>2. TaskVersions(r)' \subseteq TaskVersions(r) \cup ({cache[r]} \ {None})
      BY <2>1 DEF TasksAreKnown, TaskVersions
    <2>3. Pending(r)' = Pending(r) /\ NewerThanTasks(r)' = NewerThanTasks(r)
      BY <1>5, <2>1 DEF Pending, NewerThanTasks, NewerThanCache
    <2> QED
      BY <2>2, <2>3 DEF States, NewerThanTasks
  <1> QED
    BY <1>2, <1>3, <1>4, <1>5

LEMMA StatesOfTheLoop ==
    ASSUME VersionsAreResources, LoopInv, HistoryInv, CallsAgree,
           [LoopNext]_vars, NEW r \in Resources, NEW o \in States(r)'
    PROVE  \/ o \in States(r)
           \/ \E c : EvolvesBy(c) /\ o = c.obj /\ c.res = r /\ ~c.gone
  <1>1. CASE \E c : /\ EvolvesBy(c)
                    /\ UNCHANGED <<cache, queue, active>>
    BY <1>1, StatesAfterChange DEF EvolvesBy, LoopInv
  <1>2. CASE /\ UNCHANGED <<store, resourceVersion>>
             /\ \/ OperatorRestarts \/ InformerStores \/ InformerLists
                \/ UNCHANGED watch
    BY <1>2, StatesWithoutChange
  <1> QED
    BY <1>1, <1>2, StoreOfTheLoop

\* Well-formed objects lead to well-formed ones.
LEMMA EvolvesWellFormed ==
    ASSUME NEW s \in CustomResource, NEW o \in CustomResource,
           WellFormed(s), Evolves(s, o)
    PROVE  WellFormed(o)
  BY DEF WellFormed, Evolves, CustomResource

LEMMA ObjectsStayWellFormed ==
    ASSUME VersionsAreResources, LoopInv, HistoryInv, CallsAgree,
           ObjectsAreWellFormed, [LoopNext]_vars
    PROVE  ObjectsAreWellFormed'
  <1> SUFFICES ASSUME NEW r \in Resources, NEW o \in States(r)'
               PROVE  WellFormed(o)
    BY DEF ObjectsAreWellFormed, WellFormed
  <1>1. CASE o \in States(r)
    BY <1>1 DEF ObjectsAreWellFormed
  <1>2. ASSUME NEW c, EvolvesBy(c), o = c.obj, c.res = r, ~c.gone
        PROVE  WellFormed(o)
    <2>1. o \in CustomResource
      BY <1>2 DEF EvolvesBy, Changed, Change
    <2>2. CASE store[r] = None
      BY <1>2, <2>2 DEF EvolvesBy, IsNew, WellFormed
    <2>3. CASE store[r] # None
      <3>1. store[r] \in States(r) /\ store[r] \in CustomResource
        BY <2>3 DEF States, NewerThanTasks, NewerThanCache, LoopInv, LoopTypeOK,
                    ServerTypeOK
      <3>2. Evolves(store[r], o)
        BY <1>2, <2>3 DEF EvolvesBy
      <3> QED
        BY <2>1, <3>1, <3>2, EvolvesWellFormed DEF ObjectsAreWellFormed
    <2> QED
      BY <2>2, <2>3
  <1> QED
    BY <1>1, <1>2, StatesOfTheLoop
-------------------------------------------------------------------------------
(***************************************************************************)
(* The calls on their way.                                                 *)
(***************************************************************************)
CallAgreesOf(t) == CallAgrees(call[t], active[t].res, active[t].version)

\* What is sent stays as agreed: a change gives the object a version that no
\* call has.
LEMMA AgreementStays ==
    ASSUME LoopTypeOK, sinceStart \subseteq sinceStart',
           (\E c : EvolvesBy(c)) \/ UNCHANGED <<store, resourceVersion>>,
           NEW r \in Resources, NEW v, NEW op, NEW o \in CustomResource,
           MayAskFor(op, o, v), IsUpToDate(op, o, r), o.rv <= resourceVersion
    PROVE  MayAskFor(op, o, v)' /\ IsUpToDate(op, o, r)'
  <1>1. MayAskFor(op, o, v)'
    BY DEF MayAskFor
  <1>2. CASE UNCHANGED store
    BY <1>1, <1>2 DEF IsUpToDate
  <1>3. ASSUME NEW d, EvolvesBy(d)
        PROVE  IsUpToDate(op, o, r)'
    <2>1. /\ Changed(d) /\ resourceVersion \in Nat /\ o.rv \in Nat
          /\ store \in [Resources -> CustomResource \cup {None}]
      BY <1>3 DEF EvolvesBy, LoopTypeOK, ServerTypeOK, CustomResource
    <2>2. CASE d.res = r
      <3>1. store'[r] = None \/ store'[r].rv = resourceVersion + 1
        BY <2>1, <2>2 DEF Changed, Leaves
      <3>2. o.rv # resourceVersion + 1
        BY <2>1
      <3> QED
        BY <3>1, <3>2 DEF IsUpToDate
    <2>3. CASE d.res # r
      <3>1. store'[r] = store[r]
        BY <2>1, <2>3 DEF Changed
      <3> QED
        BY <3>1 DEF IsUpToDate
    <2> QED
      BY <2>2, <2>3
  <1> QED
    BY <1>1, <1>2, <1>3

\* So does a call on its way.
LEMMA CallStaysAgreed ==
    ASSUME VersionsAreResources, LoopInv, HistoryInv, CallsAgree,
           sinceStart \subseteq sinceStart',
           (\E c : EvolvesBy(c)) \/ UNCHANGED <<store, resourceVersion>>,
           NEW t \in Threads, call'[t] # None,
           call'[t] = call[t], active'[t] = active[t]
    PROVE  CallAgreesOf(t)'
  <1>1. PICK r \in Resources, c \in ApiCall, v \in CustomResource :
           r = active[t].res /\ c = call[t] /\ v = active[t].version
    BY SnapshotIsState DEF LoopInv, CallOfTask, LoopTypeOK, DispatcherTypeOK, Snapshot
  <1>a. PICK o \in CustomResource : o = c.obj
    BY DEF ApiCall
  <1>b. PICK op : op = c.op
    OBVIOUS
  <1>2. o = c.obj /\ op = c.op
    BY <1>a, <1>b
  <1>3. /\ MayAskFor(op, o, v) /\ IsUpToDate(op, o, r)
        /\ o.rv <= resourceVersion
    BY <1>1, <1>2 DEF CallsAgree, CallAgrees, HistoryInv, CallsFit, CallFits
  <1>4. MayAskFor(op, o, v)' /\ IsUpToDate(op, o, r)'
    BY <1>3, AgreementStays DEF LoopInv
  <1> QED
    BY <1>1, <1>2, <1>4 DEF CallAgreesOf, CallAgrees

\* A call with what the task was given agrees with the server.
LEMMA NewCallAgrees ==
    ASSUME VersionsAreResources, LoopInv, HistoryInv, NEW t \in Threads,
           active[t] # None, NEW op, NEW obj, NEW d, Calls(t, op, obj, d),
           UNCHANGED store,
           obj.rv = Snapshot(t).rv,
           op = "errorStatus" => obj.obs = Snapshot(t).obs,
           MayAskFor(op, obj, Snapshot(t))'
    PROVE  CallAgreesOf(t)'
  <1>1. /\ call'[t].op = op /\ call'[t].obj = obj /\ active' = active
    BY DEF Calls, epVars, taskVars, LoopInv, LoopTypeOK, DispatcherTypeOK
  <1>2. PICK r \in Resources, v \in CustomResource :
           r = active[t].res /\ v = Snapshot(t)
    BY SnapshotIsState
  <1>3. store[r] # None /\ store[r].rv = v.rv => store[r] = v
    BY <1>2, SameVersionIsSame
  <1>4. v' = v /\ Snapshot(t)' = v
    BY <1>1, <1>2 DEF Snapshot
  <1>5. MayAskFor(op, obj, v)'
    BY <1>2, <1>4
  <1>6. IsUpToDate(op, obj, r)'
    BY <1>2, <1>3, <1>5 DEF IsUpToDate, MayAskFor
  <1> QED
    BY <1>1, <1>2, <1>5, <1>6 DEF CallAgreesOf, CallAgrees, Snapshot

\* So does that of the ErrorStatusHandler, with the original that it was given.
LEMMA FailureAgrees ==
    ASSUME LoopInv, NEW t \in Threads, NEW r \in Resources,
           NEW v, active[t] # None, r = active[t].res, v = active[t].version,
           NEW o \in CustomResource, ReconcileFails(t, o), call'[t] # None,
           MayAskFor("errorStatus", o, v)', IsUpToDate("errorStatus", o, r)'
    PROVE  CallAgreesOf(t)'
  <1>1. PICK e : e = ErrorStatus(o)
    OBVIOUS
  <1>2. ~ \E p : Returns(t, p)
    BY DEF Returns, LoopInv, LoopTypeOK, DispatcherTypeOK
  <1>3. Calls(t, "errorStatus", e, FALSE)
    BY <1>1, <1>2 DEF ReconcileFails
  <1>4. /\ e.rv = o.rv /\ e.obs = o.obs /\ e.gen = o.gen /\ e.del = o.del
    BY <1>1 DEF ErrorStatus, CustomResource
  <1>5. MayAskFor("errorStatus", e, v)' /\ IsUpToDate("errorStatus", e, r)'
    BY <1>4 DEF MayAskFor, IsUpToDate
  <1>6. /\ call'[t].op = "errorStatus" /\ call'[t].obj = e /\ active' = active
    BY <1>3 DEF Calls, LoopInv, LoopTypeOK, DispatcherTypeOK, epVars, taskVars
  <1> QED
    BY <1>5, <1>6 DEF CallAgreesOf, CallAgrees

\* The resource that the task was given agrees with what the server has.
LEMMA SnapshotIsUpToDate ==
    ASSUME VersionsAreResources, LoopInv, HistoryInv, NEW t \in Threads,
           active[t] # None, UseFinalizer => Snapshot(t).fin
    PROVE  IsUpToDate("errorStatus", Snapshot(t), active[t].res)
  BY SameVersionIsSame DEF IsUpToDate

LEMMA DispatchAgrees ==
    ASSUME VersionsAreResources, LoopInv, HistoryInv, NEW t \in Threads,
           Dispatch(t), call'[t] # None
    PROVE  CallAgreesOf(t)'
  <1>1. /\ active[t] # None /\ UNCHANGED store
    BY DEF Dispatch, SkipsCleanup, AddsFinalizer, Reconciles, IsReconciled,
           CleansUp, IsDispatched, serverVars
  <1>2. PICK v \in CustomResource : v = Snapshot(t)
    BY <1>1, SnapshotIsState
  <1>3. \A p : ~Returns(t, p)
    BY DEF Returns, LoopInv, LoopTypeOK, DispatcherTypeOK
  <1>4. ASSUME NEW op, NEW obj, NEW d, Calls(t, op, obj, d), obj.rv = v.rv,
               op # "errorStatus", MayAskFor(op, obj, v)'
        PROVE  CallAgreesOf(t)'
    <2>1. Snapshot(t)' = v
      BY <1>2, <1>4 DEF Calls, Snapshot, epVars, taskVars
    <2> QED
      BY <1>1, <1>2, <1>4, <2>1, NewCallAgrees
  <1>5. CASE AddsFinalizer(t)
    <2>1. PICK obj : obj = [v EXCEPT !.fin = TRUE]
      OBVIOUS
    <2>2. /\ obj.rv = v.rv /\ obj.gen = v.gen /\ obj.del = v.del
      BY <2>1 DEF CustomResource
    <2>3. /\ Calls(t, "addFinalizer", obj, FALSE)
          /\ UseFinalizer /\ ~v.fin /\ ~v.del
      BY <1>2, <1>5, <2>1 DEF AddsFinalizer, NeedsFinalizer
    <2>4. MayAskFor("addFinalizer", obj, v)'
      BY <2>1, <2>2, <2>3 DEF MayAskFor
    <2> QED
      BY <1>4, <2>2, <2>3, <2>4
  <1>6. CASE Reconciles(t)
    <2>1. /\ <<v.uid, v.gen>> \in sinceStart'
          /\ ~v.del /\ (UseFinalizer => v.fin)
      BY <1>2, <1>6 DEF Reconciles, IsReconciled, NeedsFinalizer
    <2>2. ASSUME NEW outcome \in ReconcileOutcomes, NEW d,
                 ReconcileReturns(t, outcome, d)
          PROVE  CallAgreesOf(t)'
      <3>1. /\ StatusOf(v).rv = v.rv /\ StatusOf(v).gen = v.gen
            /\ StatusOf(v).del = v.del /\ StatusOf(v).obs = v.gen
        BY DEF StatusOf, CustomResource
      <3>2. PICK a : a = [v EXCEPT !.ann = TRUE]
        OBVIOUS
      <3>3. a.rv = v.rv /\ a.gen = v.gen /\ a.del = v.del
        BY <3>2 DEF CustomResource
      <3>4. \/ Calls(t, "updateStatus", StatusOf(v), d)
            \/ Calls(t, "observeGeneration", StatusOf(v), d)
            \/ /\ outcome \in {"updateResource", "updateResourceAndStatus"}
               /\ Calls(t, outcome, a, d)
        BY <1>2, <1>3, <2>2, <3>2 DEF ReconcileReturns
      <3>5. /\ MayAskFor("updateStatus", StatusOf(v), v)'
            /\ MayAskFor("observeGeneration", StatusOf(v), v)'
        BY <2>1, <3>1 DEF MayAskFor
      <3>6. outcome \in {"updateResource", "updateResourceAndStatus"}
               => MayAskFor(outcome, a, v)'
        BY <2>1, <3>3 DEF MayAskFor
      <3> QED
        BY <1>4, <3>1, <3>3, <3>4, <3>5, <3>6
    <2>3. ASSUME ReconcileFails(t, v) PROVE CallAgreesOf(t)'
      <3>1. PICK r \in Resources : r = active[t].res
        BY <1>1, SnapshotIsState
      <3>2. IsUpToDate("errorStatus", v, r)
        BY <1>1, <1>2, <2>1, <3>1, SnapshotIsUpToDate
      <3>3. MayAskFor("errorStatus", v, v)' /\ IsUpToDate("errorStatus", v, r)'
        BY <1>1, <2>1, <3>2 DEF MayAskFor, IsUpToDate
      <3> QED
        BY <1>1, <1>2, <2>3, <3>1, <3>3, FailureAgrees DEF Snapshot
    <2> QED
      BY <1>2, <1>6, <2>2, <2>3 DEF Reconciles
  <1>7. CASE CleansUp(t)
    <2>1. PICK obj : obj = [v EXCEPT !.fin = FALSE]
      OBVIOUS
    <2>2. /\ obj.rv = v.rv /\ obj.gen = v.gen /\ obj.del = v.del
      BY <2>1 DEF CustomResource
    <2>3. Calls(t, "removeFinalizer", obj, FALSE) /\ v.del
      BY <1>2, <1>3, <1>7, <2>1 DEF CleansUp, CleanupReturns
    <2>4. MayAskFor("removeFinalizer", obj, v)'
      BY <2>2, <2>3 DEF MayAskFor
    <2> QED
      BY <1>4, <2>2, <2>3, <2>4
  <1>8. ~SkipsCleanup(t)
    BY <1>3 DEF SkipsCleanup
  <1> QED
    BY <1>5, <1>6, <1>7, <1>8 DEF Dispatch

LEMMA AnswerAgrees ==
    ASSUME VersionsAreResources, LoopInv, HistoryInv, CallsAgree,
           NEW t \in Threads, ServerAnswers(t), call'[t] # None
    PROVE  CallAgreesOf(t)'
  <1>1. /\ call[t] # None /\ active[t] # None /\ LoopTypeOK /\ ServerTypeOK
        /\ sinceStart' = sinceStart
    BY DEF ServerAnswers, LoopInv, CallOfTask, LoopTypeOK, historyVars
  <1>2. PICK r \in Resources, v \in CustomResource :
           r = active[t].res /\ v = Snapshot(t)
    BY <1>1, SnapshotIsState
  <1>3. PICK c \in ApiCall : c = call[t]
    BY <1>1 DEF LoopTypeOK, DispatcherTypeOK
  <1>4. PICK o \in CustomResource : o = c.obj
    BY DEF ApiCall
  <1>5. /\ MayAskFor(c.op, o, v) /\ IsUpToDate(c.op, o, r)
        /\ c.op \in {"addFinalizer", "updateResource", "updateResourceAndStatus"}
              => (UseFinalizer => o.fin)
    BY <1>1, <1>2, <1>3, <1>4
       DEF CallsAgree, CallAgrees, Snapshot, HistoryInv, CallsFit, CallFits
  <1>6. \A p : ~Returns(t, p)
    BY DEF Returns, LoopInv, LoopTypeOK, DispatcherTypeOK
  <1>a. ASSUME CallThrows(t) PROVE CallAgreesOf(t)'
    <2>1. PICK e \in CustomResource :
             /\ e = Original(t) /\ e.rv <= resourceVersion
             /\ ReconcileFails(t, e)
      BY <1>1, <1>6, <1>a, OriginalsFit DEF CallThrows, OriginalFits
    <2>2. c.op \in {"updateResource", "updateResourceAndStatus", "updateStatus",
                    "observeGeneration"}
      BY <1>3, <1>6, <1>a DEF CallThrows
    <2>3. /\ <<v.uid, v.gen>> \in sinceStart /\ ~v.del
          /\ UseFinalizer => v.fin
      BY <1>5, <2>2 DEF MayAskFor
    <2>4. MayAskFor("errorStatus", e, v) /\ IsUpToDate("errorStatus", e, r)
      <3>1. CASE c.op = "observeGeneration"
        <4>1. e = o
          BY <1>3, <1>4, <2>1, <3>1 DEF Original
        <4> QED
          BY <1>5, <2>3, <3>1, <4>1 DEF MayAskFor, IsUpToDate
      <3>2. CASE c.op # "observeGeneration"
        <4>1. e = v
          BY <1>2, <1>3, <2>1, <3>2 DEF Original
        <4>2. IsUpToDate("errorStatus", v, r)
          BY <1>1, <1>2, <2>3, SnapshotIsUpToDate
        <4> QED
          BY <2>3, <4>1, <4>2 DEF MayAskFor
      <3> QED
        BY <3>1, <3>2
    <2>5. (\E d : EvolvesBy(d)) \/ UNCHANGED <<store, resourceVersion>>
      BY ServerEvolves DEF serverVars
    <2>6. MayAskFor("errorStatus", e, v)' /\ IsUpToDate("errorStatus", e, r)'
      BY <1>1, <2>1, <2>4, <2>5, AgreementStays
    <2> QED
      BY <1>1, <1>2, <2>1, <2>6, FailureAgrees DEF Snapshot
  <1>7. CASE CallRefused(t)
    BY <1>7, <1>a DEF CallRefused
  <1>8. CASE CallExecuted(t) /\ ~CallThrows(t)
    <2>1. PICK new : new = PutResource(r, o)
      OBVIOUS
    <2>2. /\ c.op = "updateResourceAndStatus"
          /\ IsCurrent(r, o) /\ Write(r, new)
          /\ UpdatesStatusNext(t, Written(r, new))
      BY <1>2, <1>3, <1>4, <1>6, <1>8, <2>1 DEF CallExecuted
    <2>3. PICK s \in CustomResource : s = store[r] /\ s # None /\ s.rv = o.rv
      BY <1>1, <2>2 DEF IsCurrent, ServerTypeOK
    <2>4. new = [s EXCEPT !.fin = o.fin, !.ann = o.ann]
      BY <2>1, <2>3 DEF PutResource
    <2>5. /\ new \in CustomResource
          /\ new.gen = s.gen /\ new.del = s.del /\ new.fin = o.fin
      BY <2>4 DEF CustomResource
    <2>6. /\ s.gen = v.gen /\ s.del = v.del /\ o.gen = v.gen /\ o.del = v.del
          /\ <<v.uid, v.gen>> \in sinceStart /\ ~v.del
          /\ (UseFinalizer => v.fin) /\ (UseFinalizer => o.fin)
      BY <1>5, <2>2, <2>3 DEF MayAskFor, IsUpToDate
    <2>7. PICK w \in CustomResource :
             /\ w = Written(r, new)
             /\ w.gen = new.gen /\ w.del = new.del /\ w.fin = new.fin
             /\ store'[r] # None => store'[r] = w
      <3>1. CASE new = store[r]
        BY <2>2, <2>3, <2>5, <3>1 DEF Write, Written, serverVars
      <3>2. CASE new # store[r]
        <4>1. Commit(r, new) /\ Written(r, new) = Stamped(new)
          BY <2>2, <3>2 DEF Write, Written
        <4>2. /\ Stamped(new) \in CustomResource
              /\ Stamped(new).gen = new.gen /\ Stamped(new).del = new.del
              /\ Stamped(new).fin = new.fin
          <5>1. resourceVersion + 1 \in Nat /\ new \in CustomResource
            BY <1>1, <2>5 DEF ServerTypeOK
          <5> QED
            BY <5>1 DEF Stamped, CustomResource
        <4>3. store'[r] # None => store'[r] = Stamped(new)
          BY <1>1, <4>1 DEF Commit, ServerTypeOK
        <4> QED
          BY <4>1, <4>2, <4>3
      <3> QED
        BY <3>1, <3>2
    <2>8. PICK n : n = StatusOf([o EXCEPT !.rv = w.rv])
      OBVIOUS
    <2>9. /\ n.gen = o.gen /\ n.del = o.del /\ n.obs = o.gen
      BY <2>8 DEF StatusOf, CustomResource
    <2>10. /\ call'[t].op = "updateStatus" /\ call'[t].obj = n
           /\ active' = active
      BY <1>1, <1>3, <1>4, <2>2, <2>7, <2>8
         DEF UpdatesStatusNext, LoopTypeOK, DispatcherTypeOK, epVars, taskVars
    <2>11. MayAskFor("updateStatus", n, v)'
      BY <1>1, <2>6, <2>9 DEF MayAskFor
    <2>12. IsUpToDate("updateStatus", n, r)'
      BY <2>5, <2>6, <2>7, <2>9 DEF IsUpToDate
    <2> QED
      BY <1>2, <2>10, <2>11, <2>12 DEF CallAgreesOf, CallAgrees, Snapshot
  <1> QED
    BY <1>7, <1>8, <1>a DEF ServerAnswers

\* What a thread waits for comes from its own steps.
LEMMA CallsOfTheLoop ==
    ASSUME VersionsAreResources, LoopInv, HistoryInv, AnswersFit,
           [LoopNext]_vars, ~OperatorRestarts, NEW t \in Threads, call'[t] # None
    PROVE  \/ call'[t] = call[t] /\ active'[t] = active[t]
           \/ Dispatches(t) \/ ApiCallEnds(t)
  <1>1. ASSUME UNCHANGED <<call, active>>
        PROVE  call'[t] = call[t] /\ active'[t] = active[t]
    BY <1>1
  <1>2. ASSUME NEW s \in Threads, Dispatches(s) \/ ApiCallEnds(s), s # t
        PROVE  call'[t] = call[t] /\ active'[t] = active[t]
    <2>1. Answers(s) \/ Updates(s)
      BY <1>2, DispatchAnswers, AnswersOfTheServer
         DEF Dispatches, ApiCallEnds, LoopInv
    <2> QED
      BY <1>2, <2>1 DEF Answers, Updates, LoopInv, LoopTypeOK,
                        DispatcherTypeOK
  <1>3. ASSUME NEW s \in Threads, Starts(s) \/ Finishes(s) \/ Postpones(s)
        PROVE  call'[t] = call[t] /\ active'[t] = active[t]
    <2>1. UNCHANGED call /\ call[t] # None
      BY <1>3 DEF Starts, Finishes, Postpones, otherThanProcessor,
                  otherThanDelivery, dispatcherVars, historyVars
    <2>2. active[t] # None /\ result[t] = None
      BY <2>1 DEF LoopInv, CallOfTask
    <2>3. s # t => active'[t] = active[t]
      BY <1>3 DEF LoopInv, LoopTypeOK, EPTypeOK, Starts, StartExecution,
           Finishes, EventProcessingFinished, HandleRetryOnException,
           FinishWithoutRetry, Postpones, PostponeReconciliation, ThreadDone
    <2>4. s # t
      BY <1>3, <2>2, NoneAssumption
         DEF Starts, StartExecution, Finishes, EventProcessingFinished,
             Postpones, PostponeReconciliation, LoopInv, TasksInv, Tasks,
             PostponedUnmarked
    <2> QED
      BY <2>1, <2>3, <2>4
  <1>4. CASE DeliverEvent
    <2>1. delivering.res \in Resources
      BY <1>4 DEF DeliverEvent, LoopInv, LoopTypeOK
    <2> QED
      BY <1>1, <1>4, <2>1 DEF DeliverEvent, EventReceived, HandleEvent,
           otherThanDelivery, dispatcherVars
  <1>5. CASE SecondaryEvent
    BY <1>1, <1>5 DEF SecondaryEvent, EventReceived, HandleEvent, epVars,
         taskVars, dispatcherVars
  <1>6. ASSUME NEW r \in Resources, TimerRuns(r) \/ TimerDelivers(r)
        PROVE  call'[t] = call[t] /\ active'[t] = active[t]
    BY <1>1, <1>6 DEF TimerRuns, TimerFires, TimerDelivers,
         TimerEventReceived, HandleEvent, otherThanTimer, taskVars,
         otherThanProcessor, otherThanDelivery, dispatcherVars
  <1>7. CASE \/ Users \/ ControllerSourceStarts
             \/ InformerStores \/ InformerRelists
             \/ FilterNotification \/ SecondaryUser \/ SecondaryStores
             \/ SecondaryPropagates \/ TimerStarts \/ UNCHANGED vars
    BY <1>1, <1>7
       DEF Users, ControllerSourceStarts, InformerStores, InformerRelists,
           FilterNotification,
           SecondaryUser, SecondaryStores, SecondaryPropagates, TimerStarts,
           otherThanTimer, otherThanInformer, otherThanDelivery,
           otherThanProcessor, dispatcherVars, taskVars, epVars, vars
  <1> QED
    BY <1>2, <1>3, <1>4, <1>5, <1>6, <1>7 DEF LoopNext

\* Every step keeps the calls in agreement with the server.
LEMMA CallsStayAgreed ==
    ASSUME VersionsAreResources, LoopInv, HistoryInv, AnswersFit, CallsAgree,
           [LoopNext]_vars
    PROVE  CallsAgree'
  <1>1. CASE OperatorRestarts
    BY <1>1 DEF OperatorRestarts, CallsAgree
  <1>2. CASE ~OperatorRestarts
    <2>1. sinceStart \subseteq sinceStart'
      BY <1>2, SinceStartGrows
    <2>2. (\E c : EvolvesBy(c)) \/ UNCHANGED <<store, resourceVersion>>
      BY StoreOfTheLoop
    <2>3. ASSUME NEW t \in Threads, call'[t] # None
          PROVE  \/ call'[t] = call[t] /\ active'[t] = active[t]
                 \/ Dispatches(t) \/ ApiCallEnds(t)
      BY <1>2, <2>3, CallsOfTheLoop
    <2>4. ASSUME NEW t \in Threads, call'[t] # None
          PROVE  CallAgreesOf(t)'
      <3>1. CASE call'[t] = call[t] /\ active'[t] = active[t]
        BY <2>1, <2>2, <2>4, <3>1, CallStaysAgreed
      <3>2. CASE Dispatches(t) \/ ApiCallEnds(t)
        BY <2>4, <3>2, DispatchAgrees, AnswerAgrees DEF Dispatches, ApiCallEnds
      <3> QED
        BY <2>3, <2>4, <3>1, <3>2
    <2> QED
      BY <2>4 DEF CallsAgree, CallAgreesOf
  <1> QED
    BY <1>1, <1>2
-------------------------------------------------------------------------------
\* What every step of the loop keeps of the objects and the calls.
ObjectInv == EventInv /\ ObjectsAreWellFormed /\ CallsAgree

LEMMA InitialObjects == LoopInit => ObjectInv
  <1> SUFFICES ASSUME LoopInit PROVE ObjectInv
    OBVIOUS
  <1>1. EventInv
    BY InitialEvents
  <1>2. /\ \A r \in Resources : store[r] = None /\ cache[r] = None
        /\ watch = <<>> /\ queue = <<>>
        /\ \A t \in Threads : active[t] = None /\ call[t] = None
    BY DEF LoopInit, EPInit, ServerInit, DispatcherInit
  <1>3. \A r \in Resources : States(r) = {}
    BY <1>2 DEF States, TaskVersions, NewerThanTasks, NewerThanCache, Pending
  <1> QED
    BY <1>1, <1>2, <1>3 DEF ObjectInv, ObjectsAreWellFormed, CallsAgree

LEMMA NextKeepsObjects ==
    ASSUME VersionsAreResources, ObjectInv, [LoopNext]_vars
    PROVE  ObjectInv'
  BY NextKeepsEvents, ObjectsStayWellFormed, CallsStayAgreed
     DEF ObjectInv, EventInv

\* A status never reports a later generation than its object has, nor that of
\* a deletion; it is written for the generation that a task was given and that
\* the server still has; and no status is written before the finalizer.
THEOREM ObjectInvariant == VersionsAreResources /\ LoopSpec => []ObjectInv
  <1> SUFFICES ASSUME VersionsAreResources PROVE LoopSpec => []ObjectInv
    OBVIOUS
  <1>1. LoopInit => ObjectInv
    BY InitialObjects
  <1>2. ObjectInv /\ [LoopNext]_vars => ObjectInv'
    BY NextKeepsObjects
  <1> QED
    BY <1>1, <1>2, PTL DEF LoopSpec
-------------------------------------------------------------------------------
(***************************************************************************)
(* ObservedIsNotRepeated: what the processor deals with is fresh.          *)
(***************************************************************************)
\* The generation of o is not observed yet, or this process has begun with it.
Fresh(o) == o.gen > o.obs \/ <<o.uid, o.gen>> \in sinceStart
FreshChange(c) == c.gone \/ Fresh(c.obj)
AllFresh(r) == \A o \in States(r) : Fresh(o)

\* What is fresh stays so: whatever comes after a fresh state is fresh.
StaysFresh(r) ==
    /\ cache[r] # None /\ Fresh(cache[r]) => \A o \in NewerThanCache(r) : Fresh(o)
    /\ \A i \in 1..Len(watch) : watch[i].res = r /\ FreshChange(watch[i]) =>
          /\ \A j \in Pending(r) : i < j => Fresh(watch[j].obj)
          /\ store[r] # None => Fresh(store[r])

\* The processor deals with r, or will.
Touched(r) ==
    \/ EventPresent(eventingState, r) \/ r \in underProcessing
    \/ r \in onceTasks \/ timerThread = r \/ r \in whiteList
    \/ delivering # None /\ delivering.res = r
    \/ \E t \in Threads : active[t] # None /\ active[t].res = r

\* The handler is notified of a deletion, or of a generation not yet observed.
ToBeObserved(o) == o # None /\ o.gen > o.obs
IsNews(n) == n.action = "DELETED" \/ ToBeObserved(n.new) \/ ToBeObserved(n.old)
NoteIsWellFormed(n) ==
    n.action # "DELETED" =>
        /\ n.new # None /\ WellFormed(n.new)
        /\ n.old # None => WellFormed(n.old)

\* No event comes from the secondary resources.
QuietSources ==
    \/ MaxSecondaryChanges = 0
    \/ \A to \in SecondaryTargets : to \subseteq {Unwatched}
IsQuiet ==
    /\ secondary.to \subseteq {Unwatched}
    /\ \A i \in 1..Len(secondaryNotifications) :
          secondaryNotifications[i].to \subseteq {Unwatched}
    /\ propagating \subseteq {Unwatched}

FreshInv ==
    /\ \A r \in Resources : StaysFresh(r) /\ (Touched(r) => AllFresh(r))
    /\ \A i \in 1..Len(notifications) :
          /\ NoteIsWellFormed(notifications[i])
          /\ IsNews(notifications[i]) => AllFresh(notifications[i].res)
    /\ IsQuiet
-------------------------------------------------------------------------------
(***************************************************************************)
(* The processor begins to deal with a resource only for an accepted       *)
(* change.                                                                 *)
(***************************************************************************)
LEMMA SourcesStayQuiet ==
    ASSUME QuietSources, LoopTypeOK, IsQuiet, [LoopNext]_vars
    PROVE  IsQuiet'
  <1>1. /\ secondary \in Secondary
        /\ secondaryNotifications \in Seq(SecondaryNotification)
        /\ Len(secondaryNotifications) \in Nat
    BY LenProperties DEF LoopTypeOK, InformerTypeOK
  <1>2. CASE UNCHANGED informerVars
    BY <1>2 DEF informerVars, IsQuiet
  <1>3. CASE OperatorRestarts
    <2>1. secondaryNotifications' = <<>> /\ propagating' = {} /\ secondary' = secondary
      BY <1>3 DEF OperatorRestarts, InformerRestarts
    <2>2. Len(secondaryNotifications') = 0
      BY <2>1
    <2> QED
      BY <2>1, <2>2 DEF IsQuiet
  <1>4. CASE SecondaryUser
    <2>1. CASE SecondaryChanges
      <3>1. PICK to \in SecondaryTargets :
               secondary' = [version |-> secondary.version + 1, to |-> to]
        BY <2>1 DEF SecondaryChanges
      <3>2. secondary'.to = to /\ secondary.version < MaxSecondaryChanges
        BY <2>1, <3>1 DEF SecondaryChanges
      <3>3. to \subseteq {Unwatched}
        BY <1>1, <3>2 DEF QuietSources, Secondary
      <3> QED
        BY <2>1, <3>2, <3>3 DEF SecondaryChanges, IsQuiet
    <2>2. CASE SecondaryInformerResyncs
      BY <2>2 DEF SecondaryInformerResyncs, IsQuiet
    <2> QED
      BY <1>4, <2>1, <2>2 DEF SecondaryUser
  <1>5. CASE SecondaryStores
    <2>1. PICK n \in SecondaryNotification :
             n = [to |-> secondary.to, old |-> secondaryStore,
                  new |-> secondary.version]
      BY <1>1 DEF Secondary, SecondaryNotification, LoopTypeOK, InformerTypeOK
    <2>2. /\ secondaryNotifications' = Append(secondaryNotifications, n)
          /\ UNCHANGED <<secondary, propagating>>
          /\ n.to \subseteq {Unwatched}
      BY <1>5, <2>1 DEF SecondaryStores, SecondaryInformerStores, IsQuiet
    <2>3. \A i \in 1..Len(secondaryNotifications') :
             \/ i \in 1..Len(secondaryNotifications)
                /\ secondaryNotifications'[i] = secondaryNotifications[i]
             \/ secondaryNotifications'[i] = n
      BY <1>1, <2>2, AppendProperties
    <2> QED
      BY <2>2, <2>3 DEF IsQuiet
  <1>6. CASE SecondaryPropagates
    <2>1. /\ secondaryNotifications # <<>>
          /\ secondaryNotifications' = Tail(secondaryNotifications)
          /\ propagating' \subseteq Head(secondaryNotifications).to
          /\ secondary' = secondary
      BY <1>6 DEF SecondaryPropagates, PropagateEvent
    <2>2. /\ 1 \in 1..Len(secondaryNotifications)
          /\ Head(secondaryNotifications) = secondaryNotifications[1]
          /\ \A i \in 1..Len(secondaryNotifications') :
                /\ i + 1 \in 1..Len(secondaryNotifications)
                /\ secondaryNotifications'[i] = secondaryNotifications[i + 1]
      BY <1>1, <2>1, TakenFromQueue
    <2> QED
      BY <2>1, <2>2 DEF IsQuiet
  <1>7. CASE SecondaryEvent
    BY <1>7 DEF SecondaryEvent, Visits, VisitThrows, IsQuiet
  <1> QED
    BY <1>2, <1>3, <1>4, <1>5, <1>6, <1>7
       DEF LoopNext, Users, ControllerSourceStarts, InformerStores,
           InformerRelists, FilterNotification,
           DeliverEvent, TimerStarts, TimerRuns, TimerDelivers, Starts,
           Dispatches, ApiCallEnds, Finishes, Postpones, otherThanDelivery,
           otherThanProcessor, vars

\* A handler of the processor for x touches no other resource.
TouchesOnly(x) ==
    \A r \in Resources \ {x} :
        /\ EventPresent(eventingState', r) => EventPresent(eventingState, r)
        /\ r \in underProcessing' => r \in underProcessing
        /\ r \in onceTasks' => r \in onceTasks

LEMMA SubmissionTouchesOne ==
    ASSUME NEW x \in Resources, NEW up, NEW em \in [Resources -> EventingState],
           NEW rs, SubmitReconciliationExecution(x, up, em, rs),
           \A r \in Resources \ {x} :
              /\ EventPresent(em, r) => EventPresent(eventingState, r)
              /\ r \in up => r \in underProcessing
    PROVE  \A r \in Resources \ {x} :
              /\ EventPresent(eventingState', r) => EventPresent(eventingState, r)
              /\ r \in underProcessing' => r \in underProcessing
  BY DEF SubmitReconciliationExecution, SkipExecution, UnMarkEventReceived,
         EventPresent

LEMMA HandleEventTouchesOne ==
    ASSUME EPTypeOK, NEW x \in Resources, NEW action, HandleEvent(x, action)
    PROVE  TouchesOnly(x)
  <1>1. /\ MarkEventReceived(eventingState, x) \in [Resources -> EventingState]
        /\ \A r \in Resources \ {x} :
              /\ MarkEventReceived(eventingState, x)[r] = eventingState[r]
              /\ CleanupMarker(MarkDeleteEventReceived(eventingState, x), x)[r]
                    = eventingState[r]
    BY DEF EPTypeOK, MarkEventReceived, CleanupMarker, MarkDeleteEventReceived,
           EventingState
  <1>2. CASE SubmitReconciliationExecution(x, underProcessing,
                 MarkEventReceived(eventingState, x), retryState)
             /\ UNCHANGED onceTasks
    BY <1>1, <1>2, SubmissionTouchesOne DEF TouchesOnly, EventPresent
  <1>3. CASE UNCHANGED <<underProcessing, eventingState, onceTasks>>
    BY <1>3 DEF TouchesOnly
  <1>4. CASE /\ eventingState' =
                CleanupMarker(MarkDeleteEventReceived(eventingState, x), x)
             /\ onceTasks' = CancelOnceSchedule(onceTasks, x)
             /\ UNCHANGED <<underProcessing, queue>>
    BY <1>1, <1>4 DEF TouchesOnly, EventPresent, CancelOnceSchedule
  <1> QED
    BY <1>2, <1>3, <1>4, OwnSourcesAssumption
       DEF HandleEvent, CleanupForDeletedEvent

LEMMA FinishTouchesOne ==
    ASSUME TasksInv, NEW t \in Threads, EventProcessingFinished(t)
    PROVE  TouchesOnly(active[t].res)
  <1>1. PICK x \in Resources : x = active[t].res
    BY FinishedTask DEF EventProcessingFinished
  <1>2. /\ MarkEventReceived(eventingState, x) \in [Resources -> EventingState]
        /\ eventingState \in [Resources -> EventingState]
        /\ \A r \in Resources \ {x} :
              /\ MarkEventReceived(eventingState, x)[r] = eventingState[r]
              /\ CleanupMarker(eventingState, x)[r] = eventingState[r]
        /\ UnsetUnderExecution(x) \subseteq underProcessing
    BY DEF TasksInv, EPTypeOK, MarkEventReceived, CleanupMarker, EventingState,
           UnsetUnderExecution
  <1>3. \A r \in Resources \ {x} :
           /\ r \in CancelOnceSchedule(onceTasks, x) => r \in onceTasks
           /\ \A tasks : r \in ScheduleOnce(tasks, x) => r \in tasks
    BY DEF CancelOnceSchedule, ScheduleOnce
  <1>4. CASE HandleRetryOnException(t, x)
    <2>1. /\ \/ SubmitReconciliationExecution(x, UnsetUnderExecution(x),
                    MarkEventReceived(eventingState, x),
                    GetOrInitRetry(retryState, x))
             \/ /\ underProcessing' = UnsetUnderExecution(x)
                /\ eventingState' = MarkEventReceived(eventingState, x)
          /\ onceTasks' = onceTasks \/ onceTasks' = ScheduleOnce(onceTasks, x)
      BY <1>4 DEF HandleRetryOnException
    <2>2. \A r \in Resources \ {x} : r \in onceTasks' => r \in onceTasks
      BY <1>3, <2>1
    <2>3. CASE SubmitReconciliationExecution(x, UnsetUnderExecution(x),
                   MarkEventReceived(eventingState, x),
                   GetOrInitRetry(retryState, x))
      BY <1>1, <1>2, <2>2, <2>3, SubmissionTouchesOne DEF TouchesOnly, EventPresent
    <2>4. CASE /\ underProcessing' = UnsetUnderExecution(x)
               /\ eventingState' = MarkEventReceived(eventingState, x)
      BY <1>1, <1>2, <2>2, <2>4 DEF TouchesOnly, EventPresent
    <2> QED
      BY <1>1, <2>1, <2>3, <2>4
  <1>5. CASE FinishWithoutRetry(t, x)
    <2> DEFINE cancelled == CancelOnceSchedule(onceTasks, x)
    <2>1. \/ onceTasks' = cancelled \/ onceTasks' = ScheduleOnce(cancelled, x)
          \/ onceTasks' = CancelOnceSchedule(cancelled, x)
      BY <1>5, OwnSourcesAssumption
         DEF FinishWithoutRetry, CleanupForDeletedEvent
    <2>2. \A r \in Resources \ {x} : r \in onceTasks' => r \in onceTasks
      BY <1>3, <2>1 DEF CancelOnceSchedule
    <2>3. \/ SubmitReconciliationExecution(x, UnsetUnderExecution(x),
                 eventingState, ForgetRetry(x))
          \/ /\ underProcessing' = UnsetUnderExecution(x)
             /\ \/ eventingState' = eventingState
                \/ eventingState' = CleanupMarker(eventingState, x)
      BY <1>5, OwnSourcesAssumption
         DEF FinishWithoutRetry, CleanupForDeletedEvent
    <2>4. CASE SubmitReconciliationExecution(x, UnsetUnderExecution(x),
                   eventingState, ForgetRetry(x))
      BY <1>1, <1>2, <2>2, <2>4, SubmissionTouchesOne DEF TouchesOnly
    <2>5. CASE /\ underProcessing' = UnsetUnderExecution(x)
               /\ \/ eventingState' = eventingState
                  \/ eventingState' = CleanupMarker(eventingState, x)
      BY <1>1, <1>2, <2>2, <2>5 DEF TouchesOnly, EventPresent
    <2> QED
      BY <1>1, <2>3, <2>4, <2>5
  <1>6. CASE UNCHANGED <<underProcessing, eventingState, onceTasks>>
    BY <1>6 DEF TouchesOnly
  <1> QED
    BY <1>1, <1>4, <1>5, <1>6 DEF EventProcessingFinished

\* A handler touches a resource that was touched.
LEMMA HandlerTouches ==
    ASSUME NEW x \in Resources, TouchesOnly(x), Touched(x),
           whiteList' \subseteq whiteList \cup {x},
           timerThread' \in {timerThread, None},
           delivering' \in {delivering, None},
           \A t \in Threads : active'[t] # None => active'[t] = active[t],
           NEW r \in Resources, Touched(r)'
    PROVE  Touched(r)
  <1>1. CASE r = x
    BY <1>1
  <1>2. CASE r # x
    <2>1. r # None
      BY ResourceIDAssumption
    <2> QED
      BY <1>2, <2>1 DEF Touched, TouchesOnly
  <1> QED
    BY <1>1, <1>2

\* What the processor has not begun to deal with, it begins to deal with only
\* when the informer's handler accepts a change of it.
LEMMA TouchOfTheLoop ==
    ASSUME VersionsAreResources, LoopInv, IsQuiet, [LoopNext]_vars,
           ~OperatorRestarts, NEW r \in Resources, Touched(r)', ~Touched(r)
    PROVE  \E n \in Notification :
              /\ FilterNotification /\ n = Head(notifications) /\ n.res = r
              /\ OtherFiltersAccept(n.old, n.new)
  <1>1. /\ LoopTypeOK /\ EPTypeOK /\ TasksInv /\ ServerTypeOK
        /\ r # None
    BY ResourceIDAssumption DEF LoopInv, LoopTypeOK
  <1>2. ASSUME UNCHANGED <<eventingState, underProcessing, onceTasks, timerThread,
                           delivering, active>>,
               whiteList' \subseteq whiteList
        PROVE  FALSE
    BY <1>2 DEF Touched
  <1>3. ASSUME NEW t \in Threads, Starts(t)
        PROVE  FALSE
    <2>1. /\ queue # <<>>
          /\ active' = [active EXCEPT ![t] = Head(queue)]
          /\ UNCHANGED <<eventingState, underProcessing, onceTasks, timerThread,
                         delivering, whiteList>>
      BY <1>3 DEF Starts, StartExecution, timerVars, otherThanProcessor
    <2>2. Head(queue) = queue[1] /\ 1 \in 1..Len(queue)
      BY <1>1, <2>1, TakenFromQueue DEF EPTypeOK
    <2>3. Head(queue).res \in underProcessing
      BY <1>1, <2>2 DEF TasksInv, Tasks, QueueMarked
    <2>4. \A s \in Threads : active'[s] = active[s] \/ active'[s] = Head(queue)
      BY <1>1, <2>1 DEF EPTypeOK
    <2> QED
      BY <2>1, <2>3, <2>4 DEF Touched
  <1>4. ASSUME NEW t \in Threads, Finishes(t)
        PROVE  FALSE
    <2>1. PICK x \in Resources : x = active[t].res /\ active[t] # None
      BY <1>1, <1>4, FinishedTask DEF Finishes, EventProcessingFinished
    <2>2. TouchesOnly(x) /\ Touched(x)
      BY <1>1, <1>4, <2>1, FinishTouchesOne DEF Finishes, Touched
    <2>3. UNCHANGED <<whiteList, timerThread, delivering>>
      BY <1>4 DEF Finishes, EventProcessingFinished, otherThanProcessor
    <2>4. \A s \in Threads : active'[s] # None => active'[s] = active[s]
      BY <1>1, <1>4 DEF Finishes, EventProcessingFinished,
         HandleRetryOnException, FinishWithoutRetry, ThreadDone, EPTypeOK
    <2> QED
      BY <2>2, <2>3, <2>4, HandlerTouches
  <1>5. ASSUME NEW t \in Threads, Postpones(t)
        PROVE  FALSE
    <2>1. /\ lockHolder = t /\ t # None
          /\ WhitelistNextEvent(active[t].res) /\ ThreadDone(t)
          /\ UNCHANGED <<underProcessing, eventingState, timerVars, delivering>>
      BY <1>5, NoneAssumption DEF Postpones, PostponeReconciliation,
           otherThanProcessor
    <2>2. PICK x \in Resources : x = active[t].res /\ active[t] # None
      BY <1>1, <2>1, FinishedTask DEF TasksInv, Tasks, PostponedUnmarked
    <2>3. TouchesOnly(x) /\ Touched(x)
      BY <2>1, <2>2 DEF TouchesOnly, Touched, timerVars
    <2>4. \A s \in Threads : active'[s] # None => active'[s] = active[s]
      BY <1>1, <2>1 DEF ThreadDone, EPTypeOK
    <2> QED
      BY <2>1, <2>2, <2>3, <2>4, HandlerTouches DEF WhitelistNextEvent, timerVars
  <1>6. ASSUME NEW t \in Threads, Dispatches(t) \/ ApiCallEnds(t)
        PROVE  FALSE
    <2>1. OnlyAnswers /\ UNCHANGED delivering
      BY <1>6, DispatcherLeavesProcessor DEF Dispatches, ApiCallEnds
    <2> QED
      BY <1>2, <2>1 DEF OnlyAnswers, timerVars
  <1>7. CASE DeliverEvent
    <2>1. PICK x \in Resources : x = delivering.res
      BY <1>1, <1>7 DEF DeliverEvent, LoopTypeOK
    <2>2. /\ HandleEvent(x, delivering.action)
          /\ delivering # None /\ delivering' = None /\ UNCHANGED timerThread
      BY <1>7, <2>1 DEF DeliverEvent, EventReceived
    <2>3. TouchesOnly(x) /\ Touched(x)
      BY <1>1, <2>1, <2>2, HandleEventTouchesOne DEF Touched
    <2>4. UNCHANGED <<whiteList, active>>
      BY <2>2 DEF HandleEvent
    <2> QED
      BY <2>2, <2>3, <2>4, HandlerTouches
  <1>8. ASSUME NEW x \in Resources, TimerDelivers(x)
        PROVE  FALSE
    <2>1. /\ HandleEvent(x, "TIMER") /\ timerThread = x
          /\ timerThread' = None /\ UNCHANGED delivering
      BY <1>8 DEF TimerDelivers, TimerEventReceived, otherThanProcessor
    <2>2. TouchesOnly(x) /\ Touched(x)
      BY <1>1, <2>1, HandleEventTouchesOne DEF Touched
    <2>3. UNCHANGED <<whiteList, active>>
      BY <2>1 DEF HandleEvent
    <2> QED
      BY <2>1, <2>2, <2>3, HandlerTouches
  <1>9. ASSUME NEW x \in Resources, TimerRuns(x)
        PROVE  FALSE
    <2>1. /\ UNCHANGED <<underProcessing, eventingState, delivering, active,
                         whiteList>>
          /\ x \in onceTasks
          /\ onceTasks' = onceTasks \ {x} /\ timerThread' = x
      BY <1>9 DEF TimerRuns, TimerFires, FireTimer, otherThanTimer,
                  otherThanProcessor, taskVars
    <2> QED
      BY <2>1 DEF Touched
  <1>10. CASE SecondaryEvent
    <2>1. \A x \in Resources : ~Visits(x) /\ ~VisitThrows(x)
      BY InformerAssumption DEF Visits, VisitThrows, IsQuiet
    <2> QED
      BY <1>2, <1>10, <2>1 DEF SecondaryEvent, epVars, taskVars, timerVars
  <1>11. CASE FilterNotification
    <2>1. PICK n \in Notification : n = Head(notifications)
      BY <1>1, <1>11, TakenFromQueue DEF FilterNotification, ServerTypeOK
    <2>2. /\ UNCHANGED <<eventingState, underProcessing, onceTasks, timerThread,
                         active>>
          /\ whiteList' \subseteq whiteList
      BY <1>11 DEF FilterNotification, taskVars, timerVars
    <2>3. delivering' # None /\ delivering'.res = r
      BY <2>2 DEF Touched
    <2>4. /\ AcceptChange(n.res, n.old, n.new)
          /\ n.res = r
      BY <1>11, <2>1, <2>3 DEF FilterNotification
    <2>5. r \notin whiteList
      BY DEF Touched
    <2> QED
      BY <1>11, <2>1, <2>4, <2>5 DEF AcceptChange, WhitelistAccepts
  <1>12. CASE \/ Users \/ ControllerSourceStarts
              \/ InformerStores \/ InformerRelists \/ SecondaryUser
              \/ SecondaryStores \/ SecondaryPropagates \/ TimerStarts
              \/ UNCHANGED vars
    BY <1>2, <1>12
       DEF Users, ControllerSourceStarts, InformerStores, InformerRelists,
           SecondaryUser,
           SecondaryStores, SecondaryPropagates, TimerStarts, StartTimer,
           otherThanTimer, otherThanInformer, otherThanProcessor,
           timerVars, taskVars, epVars, vars
  <1> QED
    BY <1>3, <1>4, <1>5, <1>6, <1>7, <1>8, <1>9, <1>10, <1>11, <1>12
       DEF LoopNext

\* A task is of a resource that is touched.
LEMMA TasksAreTouched ==
    ASSUME LoopInv, NEW r \in Resources, ~Touched(r)
    PROVE  TaskVersions(r) = {}
  <1>1. \A i \in 1..Len(queue) : queue[i].res # r
    BY DEF LoopInv, TasksInv, Tasks, QueueMarked, Touched
  <1> QED
    BY <1>1 DEF TaskVersions, Touched

\* What the server makes of an object that is fresh is fresh.
LEMMA ChangeIsFresh ==
    ASSUME ServerTypeOK, ObjectsAreWellFormed, NEW c, EvolvesBy(c), ~c.gone,
           store[c.res] # None => Fresh(store[c.res])
    PROVE  Fresh(c.obj)
  <1>1. c.res \in Resources /\ c.obj \in CustomResource
    BY DEF EvolvesBy, Changed, Change
  <1>2. CASE store[c.res] = None
    BY <1>2 DEF EvolvesBy, IsNew, Fresh
  <1>3. CASE store[c.res] # None
    <2>1. PICK s \in CustomResource : s = store[c.res]
      BY <1>1, <1>3 DEF ServerTypeOK
    <2>2. WellFormed(s) /\ Fresh(s) /\ Evolves(s, c.obj)
      BY <1>1, <1>3, <2>1
         DEF ObjectsAreWellFormed, States, NewerThanTasks, NewerThanCache, EvolvesBy
    <2> QED
      BY <1>1, <2>2 DEF WellFormed, Evolves, Fresh, CustomResource
  <1> QED
    BY <1>2, <1>3

\* Where all is fresh, all stays fresh.
LEMMA AllStaysFresh ==
    ASSUME VersionsAreResources, ObjectInv, [LoopNext]_vars, ~OperatorRestarts,
           NEW r \in Resources, AllFresh(r)
    PROVE  AllFresh(r)'
  <1>1. LoopInv /\ HistoryInv /\ CallsAgree /\ ObjectsAreWellFormed /\ ServerTypeOK
    BY DEF ObjectInv, EventInv, LoopInv, LoopTypeOK
  <1>2. \A o : Fresh(o) => Fresh(o)'
    BY <1>1, SinceStartGrows DEF Fresh
  <1> SUFFICES ASSUME NEW o \in States(r)' PROVE Fresh(o)
    BY <1>2 DEF AllFresh
  <1>3. CASE o \in States(r)
    BY <1>3 DEF AllFresh
  <1>4. ASSUME NEW c, EvolvesBy(c), o = c.obj, c.res = r, ~c.gone
        PROVE  Fresh(o)
    <2>1. store[r] # None => Fresh(store[r])
      BY DEF AllFresh, States, NewerThanTasks, NewerThanCache
    <2> QED
      BY <1>1, <1>4, <2>1, ChangeIsFresh
  <1> QED
    BY <1>1, <1>3, <1>4, StatesOfTheLoop
-------------------------------------------------------------------------------
(***************************************************************************)
(* What is fresh stays so.                                                 *)
(***************************************************************************)
\* What a step adds to the generations this process was given is that of a task.
LEMMA SinceStartOfTheLoop ==
    ASSUME VersionsAreResources, LoopInv, [LoopNext]_vars, ~OperatorRestarts
    PROVE  \/ sinceStart' = sinceStart
           \/ \E t \in Threads :
                 /\ active[t] # None
                 /\ sinceStart' = sinceStart
                                   \cup {<<Snapshot(t).uid, Snapshot(t).gen>>}
  <1>1. ASSUME UNCHANGED dispatcherVars
        PROVE  sinceStart' = sinceStart
    BY <1>1 DEF dispatcherVars, historyVars
  <1>2. ASSUME NEW t \in Threads, Dispatches(t) \/ ApiCallEnds(t)
        PROVE  \/ sinceStart' = sinceStart
               \/ /\ active[t] # None
                  /\ sinceStart' = sinceStart
                                    \cup {<<Snapshot(t).uid, Snapshot(t).gen>>}
    BY <1>2 DEF Dispatches, Dispatch, SkipsCleanup, AddsFinalizer, Reconciles,
                IsReconciled, IsDispatched, CleansUp, ApiCallEnds, ServerAnswers,
                historyVars
  <1> QED
    BY <1>1, <1>2
       DEF LoopNext, Users, ControllerSourceStarts, InformerStores,
           InformerRelists, FilterNotification, DeliverEvent, SecondaryUser,
           SecondaryStores, SecondaryPropagates, SecondaryEvent, TimerStarts,
           TimerRuns, TimerDelivers, Starts,
           Finishes, Postpones, otherThanInformer, otherThanProcessor,
           otherThanDelivery, vars

\* A generation that is given to the reconciler makes nothing fresh of a
\* resource that the processor does not deal with.
LEMMA UntouchedFreshness ==
    ASSUME VersionsAreResources, LoopInv, HistoryInv, [LoopNext]_vars,
           ~OperatorRestarts, NEW r \in Resources, ~Touched(r),
           NEW o \in States(r)
    PROVE  Fresh(o)' <=> Fresh(o)
  <1>1. ASSUME NEW t \in Threads, active[t] # None
        PROVE  Snapshot(t).uid # o.uid
    <2>1. PICK x \in Resources : x = active[t].res
      BY <1>1, SnapshotIsState
    <2>2. Snapshot(t) \in States(x) /\ x # r
      BY <1>1, <2>1, SnapshotIsState DEF Touched
    <2> QED
      BY <2>2 DEF HistoryInv, UidsAreUnique
  <1> QED
    BY <1>1, SinceStartOfTheLoop DEF Fresh

LEMMA ChangeStaysFresh ==
    ASSUME LoopTypeOK, ObjectsAreWellFormed, NEW c, EvolvesBy(c),
           UNCHANGED <<sinceStart, cache>>, NEW r \in Resources, StaysFresh(r)
    PROVE  StaysFresh(r)'
  <1>1. /\ Len(watch) \in Nat
        /\ Len(watch') = Len(watch) + 1
        /\ \A i \in 1..Len(watch) : watch'[i] = watch[i]
        /\ watch'[Len(watch) + 1] = c
    BY AppendProperties, LenProperties
       DEF EvolvesBy, Changed, LoopTypeOK, ServerTypeOK
  <1>2. /\ store'[r] = IF r = c.res THEN Leaves(c) ELSE store[r]
        /\ ServerTypeOK
    BY DEF EvolvesBy, Changed, Change, LoopTypeOK, ServerTypeOK
  <1>3. \A o : Fresh(o)' <=> Fresh(o)
    BY DEF Fresh
  <1>4. ASSUME c.res = r, ~c.gone, store[r] # None => Fresh(store[r])
        PROVE  Fresh(c.obj)
    BY <1>2, <1>4, ChangeIsFresh
  <1>5. ASSUME NEW j \in Pending(r)'
        PROVE  \/ j \in Pending(r) /\ watch'[j] = watch[j]
               \/ j = Len(watch) + 1 /\ c.res = r /\ ~c.gone
    BY <1>1, <1>5 DEF Pending
  <1>6. ASSUME cache[r] # None, Fresh(cache[r]), NEW o \in NewerThanCache(r)'
        PROVE  Fresh(o)
    <2>1. \A p \in NewerThanCache(r) : Fresh(p)
      BY <1>6 DEF StaysFresh
    <2>2. store[r] # None => Fresh(store[r])
      BY <2>1 DEF NewerThanCache
    <2>3. CASE o = store'[r] /\ o # None
      BY <1>2, <1>4, <2>2, <2>3 DEF Leaves
    <2>4. ASSUME NEW j \in Pending(r)', o = watch'[j].obj
          PROVE  Fresh(o)
      BY <1>1, <1>4, <1>5, <2>1, <2>2, <2>4 DEF NewerThanCache
    <2> QED
      BY <2>3, <2>4 DEF NewerThanCache
  <1>7. ASSUME NEW i \in 1..Len(watch'), watch'[i].res = r,
               FreshChange(watch'[i])
        PROVE  /\ \A j \in Pending(r)' : i < j => Fresh(watch'[j].obj)
               /\ store'[r] # None => Fresh(store'[r])
    <2>1. CASE i = Len(watch) + 1
      <3>1. \A j \in Pending(r)' : ~(i < j)
        BY <1>1, <2>1 DEF Pending
      <3> QED
        BY <1>1, <1>2, <1>7, <2>1, <3>1 DEF Leaves, FreshChange
    <2>2. CASE i # Len(watch) + 1
      <3>1. i \in 1..Len(watch) /\ watch'[i] = watch[i]
        BY <1>1, <2>2
      <3>2. /\ \A j \in Pending(r) : i < j => Fresh(watch[j].obj)
            /\ store[r] # None => Fresh(store[r])
        BY <1>7, <3>1 DEF StaysFresh
      <3> QED
        BY <1>1, <1>2, <1>4, <1>5, <3>2 DEF Leaves
    <2> QED
      BY <2>1, <2>2
  <1> QED
    BY <1>3, <1>6, <1>7 DEF StaysFresh, FreshChange

LEMMA InformerStoresStaysFresh ==
    ASSUME LoopTypeOK, InformerStores, NEW r \in Resources, StaysFresh(r)
    PROVE  StaysFresh(r)'
  <1>1. PICK c \in Change : c = watch[1] /\ c = Head(watch)
    BY TakenFromQueue DEF InformerStores, LoopTypeOK, ServerTypeOK
  <1>2. /\ 1 \in 1..Len(watch) /\ Len(watch) \in Nat
        /\ \A i \in 1..Len(watch') :
              i + 1 \in 1..Len(watch) /\ watch'[i] = watch[i + 1]
    BY TakenFromQueue, LenProperties DEF InformerStores, LoopTypeOK, ServerTypeOK
  <1>3. /\ cache'[c.res] = IF c.gone THEN None ELSE c.obj
        /\ r # c.res => cache'[r] = cache[r]
        /\ UNCHANGED <<store, sinceStart>>
    BY <1>1 DEF InformerStores, LoopTypeOK, EPTypeOK, Change, otherThanDelivery,
                dispatcherVars, historyVars
  <1>4. \A o : Fresh(o)' <=> Fresh(o)
    BY <1>3 DEF Fresh
  <1>5. \A j \in Pending(r)' : /\ j + 1 \in Pending(r) /\ 1 < j + 1
                               /\ watch'[j] = watch[j + 1]
    BY <1>2 DEF Pending
  <1>6. ASSUME cache'[r] # None, Fresh(cache'[r]), NEW o \in NewerThanCache(r)'
        PROVE  Fresh(o)
    <2>1. CASE r # c.res
      <3>1. o \in NewerThanCache(r)
        BY <1>3, <1>5 DEF NewerThanCache
      <3> QED
        BY <1>3, <1>6, <2>1, <3>1 DEF StaysFresh
    <2>2. CASE r = c.res
      <3>1. FreshChange(watch[1]) /\ watch[1].res = r
        BY <1>1, <1>3, <1>6, <2>2 DEF FreshChange
      <3>2. /\ \A j \in Pending(r) : 1 < j => Fresh(watch[j].obj)
            /\ store[r] # None => Fresh(store[r])
        BY <1>2, <3>1 DEF StaysFresh
      <3> QED
        BY <1>3, <1>5, <3>2 DEF NewerThanCache
    <2> QED
      BY <2>1, <2>2
  <1>7. ASSUME NEW i \in 1..Len(watch'), watch'[i].res = r,
               FreshChange(watch'[i])
        PROVE  /\ \A j \in Pending(r)' : i < j => Fresh(watch'[j].obj)
               /\ store[r] # None => Fresh(store[r])
    <2>1. /\ i + 1 \in 1..Len(watch) /\ watch[i + 1].res = r
          /\ FreshChange(watch[i + 1])
      BY <1>2, <1>7
    <2>2. /\ \A j \in Pending(r) : i + 1 < j => Fresh(watch[j].obj)
          /\ store[r] # None => Fresh(store[r])
      BY <2>1 DEF StaysFresh
    <2>3. \A j \in Pending(r)' : i < j => i + 1 < j + 1
      BY DEF Pending
    <2> QED
      BY <1>5, <2>2, <2>3
  <1> QED
    BY <1>3, <1>4, <1>6, <1>7 DEF StaysFresh, FreshChange

\* Of the changes of a new list there is one for each resource, which leaves
\* what the server has.
LEMMA ListStaysFresh ==
    ASSUME VersionsAreResources, EventInv, [LoopNext]_vars,
           OperatorRestarts \/ InformerLists, NEW r \in Resources,
           StaysFresh(r)
    PROVE  StaysFresh(r)'
  <1>1. LoopTypeOK /\ ServerTypeOK /\ CacheCatchesUp'
    BY LoopCatchesUp DEF EventInv, LoopInv, LoopTypeOK
  <1>2. \A i, j \in 1..Len(watch') : watch'[i].res = watch'[j].res => i = j
    <2>1. CASE OperatorRestarts
      BY <1>1, <2>1, FirstListIsOfTheStore DEF OperatorRestarts
    <2>2. CASE InformerLists
      <3>1. /\ cache \in [Resources -> CustomResource \cup {None}]
            /\ watch' \in Relists(cache)
        BY <1>1, <2>2 DEF LoopTypeOK, EPTypeOK, VersionsAreResources,
             InformerLists, InformerRelists, ControllerSourceStarts
      <3> QED
        BY <1>1, <3>1, RelistKeepsChanges
    <2> QED
      BY <2>1, <2>2
  <1>3. ASSUME NEW i \in 1..Len(watch'), watch'[i].res = r,
               FreshChange(watch[i])'
        PROVE  /\ \A j \in Pending(r)' : ~(i < j)
               /\ store'[r] # None => Fresh(store[r])'
    <2>1. \A j \in 1..Len(watch') : watch'[j].res = r => j = i
      BY <1>2, <1>3
    <2>2. Leaves(watch'[i]) = store'[r]
      BY <1>1, <1>3, <2>1 DEF CacheCatchesUp, CatchesUp, LastChange
    <2> QED
      BY <1>3, <2>1, <2>2 DEF Pending, FreshChange, Leaves, Fresh
  <1>4. ASSUME cache'[r] # None, Fresh(cache[r])', NEW o \in NewerThanCache(r)'
        PROVE  Fresh(o)'
    <2>1. InformerLists /\ UNCHANGED <<cache, store, sinceStart>>
      BY <1>4 DEF OperatorRestarts, InformerLists, InformerRelists,
           ControllerSourceStarts, epVars, taskVars, dispatcherVars, historyVars
    <2>2. o \in NewerThanCache(r)
      <3>1. /\ cache \in [Resources -> CustomResource \cup {None}]
            /\ watch' \in Relists(cache)
        BY <1>1, <2>1 DEF LoopTypeOK, EPTypeOK, VersionsAreResources,
             InformerLists, InformerRelists, ControllerSourceStarts
      <3>2. \A i \in 1..Len(watch') : \E j \in 1..Len(watch) :
               /\ watch'[i].res = watch[j].res
               /\ watch'[i].gone = watch[j].gone
               /\ ~watch'[i].gone => watch'[i].obj = watch[j].obj
        BY <1>1, <3>1, RelistKeepsChanges
      <3>3. \A i \in Pending(r)' :
               \E j \in Pending(r) : watch'[i].obj = watch[j].obj
        BY <3>2 DEF Pending
      <3> QED
        BY <2>1, <3>3 DEF NewerThanCache
    <2>3. Fresh(o)
      BY <1>4, <2>1, <2>2 DEF StaysFresh, Fresh
    <2> QED
      BY <2>1, <2>3 DEF Fresh
  <1> QED
    BY <1>3, <1>4 DEF StaysFresh, FreshChange, Fresh

LEMMA LoopStaysFresh ==
    ASSUME VersionsAreResources, ObjectInv, FreshInv, [LoopNext]_vars,
           NEW r \in Resources
    PROVE  StaysFresh(r)'
  <1>1. /\ EventInv /\ LoopInv /\ HistoryInv /\ LoopTypeOK
        /\ ObjectsAreWellFormed /\ CallsAgree
        /\ StaysFresh(r) /\ (Touched(r) => AllFresh(r))
    BY DEF ObjectInv, EventInv, LoopInv, FreshInv
  <1>2. CASE OperatorRestarts \/ InformerLists
    BY <1>1, <1>2, ListStaysFresh
  <1>3. CASE InformerStores
    BY <1>1, <1>3, InformerStoresStaysFresh
  <1>4. ASSUME NEW c, EvolvesBy(c), UNCHANGED <<sinceStart, cache>>
        PROVE  StaysFresh(r)'
    BY <1>1, <1>4, ChangeStaysFresh
  <1>5. CASE /\ ~OperatorRestarts /\ ~InformerStores
             /\ UNCHANGED <<watch, store>>
    <2>1. UNCHANGED cache
      BY <1>1, <1>5, CacheOfTheLoop
    <2>2. CASE AllFresh(r)
      <3>1. AllFresh(r)'
        BY <1>5, <2>2, AllStaysFresh
      <3>2. \A o \in NewerThanCache(r)' : Fresh(o)'
        BY <3>1 DEF AllFresh, States, NewerThanTasks
      <3>3. /\ \A j \in Pending(r)' : Fresh(watch[j].obj)'
            /\ store'[r] # None => Fresh(store[r])'
        BY <3>2 DEF NewerThanCache
      <3> QED
        BY <3>2, <3>3 DEF StaysFresh
    <2>3. CASE ~Touched(r)
      <3>1. \A o \in NewerThanTasks(r) : Fresh(o)' <=> Fresh(o)
        BY <1>1, <1>5, <2>3, UntouchedFreshness DEF States
      <3>2. /\ cache[r] # None => (Fresh(cache[r])' <=> Fresh(cache[r]))
            /\ \A o \in NewerThanCache(r) : Fresh(o)' <=> Fresh(o)
        BY <2>1, <3>1 DEF NewerThanTasks, Fresh
      <3>3. /\ \A j \in Pending(r) : Fresh(watch[j].obj)' <=> Fresh(watch[j].obj)
            /\ store[r] # None => (Fresh(store[r])' <=> Fresh(store[r]))
            /\ \A i \in 1..Len(watch) : watch[i].res = r =>
                  (FreshChange(watch[i])' <=> FreshChange(watch[i]))
        BY <1>5, <3>2 DEF NewerThanCache, Pending, FreshChange, Fresh
      <3>4. Pending(r)' = Pending(r) /\ NewerThanCache(r)' = NewerThanCache(r)
        BY <1>5 DEF Pending, NewerThanCache
      <3> QED
        BY <1>1, <1>5, <2>1, <3>2, <3>3, <3>4 DEF StaysFresh
    <2> QED
      BY <1>1, <2>2, <2>3
  <1> QED
    BY <1>1, <1>2, <1>3, <1>4, <1>5, StoreOfTheLoop
-------------------------------------------------------------------------------
(***************************************************************************)
(* News are of resources all of whose states are fresh.                    *)
(***************************************************************************)
\* The handler is notified of changes in their order.
LEMMA NotesOfTheLoop ==
    ASSUME VersionsAreResources, LoopInv, HistoryInv, CallsAgree,
           [LoopNext]_vars, ~OperatorRestarts, ~InformerStores,
           NEW i \in 1..Len(notifications')
    PROVE  \E j \in 1..Len(notifications) : notifications'[i] = notifications[j]
  <1>1. LoopTypeOK
    BY DEF LoopInv
  <1>2. CASE UNCHANGED notifications
    BY <1>2
  <1>3. CASE FilterNotification
    <2>1. notifications # <<>> /\ notifications' = Tail(notifications)
      BY <1>3 DEF FilterNotification
    <2>2. \A k \in 1..Len(Tail(notifications)) :
             /\ k + 1 \in 1..Len(notifications)
             /\ Tail(notifications)[k] = notifications[k + 1]
      BY <1>1, <2>1, TakenFromQueue DEF LoopTypeOK, ServerTypeOK
    <2> QED
      BY <2>1, <2>2
  <1>4. CASE \E c : EvolvesBy(c)
    BY <1>2, <1>4 DEF EvolvesBy, Changed
  <1>5. ASSUME NEW t \in Threads, Dispatches(t) \/ ApiCallEnds(t)
        PROVE  UNCHANGED notifications
    BY <1>1, <1>5, ServerEvolves
       DEF Dispatches, Dispatch, ApiCallEnds, EvolvesBy, Changed, serverVars
  <1>6. ASSUME Users
        PROVE  UNCHANGED notifications
    BY <1>1, <1>6, UsersEvolve DEF Users, EvolvesBy, Changed
  <1> QED
    BY <1>2, <1>3, <1>5, <1>6
       DEF LoopNext, ControllerSourceStarts, InformerRelists, DeliverEvent,
           SecondaryUser, SecondaryStores, SecondaryPropagates, SecondaryEvent, TimerStarts,
           TimerRuns, TimerDelivers, Starts, Finishes, Postpones,
           otherThanInformer, otherThanProcessor, serverVars, vars

\* The notification of the oldest change.
NoteOf(c) ==
    [res |-> c.res, new |-> c.obj,
     old |-> IF c.gone THEN None ELSE cache[c.res],
     action |-> CASE c.gone -> "DELETED"
                  [] ~c.gone /\ cache[c.res] = None -> "ADDED"
                  [] OTHER -> "UPDATED"]

LEMMA InformerNotifies ==
    ASSUME LoopTypeOK, InformerStores
    PROVE  \E c \in Change :
              /\ c = watch[1] /\ c = Head(watch) /\ 1 \in 1..Len(watch)
              /\ cache'[c.res] = Leaves(c)
              /\ notifications' = Append(notifications, NoteOf(c))
              /\ NoteOf(c).res = c.res /\ NoteOf(c).new = c.obj
              /\ NoteOf(c).old = IF c.gone THEN None ELSE cache[c.res]
              /\ NoteOf(c).action = "DELETED" <=> c.gone
  <1>1. PICK c \in Change : c = watch[1] /\ c = Head(watch) /\ 1 \in 1..Len(watch)
    BY TakenFromQueue DEF InformerStores, LoopTypeOK, ServerTypeOK
  <1>2. /\ cache'[c.res] = Leaves(c)
        /\ notifications' = Append(notifications, NoteOf(c))
    BY <1>1 DEF InformerStores, LoopTypeOK, EPTypeOK, Change, Leaves, NoteOf
  <1>3. /\ NoteOf(c).res = c.res /\ NoteOf(c).new = c.obj
        /\ NoteOf(c).old = IF c.gone THEN None ELSE cache[c.res]
        /\ NoteOf(c).action = "DELETED" <=> c.gone
    BY DEF NoteOf
  <1> QED
    BY <1>1, <1>2, <1>3

\* When the informer has stored a change that is news, every state of its
\* resource is fresh.
LEMMA NewsIsFresh ==
    ASSUME VersionsAreResources, ObjectInv, FreshInv, InformerStores,
           NEW c \in Change, c = watch[1], 1 \in 1..Len(watch),
           cache'[c.res] = Leaves(c),
           c.gone \/ ToBeObserved(c.obj) \/ ToBeObserved(cache[c.res])
    PROVE  AllFresh(c.res)'
  <1>1. PICK r \in Resources : r = c.res
    BY DEF Change
  <1>2. /\ LoopInv /\ LoopTypeOK /\ StaysFresh(r)
        /\ Touched(r) => AllFresh(r)
    BY DEF ObjectInv, EventInv, LoopInv, FreshInv
  <1>3. CASE AllFresh(r)
    <2>1. [LoopNext]_vars /\ ~OperatorRestarts
      <3>1. restarts' = restarts /\ restarts \in Nat
        BY <1>2 DEF InformerStores, otherThanDelivery, boundVars, LoopTypeOK
      <3> QED
        BY <3>1 DEF LoopNext, OperatorRestarts
    <2> QED
      BY <1>1, <1>3, <2>1, AllStaysFresh
  <1>4. CASE ~Touched(r)
    <2>1. /\ UNCHANGED <<queue, active, store, sinceStart>>
          /\ \A j \in Pending(r)' : /\ j + 1 \in Pending(r) /\ 1 < j + 1
                                    /\ watch'[j] = watch[j + 1]
      <3>1. UNCHANGED <<queue, active, store, sinceStart>>
        BY DEF InformerStores, taskVars, otherThanDelivery, dispatcherVars,
               historyVars
      <3>2. \A i \in 1..Len(watch') :
               i + 1 \in 1..Len(watch) /\ watch'[i] = watch[i + 1]
        BY <1>2, TakenFromQueue DEF InformerStores, LoopTypeOK, ServerTypeOK
      <3> QED
        BY <3>1, <3>2 DEF Pending
    <2>2. TaskVersions(r)' = {}
      <3>1. TaskVersions(r) = {}
        BY <1>2, <1>4, TasksAreTouched
      <3>2. TaskVersions(r)' = TaskVersions(r)
        BY <2>1 DEF TaskVersions
      <3> QED
        BY <3>1, <3>2
    <2>3. /\ \A j \in Pending(r) : 1 < j => Fresh(watch[j].obj)
          /\ store[r] # None => Fresh(store[r])
          /\ ~c.gone => Fresh(c.obj)
      <3>1. CASE FreshChange(c)
        BY <1>1, <1>2, <3>1 DEF StaysFresh, FreshChange
      <3>2. CASE ~c.gone /\ cache[r] # None /\ Fresh(cache[r])
        <4>1. \A o \in NewerThanCache(r) : Fresh(o)
          BY <1>2, <3>2 DEF StaysFresh
        <4>2. 1 \in Pending(r)
          BY <1>1, <3>2 DEF Pending
        <4> QED
          BY <4>1, <4>2 DEF NewerThanCache
      <3> QED
        BY <1>1, <3>1, <3>2 DEF ToBeObserved, FreshChange, Fresh
    <2>4. \A o \in NewerThanTasks(r)' : Fresh(o)
      BY <1>1, <2>1, <2>3 DEF NewerThanTasks, NewerThanCache, Leaves
    <2>5. States(r)' = NewerThanTasks(r)'
      BY <2>2 DEF States
    <2>6. \A o \in States(r)' : Fresh(o)'
      BY <2>1, <2>4, <2>5 DEF Fresh
    <2> QED
      BY <1>1, <2>6 DEF AllFresh, Fresh
  <1> QED
    BY <1>2, <1>3, <1>4

\* The notifications.
LEMMA NotesStayFresh ==
    ASSUME VersionsAreResources, ObjectInv, FreshInv, [LoopNext]_vars,
           NEW i \in 1..Len(notifications')
    PROVE  /\ NoteIsWellFormed(notifications'[i])
           /\ IsNews(notifications'[i]) => AllFresh(notifications[i].res)'
  <1>1. /\ LoopInv /\ HistoryInv /\ CallsAgree /\ LoopTypeOK
        /\ ObjectsAreWellFormed
        /\ notifications \in Seq(Notification)
        /\ Len(notifications) \in Nat
    BY LenProperties DEF ObjectInv, EventInv, LoopInv, LoopTypeOK, ServerTypeOK
  <1>2. CASE OperatorRestarts
    BY <1>2 DEF OperatorRestarts
  <1>3. ASSUME ~OperatorRestarts, NEW j \in 1..Len(notifications),
               notifications'[i] = notifications[j]
        PROVE  /\ NoteIsWellFormed(notifications'[i])
               /\ IsNews(notifications'[i]) => AllFresh(notifications[i].res)'
    <2>1. PICK n \in Notification : n = notifications[j]
      BY <1>1, ElementOfSeq
    <2>2. NoteIsWellFormed(n) /\ (IsNews(n) => AllFresh(n.res))
      BY <2>1 DEF FreshInv
    <2>3. n.res \in Resources
      BY DEF Notification
    <2>4. IsNews(n) => AllFresh(n.res)'
      BY <1>3, <2>2, <2>3, AllStaysFresh
    <2> QED
      BY <1>3, <2>1, <2>2, <2>4
  <1>4. CASE InformerStores /\ ~OperatorRestarts
    <2>1. PICK c \in Change :
              /\ c = watch[1] /\ c = Head(watch) /\ 1 \in 1..Len(watch)
              /\ cache'[c.res] = Leaves(c)
              /\ notifications' = Append(notifications, NoteOf(c))
              /\ NoteOf(c).res = c.res /\ NoteOf(c).new = c.obj
              /\ NoteOf(c).old = IF c.gone THEN None ELSE cache[c.res]
              /\ NoteOf(c).action = "DELETED" <=> c.gone
      BY <1>1, <1>4, InformerNotifies
    <2>2. PICK n : n = NoteOf(c)
      OBVIOUS
    <2>3. \/ i \in 1..Len(notifications) /\ notifications'[i] = notifications[i]
          \/ notifications'[i] = n
      BY <1>1, <2>1, <2>2, AppendProperties
    <2>4. NoteIsWellFormed(n)
      <3>1. ~c.gone => c.obj \in States(c.res)
        BY <2>1 DEF States, NewerThanTasks, NewerThanCache, Pending
      <3>2. cache[c.res] # None => cache[c.res] \in States(c.res)
        BY DEF States, NewerThanTasks
      <3>3. c.res \in Resources /\ c.obj # None
        BY NoneAssumption DEF Change, VersionsAreResources
      <3> QED
        BY <1>1, <2>1, <2>2, <3>1, <3>2, <3>3
           DEF ObjectsAreWellFormed, NoteIsWellFormed
    <2>5. IsNews(n) => AllFresh(c.res)'
      <3>1. IsNews(n) => \/ c.gone \/ ToBeObserved(c.obj)
                         \/ ToBeObserved(cache[c.res])
        BY <2>1, <2>2 DEF IsNews, ToBeObserved
      <3> QED
        BY <1>4, <2>1, <3>1, NewsIsFresh
    <2>6. CASE notifications'[i] = n
      <3>1. notifications'[i].res = c.res
        BY <2>1, <2>2, <2>6
      <3> QED
        BY <2>4, <2>5, <2>6, <3>1
    <2> QED
      BY <1>3, <1>4, <2>3, <2>6
  <1> QED
    BY <1>1, <1>2, <1>3, <1>4, NotesOfTheLoop

\* The filters accept only news.
LEMMA AcceptedIsNews ==
    ASSUME GenerationAware, ObservedGenerationAware, NEW n \in Notification,
           NoteIsWellFormed(n), OtherFiltersAccept(n.old, n.new)
    PROVE  IsNews(n)
  <1>1. CASE n.action = "DELETED"
    BY <1>1 DEF IsNews
  <1>2. CASE n.action # "DELETED"
    <2>1. PICK o \in CustomResource : o = n.new /\ WellFormed(o) /\ o # None
      BY <1>2 DEF Notification, NoteIsWellFormed
    <2>2. /\ n.old # None => n.old \in CustomResource /\ WellFormed(n.old)
          /\ ToBeObserved(o) <=> o.gen > o.obs
      BY <1>2, <2>1 DEF Notification, NoteIsWellFormed, ToBeObserved
    <2>3. CASE (UseFinalizer /\ ~o.fin) \/ o.del
      BY <2>1, <2>2, <2>3 DEF IsNews, WellFormed, CustomResource
    <2>4. CASE UseFinalizer /\ n.old # None /\ ~n.old.fin
      BY <2>1, <2>2, <2>4 DEF IsNews, ToBeObserved, WellFormed, CustomResource
    <2>5. CASE o.gen > o.obs
      BY <2>1, <2>2, <2>5 DEF IsNews
    <2> QED
      BY <2>1, <2>3, <2>4, <2>5
         DEF OtherFiltersAccept, FinalizerNeededAndApplied, MarkedForDeletion,
             GenerationAwareAccepts
  <1> QED
    BY <1>1, <1>2

\* The resources the processor deals with.
LEMMA TouchedStaysFresh ==
    ASSUME VersionsAreResources, GenerationAware, ObservedGenerationAware,
           ObjectInv, FreshInv, [LoopNext]_vars,
           NEW r \in Resources, Touched(r)'
    PROVE  AllFresh(r)'
  <1>1. LoopInv /\ LoopTypeOK /\ IsQuiet
    BY DEF ObjectInv, EventInv, LoopInv, FreshInv
  <1>2. ~OperatorRestarts
    <2>1. ASSUME OperatorRestarts
          PROVE  FALSE
      <3>1. /\ underProcessing' = {} /\ onceTasks' = {} /\ whiteList' = {}
            /\ eventingState' = [x \in Resources |-> "NO_EVENT_PRESENT"]
            /\ timerThread' = None /\ delivering' = None
            /\ active' = [t \in Threads |-> None]
        BY <2>1 DEF OperatorRestarts
      <3> QED
        BY <3>1, ResourceIDAssumption DEF Touched, EventPresent
    <2> QED
      BY <2>1
  <1>3. CASE AllFresh(r)
    BY <1>2, <1>3, AllStaysFresh
  <1>4. CASE ~Touched(r)
    <2>1. PICK n \in Notification :
             /\ FilterNotification /\ n = Head(notifications) /\ n.res = r
             /\ OtherFiltersAccept(n.old, n.new)
      BY <1>1, <1>2, <1>4, TouchOfTheLoop
    <2>2. 1 \in 1..Len(notifications) /\ n = notifications[1]
      BY <1>1, <2>1, TakenFromQueue
         DEF FilterNotification, LoopTypeOK, ServerTypeOK
    <2>3. NoteIsWellFormed(n) /\ (IsNews(n) => AllFresh(r))
      BY <2>1, <2>2 DEF FreshInv
    <2> QED
      BY <1>3, <2>1, <2>3, AcceptedIsNews
  <1> QED
    BY <1>3, <1>4 DEF FreshInv

LEMMA NextStaysFresh ==
    ASSUME VersionsAreResources, GenerationAware, ObservedGenerationAware,
           QuietSources, ObjectInv, FreshInv, [LoopNext]_vars
    PROVE  FreshInv'
  <1>1. \A r \in Resources : StaysFresh(r)' /\ (Touched(r)' => AllFresh(r)')
    BY LoopStaysFresh, TouchedStaysFresh
  <1>2. \A i \in 1..Len(notifications') :
           /\ NoteIsWellFormed(notifications'[i])
           /\ IsNews(notifications'[i]) => AllFresh(notifications[i].res)'
    BY NotesStayFresh
  <1>3. IsQuiet'
    BY SourcesStayQuiet DEF ObjectInv, EventInv, LoopInv, FreshInv
  <1> QED
    BY <1>1, <1>2, <1>3 DEF FreshInv, NoteIsWellFormed, WellFormed, IsNews,
                            ToBeObserved

LEMMA InitiallyFresh == LoopInit => FreshInv
  <1> SUFFICES ASSUME LoopInit PROVE FreshInv
    OBVIOUS
  <1>1. /\ \A r \in Resources : /\ store[r] = None /\ cache[r] = None
                                /\ eventingState[r] = "NO_EVENT_PRESENT"
        /\ watch = <<>> /\ notifications = <<>> /\ queue = <<>>
        /\ \A t \in Threads : active[t] = None
        /\ underProcessing = {} /\ whiteList = {} /\ delivering = None
        /\ onceTasks = {} /\ timerThread = None
        /\ secondary.to = {} /\ secondaryNotifications = <<>>
        /\ propagating = {}
    BY DEF LoopInit, EPInit, ServerInit, DispatcherInit, InformerInit,
           WhitelistInit, TimerInit
  <1>2. \A r \in Resources : ~Touched(r)
    BY <1>1, ResourceIDAssumption DEF Touched, EventPresent
  <1>3. \A r \in Resources : StaysFresh(r)
    BY <1>1 DEF StaysFresh
  <1> QED
    BY <1>1, <1>2, <1>3 DEF FreshInv, IsQuiet

\* A restart, a new list, a conflict or a late change never make a controller
\* that is aware of the observed generation give the reconciler a generation
\* that the status already reports as observed, unless this process has begun
\* with it, and as long as no other event source asks for the execution.
THEOREM ObservedNotRepeated ==
    VersionsAreResources /\ GenerationAware /\ QuietSources /\ LoopSpec
        => ObservedIsNotRepeated
  <1> SUFFICES ASSUME VersionsAreResources, GenerationAware, QuietSources
               PROVE  LoopSpec => ObservedIsNotRepeated
    OBVIOUS
  <1>1. LoopInit => ObjectInv /\ FreshInv
    BY InitialObjects, InitiallyFresh
  <1>2. /\ ObjectInv
        /\ ObservedGenerationAware => FreshInv
        /\ [LoopNext]_vars
        => (ObjectInv /\ (ObservedGenerationAware => FreshInv))'
    BY NextKeepsObjects, NextStaysFresh
  <1>3. ASSUME ObjectInv, ObservedGenerationAware, FreshInv,
               NEW t \in Threads, Reconciles(t)
        PROVE  \/ <<Snapshot(t).uid, Snapshot(t).gen>> \in sinceStart
               \/ Snapshot(t).gen > Snapshot(t).obs
    <2>1. active[t] # None /\ LoopInv
      BY <1>3 DEF Reconciles, IsReconciled, IsDispatched, ObjectInv, EventInv
    <2>2. PICK r \in Resources : r = active[t].res
      BY <2>1, SnapshotIsState
    <2>3. Touched(r) /\ Snapshot(t) \in States(r)
      BY <2>1, <2>2, SnapshotIsState DEF Touched
    <2> QED
      BY <1>3, <2>3 DEF FreshInv, AllFresh, Fresh
  <1>4. /\ ObjectInv /\ (ObservedGenerationAware => FreshInv)
        /\ [LoopNext]_vars
        => [\A t \in Threads :
              Reconciles(t) /\ ObservedGenerationAware
              => \/ <<Snapshot(t).uid, Snapshot(t).gen>> \in sinceStart
                 \/ Snapshot(t).gen > Snapshot(t).obs]_vars
    BY <1>3
  <1> QED
    BY <1>1, <1>2, <1>4, PTL DEF LoopSpec, ObservedIsNotRepeated
-------------------------------------------------------------------------------
(***************************************************************************)
(* NoGenerationIsForgotten: a generation that is to be reconciled is on    *)
(* its way to the reconciler.                                              *)
(***************************************************************************)
\* Of the states of a resource only those of the earliest uid may have our
\* finalizer: it is added by a task, and there is no state before a task's.
FinalizerComesLast ==
    \A r \in Resources : \A a, b \in States(r) : a.uid < b.uid => ~b.fin

\* A generation that was observed stays so.
ObservedStays ==
    \A r \in Resources : \A a \in States(r) :
        /\ store[r] # None
        /\ SameGeneration(a, store[r])
        /\ a.obs = a.gen
        => store[r].obs = store[r].gen

\* An update is made after the reconciler, or the cleanup, was called.
IsBegun(o) == o.del \/ <<o.uid, o.gen>> \in sinceStart
IsOfTask(o, v) == SameGeneration(o, v) /\ o.del = v.del
UpdatesAreOfBegun ==
    \A t \in Threads :
        /\ call[t] # None => IsOfTask(call[t].before, active[t].version)
        /\ result[t] # None /\ result[t].updated # None => IsBegun(result[t].before)

\* The informer's store has the generation.
Known(r) == cache[r] # None /\ SameGeneration(cache[r], store[r])

\* The version v will lead to the reconciler, or to the addition of the
\* finalizer, which is a change that the filters accept.
Fits(r, v) ==
    SameGeneration(v, store[r]) /\ (UseFinalizer => v.fin \/ v = cache[r])
\* The execution has not ended, or it has failed.
Unfinished(t) == result[t] = None \/ (result[t].exception /\ lockHolder # t)
IsGiven(r) ==
    \/ \E i \in 1..Len(queue) : queue[i].res = r /\ Fits(r, queue[i].version)
    \/ \E t \in Threads : /\ active[t] # None /\ active[t].res = r
                          /\ Unfinished(t)
                          /\ Fits(r, active[t].version)
EventIsKept(r) == EventPresent(eventingState, r) /\ IsProcessedLater(r)
HasGivenUp(r) == GaveUpOn(r) /\ r \notin underProcessing
IsAttended(r) == IsGiven(r) \/ EventIsKept(r) \/ HasGivenUp(r)
Delivers(r) == delivering # None /\ delivering.res = r
NoDeletionAfter(r, j) ==
    \A k \in 1..Len(notifications) :
        k > j /\ notifications[k].res = r => notifications[k].action # "DELETED"
IsAccepted(n, r) ==
    n.res = r /\ n.action # "DELETED" /\ OtherFiltersAccept(n.old, n.new)
Coming(r) ==
    \/ UseFinalizer /\ ~cache[r].fin /\ IsOf(watch, r)
    \/ \E j \in 1..Len(notifications) :
          IsAccepted(notifications[j], r) /\ NoDeletionAfter(r, j)
    \/ /\ NoDeletionAfter(r, 0)
       /\ Delivers(r) => delivering.action # "DELETED"
       /\ Delivers(r) \/ IsAttended(r)
DueIsComing == \A r \in Resources : IsDue(r) /\ Known(r) => Coming(r)
NewGenerationsAreEvents ==
    \/ UseFinalizer
    \/ EventFilter = "passthrough" /\ (GenerationAware => ObservedGenerationAware)
ComingInv ==
    /\ DeleteMarkIsTransient
    /\ FinalizerComesLast /\ ObservedStays /\ UpdatesAreOfBegun
    /\ DueIsComing
-------------------------------------------------------------------------------
(***************************************************************************)
(* What the server has, and which states may have a finalizer or an        *)
(* observed generation.                                                    *)
(***************************************************************************)
\* The object of the server is the latest state of its resource, and what a
\* task was given the earliest.
LEMMA ServerHasTheLatest ==
    ASSUME VersionsAreResources, LoopInv, HistoryInv, NEW r \in Resources,
           store[r] # None, NEW a \in States(r)
    PROVE  /\ Follows(a, store[r])
           /\ a \in CustomResource /\ store[r] \in CustomResource
           /\ store[r] \in States(r)
  <1>1. /\ a \in CustomResource /\ store[r] \in CustomResource
        /\ store[r] \in States(r) /\ store[r] \in NewerThanTasks(r)
        /\ store[r] \in NewerThanCache(r)
    BY StatesAreTyped
       DEF LoopInv, LoopTypeOK, ServerTypeOK, States, NewerThanTasks,
           NewerThanCache
  <1>2. CASE a \in TaskVersions(r)
    BY <1>1, <1>2 DEF HistoryInv, InOrder, TasksFollowed
  <1>3. CASE cache[r] # None /\ a = cache[r]
    BY <1>1, <1>3 DEF HistoryInv, InOrder, CacheFollowed
  <1>4. CASE \E i \in Pending(r) : a = watch[i].obj
    <2>1. ChangesInOrder
      BY DEF HistoryInv, InOrder
    <2>2. PICK i \in Pending(r) : a = watch[i].obj
      BY <1>4
    <2>3. Follows(watch[i].obj, store[r])
      BY <2>1 DEF ChangesInOrder
    <2> QED
      BY <1>1, <2>2, <2>3
  <1>5. CASE a = store[r]
    BY <1>1, <1>5, FollowsItself
  <1> QED
    BY <1>1, <1>2, <1>3, <1>4, <1>5 DEF States, NewerThanTasks, NewerThanCache

LEMMA TasksHaveTheEarliest ==
    ASSUME VersionsAreResources, LoopInv, HistoryInv, NEW r \in Resources,
           NEW v \in TaskVersions(r), NEW a \in States(r)
    PROVE  v.uid <= a.uid
  <1>1. TasksInv /\ EPTypeOK /\ v \in CustomResource
    BY StatesAreTyped DEF LoopInv, LoopTypeOK, States
  <1>2. CASE a \in TaskVersions(r)
    <2>1. a = v
      <3>1. SerialExecution /\ DOMAIN queue = 1..Len(queue)
        BY <1>1, TasksAreSerial, LenProperties DEF EPTypeOK
      <3> QED
        BY <1>2, <3>1 DEF SerialExecution, Queued, RunningOn, TaskVersions
    <2> QED
      BY <1>1, <2>1 DEF CustomResource
  <1>3. CASE a \in NewerThanTasks(r)
    BY <1>3 DEF HistoryInv, InOrder, TasksFollowed, Follows
  <1> QED
    BY <1>2, <1>3 DEF States

\* What a change on the server makes of a resource.
LEMMA ChangeOfUid ==
    ASSUME VersionsAreResources, LoopInv, HistoryInv, NEW c, EvolvesBy(c),
           ~c.gone, NEW a \in States(c.res)
    PROVE  /\ c.res \in Resources /\ c.obj \in CustomResource
           /\ a.uid <= c.obj.uid
           /\ store[c.res] = None => a.uid < c.obj.uid
           /\ store[c.res] # None => c.obj.uid = store[c.res].uid
  <1>1. /\ c.res \in Resources /\ c.obj \in CustomResource
        /\ resourceVersion \in Nat
    BY DEF EvolvesBy, Changed, Change, LoopInv, LoopTypeOK, ServerTypeOK
  <1>2. a \in CustomResource /\ a.uid \in Nat /\ a.uid <= resourceVersion
    BY <1>1, StatesAreTyped
       DEF LoopInv, HistoryInv, StatesFit, FitsHistory, CustomResource
  <1>3. CASE store[c.res] = None
    BY <1>1, <1>2, <1>3 DEF EvolvesBy, IsNew
  <1>4. CASE store[c.res] # None
    BY <1>1, <1>4, ServerHasTheLatest DEF EvolvesBy, Evolves, Follows
  <1> QED
    BY <1>1, <1>3, <1>4

LEMMA FinalizerStaysLast ==
    ASSUME VersionsAreResources, LoopInv, HistoryInv, CallsAgree,
           FinalizerComesLast, [LoopNext]_vars
    PROVE  FinalizerComesLast'
  <1> SUFFICES ASSUME NEW r \in Resources, NEW a \in States(r)',
                      NEW b \in States(r)', a.uid < b.uid, b.fin
               PROVE  FALSE
    BY DEF FinalizerComesLast
  <1>1. CASE a \in States(r) /\ b \in States(r)
    BY <1>1 DEF FinalizerComesLast
  <1>2. ASSUME NEW c, EvolvesBy(c), b = c.obj, c.res = r, ~c.gone
        PROVE  FALSE
    <2>1. store[r] # None
      BY <1>2 DEF EvolvesBy, FinalizerIsOfTask
    <2>2. PICK s \in CustomResource : s = store[r] /\ s \in States(r)
      BY <2>1 DEF States, NewerThanTasks, NewerThanCache, LoopInv, LoopTypeOK,
                  ServerTypeOK
    <2>3. b.uid = s.uid /\ b \in CustomResource
      BY <1>2, <2>1, <2>2, ChangeOfUid
    <2>4. a \in States(r)
      <3>1. ASSUME NEW d, EvolvesBy(d), a = d.obj, d.res = r, ~d.gone
            PROVE  FALSE
        <4>1. a.uid = s.uid
          BY <2>1, <2>2, <3>1, ChangeOfUid
        <4> QED
          BY <2>2, <2>3, <4>1 DEF CustomResource
      <3> QED
        BY <3>1, StatesOfTheLoop
    <2>5. a \in CustomResource
      BY <2>4, StatesAreTyped DEF LoopInv
    <2>6. ~s.fin
      BY <2>2, <2>3, <2>4 DEF FinalizerComesLast
    <2>7. PICK v \in TaskVersions(r) : v.uid = b.uid
      BY <1>2, <2>2, <2>6 DEF EvolvesBy, FinalizerIsOfTask
    <2>8. b.uid <= a.uid
      BY <2>4, <2>7, TasksHaveTheEarliest
    <2> QED
      BY <2>3, <2>5, <2>8 DEF CustomResource
  <1>3. ASSUME NEW c, EvolvesBy(c), a = c.obj, c.res = r, ~c.gone,
               b \in States(r)
        PROVE  FALSE
    <2>1. b.uid <= a.uid /\ a \in CustomResource
      BY <1>3, ChangeOfUid
    <2>2. b \in CustomResource
      BY <1>3, StatesAreTyped DEF LoopInv
    <2> QED
      BY <2>1, <2>2 DEF CustomResource
  <1> QED
    BY <1>1, <1>2, <1>3, StatesOfTheLoop

LEMMA ObservedGenerationStays ==
    ASSUME VersionsAreResources, LoopInv, HistoryInv, CallsAgree,
           ObservedStays, [LoopNext]_vars
    PROVE  ObservedStays'
  <1> SUFFICES ASSUME NEW r \in Resources, NEW a \in States(r)',
                      store'[r] # None, SameGeneration(a, store'[r]),
                      a.obs = a.gen
               PROVE  store'[r].obs = store'[r].gen
    BY DEF ObservedStays, SameGeneration
  <1>1. CASE UNCHANGED <<store, resourceVersion>>
    <2>1. a \in States(r)
      <3>1. \/ OperatorRestarts \/ InformerStores \/ InformerLists
            \/ UNCHANGED watch
        <4>1. ASSUME NEW c, EvolvesBy(c) PROVE FALSE
          BY <1>1, <4>1 DEF EvolvesBy, Changed, LoopInv, LoopTypeOK, ServerTypeOK
        <4> QED
          BY <4>1, StoreOfTheLoop
      <3> QED
        BY <1>1, <3>1, StatesWithoutChange
    <2> QED
      BY <1>1, <2>1 DEF ObservedStays
  <1>2. ASSUME NEW c, EvolvesBy(c), UNCHANGED <<cache, queue, active>>
        PROVE  store'[r].obs = store'[r].gen
    <2>1. a \in States(r) \/ (a = c.obj /\ c.res = r /\ ~c.gone)
      BY <1>2, StatesAfterChange DEF EvolvesBy, LoopInv
    <2>2. store' = [store EXCEPT ![c.res] = Leaves(c)] /\ c.res \in Resources
      BY <1>2 DEF EvolvesBy, Changed, Change
    <2>3. CASE c.res # r
      BY <2>1, <2>2, <2>3 DEF ObservedStays
    <2>4. CASE c.res = r
      <3>1. store'[r] = c.obj /\ ~c.gone
        BY <2>2, <2>4 DEF Leaves, LoopInv, LoopTypeOK, ServerTypeOK
      <3>2. CASE a = c.obj
        BY <3>1, <3>2
      <3>3. CASE a \in States(r)
        <4>1. /\ c.obj \in CustomResource /\ a \in CustomResource
              /\ store[r] # None
          BY <1>2, <2>4, <3>1, <3>3, ChangeOfUid, StatesAreTyped
             DEF SameGeneration, CustomResource, LoopInv
        <4>2. PICK s \in CustomResource : s = store[r] /\ Follows(a, s)
          BY <3>3, <4>1, ServerHasTheLatest
        <4>3. Evolves(s, c.obj)
          BY <1>2, <2>4, <3>1, <4>1, <4>2 DEF EvolvesBy
        <4>4. c.obj.gen = s.gen /\ SameGeneration(a, s)
          BY <3>1, <4>1, <4>2, <4>3
             DEF Evolves, Follows, SameGeneration, CustomResource
        <4>5. s.obs = s.gen
          BY <3>3, <4>1, <4>2, <4>4 DEF ObservedStays
        <4> QED
          BY <3>1, <4>1, <4>2, <4>3, <4>4, <4>5 DEF Evolves, CustomResource
      <3> QED
        BY <2>1, <3>2, <3>3
    <2> QED
      BY <2>3, <2>4
  <1> QED
    BY <1>1, <1>2, StoreOfTheLoop

-------------------------------------------------------------------------------
(***************************************************************************)
(* Updates are made after the reconciler or the cleanup was called.        *)
(***************************************************************************)
\* Only the dispatcher and the server's answers bring results.
LEMMA ResultsOfTheLoop ==
    ASSUME VersionsAreResources, LoopInv, HistoryInv, AnswersFit,
           [LoopNext]_vars, ~OperatorRestarts, NEW t \in Threads, result'[t] # None
    PROVE  result'[t] = result[t] \/ Dispatches(t) \/ ApiCallEnds(t)
  <1>1. LoopTypeOK /\ EPTypeOK
    BY DEF LoopInv, LoopTypeOK
  <1>2. ASSUME UNCHANGED result PROVE result'[t] = result[t]
    BY <1>2
  <1>3. ASSUME NEW s \in Threads, Dispatches(s) \/ ApiCallEnds(s), s # t
        PROVE  result'[t] = result[t]
    <2>1. Answers(s) \/ Updates(s)
      BY <1>3, DispatchAnswers, AnswersOfTheServer
         DEF Dispatches, ApiCallEnds, LoopInv
    <2> QED
      BY <1>1, <1>3, <2>1 DEF Answers, Updates, EPTypeOK
  <1>4. ASSUME NEW s \in Threads, Starts(s) \/ Finishes(s) \/ Postpones(s)
        PROVE  result'[t] = result[t]
    <2>1. UNCHANGED result \/ ThreadDone(s)
      BY <1>4 DEF Starts, StartExecution, Finishes, EventProcessingFinished,
           HandleRetryOnException, FinishWithoutRetry, Postpones,
           PostponeReconciliation
    <2> QED
      BY <1>1, <2>1 DEF ThreadDone, EPTypeOK
  <1>5. ASSUME NEW x \in Resources, NEW action, HandleEvent(x, action)
        PROVE  UNCHANGED result
    BY <1>5 DEF HandleEvent
  <1>6. CASE \/ DeliverEvent \/ SecondaryEvent
             \/ \E r \in Resources : TimerRuns(r) \/ TimerDelivers(r)
    <2>1. delivering # None => delivering.res \in Resources
      BY <1>1 DEF LoopTypeOK
    <2> QED
      BY <1>2, <1>5, <1>6, <2>1
         DEF DeliverEvent, SecondaryEvent, EventReceived, TimerRuns, TimerFires,
             TimerDelivers, TimerEventReceived, otherThanTimer, taskVars, epVars
  <1>7. CASE \/ Users \/ ControllerSourceStarts
             \/ InformerStores \/ InformerRelists \/ FilterNotification
             \/ SecondaryUser \/ SecondaryStores \/ SecondaryPropagates
             \/ TimerStarts \/ UNCHANGED vars
    BY <1>2, <1>7
       DEF Users, ControllerSourceStarts, InformerStores, InformerRelists,
           FilterNotification, SecondaryUser, SecondaryStores, SecondaryPropagates, TimerStarts,
           otherThanTimer, otherThanInformer, taskVars, epVars, vars
  <1> QED
    BY <1>3, <1>4, <1>6, <1>7 DEF LoopNext

\* The version before the update is the one the task was given, or what the
\* first of two calls has made of it.
LEMMA BeforeOfAnswer ==
    ASSUME VersionsAreResources, LoopInv, HistoryInv, AnswersFit, CallsAgree,
           UpdatesAreOfBegun, NEW t \in Threads, ServerAnswers(t)
    PROVE  /\ call'[t] # None => IsOfTask(call'[t].before, active[t].version)
           /\ result'[t] # None /\ result'[t].updated # None
                 => IsBegun(result'[t].before)
  <1>1. /\ call[t] # None /\ active[t] # None /\ LoopTypeOK /\ ServerTypeOK
        /\ result[t] = None /\ EPTypeOK
        /\ call \in [Threads -> ApiCall \cup {None}]
        /\ result \in [Threads -> PostExecutionControl \cup {None}]
    BY DEF ServerAnswers, LoopInv, CallOfTask, LoopTypeOK, EPTypeOK,
           DispatcherTypeOK
  <1>2. PICK r \in Resources, v \in CustomResource :
           r = active[t].res /\ v = Snapshot(t)
    BY <1>1, SnapshotIsState
  <1>3. PICK c \in ApiCall : c = call[t]
    BY <1>1
  <1>4. PICK o \in CustomResource : o = c.obj
    BY DEF ApiCall
  <1>5. /\ MayAskFor(c.op, o, v) /\ IsUpToDate(c.op, o, r)
        /\ o.uid = v.uid
        /\ store[r] # None /\ store[r].rv = o.rv => store[r].uid = o.uid
        /\ IsOfTask(c.before, v)
    BY <1>1, <1>2, <1>3, <1>4
       DEF CallsAgree, CallAgrees, Snapshot, HistoryInv, CallsFit, CallFits,
           UpdatesAreOfBegun
  <1>6. ASSUME Answers(t)
        PROVE  /\ call'[t] # None => IsOfTask(call'[t].before, active[t].version)
               /\ result'[t] # None /\ result'[t].updated # None
                     => IsBegun(result'[t].before)
    BY <1>1, <1>6 DEF Answers, IsOfTask, SameGeneration
  <1>a. CASE CallThrows(t)
    <2>1. PICK e \in CustomResource : e = Original(t)
      BY <1>1, OriginalsFit
    <2>2. v.rv <= e.rv
      BY <1>1, <1>2, <1>3, <1>4, <2>1
         DEF Original, AnswersFit, CallIsOfTask, Snapshot, CustomResource
    <2>3. Answers(t)
      BY <1>1, <1>2, <1>a, <2>1, <2>2, ReconcileFailsAnswers, ReturnsAnswer
         DEF CallThrows, Snapshot
    <2> QED
      BY <1>6, <2>3
  <1>7. CASE CallRefused(t)
    BY <1>7, <1>a DEF CallRefused
  <1>8. CASE CallExecuted(t) /\ ~CallThrows(t)
    <2>1. CASE c.op = "addFinalizer" \/ c.op = "errorStatus"
      <3>1. Answers(t)
        BY <1>3, <1>8, <2>1, ReturnsAnswer DEF CallExecuted
      <3> QED
        BY <1>6, <3>1
    <2>2. CASE c.op \in {"updateResource", "updateStatus", "observeGeneration",
                         "removeFinalizer"}
      <3>1. PICK u : Returns(t, CustomResourceUpdated(t, u))
        BY <1>3, <1>8, <2>2 DEF CallExecuted
      <3>2. call'[t] = None /\ result'[t] = CustomResourceUpdated(t, u)
        BY <1>1, <3>1 DEF Returns, HandleExecution
      <3>3. CustomResourceUpdated(t, u).before = c.before
        BY <1>3 DEF CustomResourceUpdated, DispatchedWithReschedule
      <3>4. IsBegun(c.before)
        BY <1>5, <2>2 DEF IsBegun, IsOfTask, SameGeneration, MayAskFor
      <3> QED
        BY <3>2, <3>3, <3>4
    <2>3. CASE c.op = "updateResourceAndStatus"
      <3>1. PICK new : new = PutResource(r, o)
        OBVIOUS
      <3>2. /\ IsCurrent(r, o)
            /\ UpdatesStatusNext(t, Written(r, new))
        BY <1>2, <1>3, <1>4, <1>8, <2>3, <3>1 DEF CallExecuted
      <3>3. PICK s \in CustomResource : s = store[r] /\ s # None /\ s.rv = o.rv
        BY <1>1, <3>2 DEF IsCurrent, ServerTypeOK
      <3>4. new = [s EXCEPT !.fin = o.fin, !.ann = o.ann]
        BY <3>1, <3>3 DEF PutResource
      <3>5. /\ new \in CustomResource
            /\ new.uid = s.uid /\ new.gen = s.gen /\ new.del = s.del
        BY <3>4 DEF CustomResource
      <3>6. s.uid = v.uid /\ s.gen = v.gen /\ s.del = v.del
        BY <1>5, <2>3, <3>3 DEF MayAskFor, IsUpToDate
      <3>7. PICK w : w = Written(r, new) /\ IsOfTask(w, v)
        <4>1. /\ Stamped(new).uid = new.uid /\ Stamped(new).gen = new.gen
              /\ Stamped(new).del = new.del
          BY <3>5 DEF Stamped, CustomResource
        <4>2. Written(r, new) = new \/ Written(r, new) = Stamped(new)
          BY DEF Written
        <4> QED
          BY <3>5, <3>6, <4>1, <4>2 DEF IsOfTask, SameGeneration
      <3>8. /\ call'[t].before = IF IsCloned(t) THEN v ELSE w
            /\ result' = result
        BY <1>1, <1>2, <3>2, <3>7 DEF UpdatesStatusNext, epVars, taskVars
      <3>9. IsOfTask(v, v)
        BY DEF IsOfTask, SameGeneration
      <3> QED
        BY <1>1, <1>2, <3>7, <3>8, <3>9 DEF Snapshot
    <2> QED
      BY <1>3, <2>1, <2>2, <2>3 DEF ApiCall
  <1> QED
    BY <1>7, <1>8, <1>a DEF ServerAnswers

LEMMA UpdatesStayOfBegun ==
    ASSUME VersionsAreResources, LoopInv, HistoryInv, AnswersFit, CallsAgree,
           UpdatesAreOfBegun, [LoopNext]_vars
    PROVE  UpdatesAreOfBegun'
  <1>1. CASE OperatorRestarts
    BY <1>1 DEF OperatorRestarts, UpdatesAreOfBegun
  <1>2. ASSUME ~OperatorRestarts, NEW t \in Threads,
               Dispatches(t) \/ ApiCallEnds(t)
        PROVE  /\ call'[t] # None => IsOfTask(call'[t].before, active'[t].version)
               /\ result'[t] # None /\ result'[t].updated # None
                     => IsBegun(result[t].before)'
    <2>1. sinceStart \subseteq sinceStart' /\ OnlyAnswers
      BY <1>2, SinceStartGrows, DispatcherLeavesProcessor
         DEF Dispatches, ApiCallEnds
    <2>2. CASE ApiCallEnds(t)
      BY <2>1, <2>2, BeforeOfAnswer DEF ApiCallEnds, OnlyAnswers, IsBegun
    <2>3. CASE Dispatches(t)
      <3>1. Answers(t) /\ LoopTypeOK /\ result[t] = None
        BY <2>3, DispatchAnswers
           DEF Dispatches, Dispatch, LoopInv, IsDispatched, SkipsCleanup,
               AddsFinalizer, Reconciles, IsReconciled, CleansUp
      <3> QED
        BY <2>1, <3>1 DEF Answers, LoopTypeOK, EPTypeOK, DispatcherTypeOK,
                          OnlyAnswers, IsOfTask, SameGeneration
    <2> QED
      BY <1>2, <2>2, <2>3
  <1>3. CASE ~OperatorRestarts
    <2>1. sinceStart \subseteq sinceStart'
      BY <1>3, SinceStartGrows
    <2>2. ASSUME NEW t \in Threads, call'[t] # None
          PROVE  IsOfTask(call'[t].before, active'[t].version)
      BY <1>2, <1>3, <2>2, CallsOfTheLoop DEF UpdatesAreOfBegun
    <2>3. ASSUME NEW t \in Threads, result'[t] # None, result'[t].updated # None
          PROVE  IsBegun(result[t].before)'
      <3>1. CASE result'[t] = result[t]
        BY <2>1, <2>3, <3>1 DEF UpdatesAreOfBegun, IsBegun
      <3>2. CASE Dispatches(t) \/ ApiCallEnds(t)
        BY <1>2, <1>3, <2>3, <3>2
      <3> QED
        BY <1>3, <2>3, <3>1, <3>2, ResultsOfTheLoop
    <2> QED
      BY <2>2, <2>3 DEF UpdatesAreOfBegun, IsOfTask, SameGeneration, IsBegun
  <1> QED
    BY <1>1, <1>3

LEMMA DeleteMarksStayTransient ==
    ASSUME VersionsAreResources, LoopInv, DeleteMarkIsTransient,
           [LoopNext]_vars
    PROVE  DeleteMarkIsTransient'
  <1>1. CASE EPInit'
    BY <1>1 DEF EPInit, DeleteMarkIsTransient, DeleteEventPresent
  <1>2. CASE [EPNext]_epVars
    BY <1>2, NextKeepsNoDeleteMark, OwnSourcesAssumption DEF LoopInv
  <1> QED
    BY <1>1, <1>2, ProcessorInLoop
-------------------------------------------------------------------------------
(***************************************************************************)
(* What attends to a due generation, or will, is left by no step.          *)
(***************************************************************************)
\* A generation that is due, and in the informer's store, was so before the
\* step, unless the step has put it there.
LEMMA DueWasDue ==
    ASSUME VersionsAreResources, LoopInv, HistoryInv, CallsAgree,
           [LoopNext]_vars, ~OperatorRestarts, NEW r \in Resources,
           cache'[r] = cache[r], IsDue(r)', Known(r)'
    PROVE  IsDue(r) /\ Known(r) /\ SameGeneration(store'[r], store[r])
  <1>1. sinceStart \subseteq sinceStart' /\ LoopTypeOK /\ ServerTypeOK
    BY SinceStartGrows DEF LoopInv, LoopTypeOK
  <1>2. CASE UNCHANGED store
    BY <1>1, <1>2 DEF IsDue, Known, SameGeneration
  <1>3. ASSUME NEW c, EvolvesBy(c)
        PROVE  IsDue(r) /\ Known(r) /\ SameGeneration(store'[r], store[r])
    <2>1. store' = [store EXCEPT ![c.res] = Leaves(c)] /\ c.res \in Resources
      BY <1>3 DEF EvolvesBy, Changed, Change
    <2>2. CASE c.res # r
      <3>1. store'[r] = store[r]
        BY <2>1, <2>2
      <3> QED
        BY <1>1, <3>1 DEF IsDue, Known, SameGeneration
    <2>3. CASE c.res = r
      <3>1. store'[r] = c.obj /\ ~c.gone
        BY <1>1, <2>1, <2>3 DEF Leaves, ServerTypeOK, IsDue
      <3>2. PICK o \in CustomResource : o = c.obj
        BY <1>3, ChangeOfUid DEF EvolvesBy, Changed, Change
      <3>3. PICK k \in CustomResource : k = cache[r] /\ k \in States(r)
        <4>1. cache[r] # None /\ cache[r] \in States(r)
          BY DEF Known, States, NewerThanTasks
        <4> QED
          BY <1>1, <4>1, StatesAreTyped
      <3>4. k.uid = o.uid /\ k.gen = o.gen
        BY <3>1, <3>2, <3>3 DEF Known, SameGeneration
      <3>5. store[r] # None
        <4>1. store[r] = None => k.uid < o.uid
          BY <1>3, <2>3, <3>1, <3>2, <3>3, ChangeOfUid
        <4> QED
          BY <3>2, <3>4, <4>1 DEF CustomResource
      <3>6. PICK s \in CustomResource : s = store[r] /\ Follows(k, s)
        BY <3>3, <3>5, ServerHasTheLatest
      <3>7. Evolves(s, o)
        BY <1>3, <2>3, <3>1, <3>2, <3>5, <3>6 DEF EvolvesBy
      <3>8. k.gen <= s.gen /\ o.uid = s.uid
        BY <3>4, <3>6, <3>7 DEF Follows, Evolves
      <3>9. o.gen = s.gen
        BY <3>4, <3>7, <3>8 DEF Evolves, CustomResource
      <3>10. <<s.uid, s.gen>> \notin sinceStart
        BY <1>1, <3>1, <3>2, <3>8, <3>9 DEF IsDue
      <3>11. o.del = s.del /\ o.obs = s.obs
        BY <3>7, <3>9, <3>10 DEF Evolves, CustomResource
      <3> QED
        BY <3>1, <3>2, <3>3, <3>4, <3>5, <3>6, <3>8, <3>9, <3>10, <3>11
           DEF IsDue, Known, SameGeneration
    <2> QED
      BY <2>2, <2>3
  <1> QED
    BY <1>2, <1>3, StoreOfTheLoop

\* What is coming still is, when changes stay under way and the rest attended.
LEMMA ComingPasses ==
    ASSUME NEW r \in Resources, Coming(r), cache'[r] = cache[r],
           IsOf(watch, r) => IsOf(watch, r)',
           UNCHANGED <<notifications, delivering>>,
           IsAttended(r) => IsAttended(r)'
    PROVE  Coming(r)'
  <1>1. \A j : NoDeletionAfter(r, j)' <=> NoDeletionAfter(r, j)
    BY DEF NoDeletionAfter
  <1>2. CASE UseFinalizer /\ ~cache[r].fin /\ IsOf(watch, r)
    BY <1>2 DEF Coming
  <1>3. CASE \E j \in 1..Len(notifications) :
                IsAccepted(notifications[j], r) /\ NoDeletionAfter(r, j)
    BY <1>1, <1>3 DEF Coming, IsAccepted
  <1>4. CASE /\ NoDeletionAfter(r, 0)
             /\ Delivers(r) => delivering.action # "DELETED"
             /\ Delivers(r) \/ IsAttended(r)
    BY <1>1, <1>4 DEF Coming, Delivers
  <1> QED
    BY <1>2, <1>3, <1>4 DEF Coming

\* What is attended to stays so when the queue keeps its head, no task of it
\* ends, its mark stays with what waits for it, and what was given up is.
LEMMA AttendedPasses ==
    ASSUME NEW r \in Resources, IsAttended(r),
           cache'[r] = cache[r] \/ cache[r].fin,
           SameGeneration(store'[r], store[r]),
           \A i \in 1..Len(queue) : i \in 1..Len(queue') /\ queue'[i] = queue[i],
           \A t \in Threads :
              active[t] # None /\ active[t].res = r /\ Unfinished(t)
              /\ Fits(r, active[t].version) =>
                 active'[t] = active[t] /\ Unfinished(t)',
           EventIsKept(r) => EventIsKept(r)',
           HasGivenUp(r) => gaveUp'[r] = gaveUp[r] /\ r \notin underProcessing'
    PROVE  IsAttended(r)'
  <1>1. \A v : Fits(r, v) => Fits(r, v)'
    BY DEF Fits, SameGeneration
  <1>2. ASSUME NEW i \in 1..Len(queue), queue[i].res = r, Fits(r, queue[i].version)
        PROVE  IsGiven(r)'
    <2>1. i \in 1..Len(queue') /\ queue'[i] = queue[i]
      OBVIOUS
    <2>2. Fits(r, queue[i].version)'
      BY <1>1, <1>2, <2>1 DEF Fits, SameGeneration
    <2> QED
      BY <1>2, <2>1, <2>2 DEF IsGiven
  <1>3. ASSUME NEW t \in Threads, active[t] # None, active[t].res = r,
               Unfinished(t), Fits(r, active[t].version)
        PROVE  IsGiven(r)'
    <2>1. active'[t] = active[t] /\ Unfinished(t)'
      BY <1>3
    <2>2. Fits(r, active[t].version)'
      BY <1>3, <2>1 DEF Fits, SameGeneration
    <2> QED
      BY <1>3, <2>1, <2>2 DEF IsGiven
  <1>4. HasGivenUp(r) => HasGivenUp(r)'
    BY DEF HasGivenUp, GaveUpOn, SameGeneration
  <1> QED
    BY <1>2, <1>3, <1>4 DEF IsAttended, IsGiven

attendanceVars == <<queue, active, result, lockHolder, eventingState,
                    underProcessing, onceTasks, timerThread, gaveUp>>
LEMMA AttendedStays ==
    ASSUME NEW r \in Resources, IsAttended(r), UNCHANGED attendanceVars,
           cache'[r] = cache[r] \/ cache[r].fin,
           SameGeneration(store'[r], store[r])
    PROVE  IsAttended(r)'
  <1>1. \A t \in Threads : Unfinished(t) => Unfinished(t)'
    BY DEF attendanceVars, Unfinished
  <1>2. EventIsKept(r) => EventIsKept(r)'
    BY DEF attendanceVars, EventIsKept, EventPresent, IsProcessedLater
  <1>3. UNCHANGED <<queue, active, gaveUp, underProcessing>>
    BY DEF attendanceVars
  <1>4. HasGivenUp(r) => gaveUp'[r] = gaveUp[r] /\ r \notin underProcessing'
    BY <1>3 DEF HasGivenUp
  <1> QED
    BY <1>1, <1>2, <1>3, <1>4, AttendedPasses

\* A submission gives the task what the informer's store has.
LEMMA SubmissionGives ==
    ASSUME EPTypeOK, NEW x \in Resources, NEW up \in SUBSET Resources, NEW em,
           NEW rs \in [Resources -> Int],
           SubmitReconciliationExecution(x, up, em, rs),
           x \notin up, Known(x), UNCHANGED cache,
           SameGeneration(store'[x], store[x])
    PROVE  IsGiven(x)'
  <1>1. cache[x] # None /\ SameGeneration(cache[x], store'[x])
    BY DEF Known, SameGeneration
  <1>2. queue' # queue
    <2>1. queue' = Append(queue, [res |-> x, version |-> cache[x],
                                  retry |-> rs[x]])
      BY <1>1, OwnSourcesAssumption DEF SubmitReconciliationExecution, MaySubmit
    <2>2. [res |-> x, version |-> cache[x], retry |-> rs[x]] \in ExecutionScope
      BY <1>1 DEF EPTypeOK, ExecutionScope
    <2>3. Len(queue') = Len(queue) + 1 /\ Len(queue) \in Nat
      BY <2>1, <2>2, AppendProperties, LenProperties DEF EPTypeOK
    <2> QED
      BY <2>3
  <1>3. /\ Len(queue') = Len(queue) + 1
        /\ queue'[Len(queue')].res = x
        /\ queue'[Len(queue')].version = cache[x]
    BY <1>2, SubmissionEffect, OwnSourcesAssumption
  <1>4. Len(queue') \in 1..Len(queue')
    BY <1>3, LenProperties DEF EPTypeOK
  <1>5. Fits(x, queue[Len(queue)].version)'
    BY <1>1, <1>3 DEF Fits
  <1> QED
    BY <1>3, <1>4, <1>5 DEF IsGiven

\* An event is attended to: by a task, or with a mark for the one that runs.
LEMMA HandleEventAttends ==
    ASSUME EPTypeOK, running, DeleteMarkIsTransient, NEW x \in Resources,
           NEW action, action # "DELETED", HandleEvent(x, action), Known(x),
           UNCHANGED store
    PROVE  IsAttended(x)'
  <1>1. /\ SubmitReconciliationExecution(x, underProcessing,
               MarkEventReceived(eventingState, x), retryState)
        /\ UNCHANGED cache
    BY DEF HandleEvent, AcceptsEvents, DeleteMarkIsTransient
  <1>2. underProcessing \in SUBSET Resources /\ retryState \in [Resources -> Int]
    BY DEF EPTypeOK
  <1>3. CASE x \notin underProcessing
    <2>1. SameGeneration(store'[x], store[x])
      BY DEF SameGeneration
    <2> QED
      BY <1>1, <1>2, <1>3, <2>1, SubmissionGives DEF IsAttended
  <1>4. CASE x \in underProcessing
    <2>1. /\ underProcessing' = underProcessing
          /\ eventingState' = MarkEventReceived(eventingState, x)
      BY <1>1, <1>4 DEF SubmitReconciliationExecution, MaySubmit, SkipExecution
    <2>2. EventPresent(eventingState', x)
      BY <2>1 DEF MarkEventReceived, EventPresent, EPTypeOK
    <2> QED
      BY <1>4, <2>1, <2>2 DEF IsAttended, EventIsKept, IsProcessedLater
  <1> QED
    BY <1>3, <1>4

LEMMA SubmissionKeepsMark ==
    ASSUME NEW em \in [Resources -> EventingState], NEW up, NEW rs,
           NEW x \in Resources, NEW r \in Resources, r # x, EventPresent(em, r),
           SubmitReconciliationExecution(x, up, em, rs)
    PROVE  EventPresent(eventingState', r)
  <1>1. eventingState' = em \/ eventingState' = UnMarkEventReceived(em, x)
    BY DEF SubmitReconciliationExecution, SkipExecution
  <1> QED
    BY <1>1, MarkerTouchesOneResource

\* The events of others change nothing.
LEMMA HandleEventKeepsAttended ==
    ASSUME EPTypeOK, NEW x \in Resources, NEW action, HandleEvent(x, action),
           UNCHANGED <<store, gaveUp>>, NEW r \in Resources, r # x,
           timerThread = r => timerThread' = r, IsAttended(r)
    PROVE  IsAttended(r)'
  <1>1. /\ UNCHANGED <<cache, active>>
        /\ SameGeneration(store'[r], store[r])
        /\ \A t \in Threads : Unfinished(t) => Unfinished(t)'
    BY DEF HandleEvent, SameGeneration, Unfinished
  <1>2. r \in onceTasks => r \in onceTasks'
    BY OwnSourcesAssumption
       DEF HandleEvent, CleanupForDeletedEvent, CancelOnceSchedule
  <1>3. CASE SubmitReconciliationExecution(x, underProcessing,
                 MarkEventReceived(eventingState, x), retryState)
    <2>1. underProcessing \in SUBSET Resources /\ retryState \in [Resources -> Int]
      BY DEF EPTypeOK
    <2>2. \A i \in 1..Len(queue) : i \in 1..Len(queue') /\ queue'[i] = queue[i]
      BY <1>3, <2>1, SubmissionQueues, OwnSourcesAssumption
    <2>3. /\ underProcessing \subseteq underProcessing'
          /\ underProcessing' \subseteq underProcessing \cup {x}
      BY <1>3 DEF SubmitReconciliationExecution, SkipExecution
    <2>4. EventPresent(eventingState, r) => EventPresent(eventingState', r)
      <3>1. MarkEventReceived(eventingState, x) \in [Resources -> EventingState]
        BY DEF EPTypeOK, MarkEventReceived, EventingState
      <3> QED
        BY <1>3, <3>1, SubmissionKeepsMark, MarkerTouchesOneResource DEF EPTypeOK
    <2>5. EventIsKept(r) => EventIsKept(r)'
      BY <1>2, <2>3, <2>4 DEF EventIsKept, IsProcessedLater
    <2>6. HasGivenUp(r) => gaveUp'[r] = gaveUp[r] /\ r \notin underProcessing'
      BY <2>3 DEF HasGivenUp
    <2> QED
      BY <1>1, <2>2, <2>5, <2>6, AttendedPasses
  <1>4. ASSUME UNCHANGED <<underProcessing, queue>>,
               EventPresent(eventingState, r) => EventPresent(eventingState', r)
        PROVE  IsAttended(r)'
    <2>1. EventIsKept(r) => EventIsKept(r)'
      BY <1>4, <1>2 DEF EventIsKept, IsProcessedLater
    <2>2. HasGivenUp(r) => gaveUp'[r] = gaveUp[r] /\ r \notin underProcessing'
      BY <1>4 DEF HasGivenUp
    <2> QED
      BY <1>1, <1>4, <2>1, <2>2, AttendedPasses
  <1>5. CASE eventingState' =
                CleanupMarker(MarkDeleteEventReceived(eventingState, x), x)
             /\ UNCHANGED <<underProcessing, queue>>
    <2>1. EventPresent(eventingState, r) => EventPresent(eventingState', r)
      BY <1>5, MarkerTouchesOneResource DEF EPTypeOK
    <2> QED
      BY <1>4, <1>5, <2>1
  <1> QED
    BY <1>3, <1>4, <1>5, OwnSourcesAssumption
       DEF HandleEvent, CleanupForDeletedEvent

\* The end of an execution leaves the other resources as they are, and the queue
\* its head.
LEMMA FinishLeavesOthers ==
    ASSUME TasksInv, running, NEW t \in Threads, EventProcessingFinished(t),
           NEW x \in Resources, x = active[t].res
    PROVE  /\ \A y \in Resources \ {x} :
                 /\ eventingState'[y] = eventingState[y]
                 /\ y \in underProcessing <=> y \in underProcessing'
                 /\ y \in onceTasks => y \in onceTasks'
           /\ \A i \in 1..Len(queue) : i \in 1..Len(queue') /\ queue'[i] = queue[i]
           /\ \/ ThreadDone(t) /\ lockHolder' = lockHolder
              \/ UNCHANGED <<active, result>> /\ lockHolder' = t
  <1> DEFINE up == UnsetUnderExecution(x)
             em == MarkEventReceived(eventingState, x)
  <1>1. /\ EPTypeOK /\ up \in SUBSET Resources
        /\ \A y \in Resources \ {x} : y \in underProcessing <=> y \in up
        /\ GetOrInitRetry(retryState, x) \in [Resources -> Int]
        /\ ForgetRetry(x) \in [Resources -> Int]
    BY RetryTypes DEF TasksInv, EPTypeOK, UnsetUnderExecution
  <1>2. \A y \in Resources \ {x} :
           /\ em[y] = eventingState[y]
           /\ UnMarkEventReceived(em, x)[y] = eventingState[y]
           /\ UnMarkEventReceived(eventingState, x)[y] = eventingState[y]
           /\ CleanupMarker(eventingState, x)[y] = eventingState[y]
    BY <1>1 DEF MarkEventReceived, UnMarkEventReceived, CleanupMarker, EPTypeOK
  <1>3. \A y \in Resources \ {x} : \A tasks :
           /\ y \in tasks => y \in ScheduleOnce(tasks, x)
           /\ y \in tasks => y \in CancelOnceSchedule(tasks, x)
    BY DEF ScheduleOnce, CancelOnceSchedule
  <1> HIDE DEF up, em
  <1>4. ASSUME NEW e \in {eventingState, em}, NEW rs \in [Resources -> Int],
               SubmitReconciliationExecution(x, up, e, rs)
        PROVE  /\ \A y \in Resources \ {x} :
                     /\ eventingState'[y] = eventingState[y]
                     /\ y \in underProcessing <=> y \in underProcessing'
               /\ \A i \in 1..Len(queue) :
                     i \in 1..Len(queue') /\ queue'[i] = queue[i]
    <2>1. /\ underProcessing' = up \/ underProcessing' = up \cup {x}
          /\ eventingState' = e \/ eventingState' = UnMarkEventReceived(e, x)
      BY <1>4 DEF SubmitReconciliationExecution, SkipExecution
    <2>2. \A i \in 1..Len(queue) : i \in 1..Len(queue') /\ queue'[i] = queue[i]
      BY <1>1, <1>4, SubmissionQueues, OwnSourcesAssumption
    <2> QED
      BY <1>1, <1>2, <1>4, <2>1, <2>2
  <1>5. CASE HandleRetryOnException(t, x)
    <2>1. /\ ThreadDone(t) /\ lockHolder' = lockHolder
          /\ onceTasks' \in {onceTasks, ScheduleOnce(onceTasks, x)}
          /\ \/ SubmitReconciliationExecution(x, up, em,
                    GetOrInitRetry(retryState, x))
             \/ underProcessing' = up /\ eventingState' = em /\ queue' = queue
      BY <1>5 DEF HandleRetryOnException, up, em
    <2>2. \A y \in Resources \ {x} : y \in onceTasks => y \in onceTasks'
      BY <1>3, <2>1
    <2>3. CASE SubmitReconciliationExecution(x, up, em,
                   GetOrInitRetry(retryState, x))
      BY <1>1, <1>4, <2>1, <2>2, <2>3
    <2>4. CASE underProcessing' = up /\ eventingState' = em /\ queue' = queue
      BY <1>1, <1>2, <2>1, <2>2, <2>4
    <2> QED
      BY <2>1, <2>3, <2>4
  <1>6. CASE FinishWithoutRetry(t, x)
    <2> DEFINE cancelled == CancelOnceSchedule(onceTasks, x)
    <2>1. /\ onceTasks' \in {cancelled, ScheduleOnce(cancelled, x),
                             CancelOnceSchedule(cancelled, x)}
          /\ \/ SubmitReconciliationExecution(x, up, eventingState, ForgetRetry(x))
             \/ /\ underProcessing' = up /\ queue' = queue
                /\ eventingState' \in {eventingState,
                                       CleanupMarker(eventingState, x)}
      BY <1>6, OwnSourcesAssumption
         DEF FinishWithoutRetry, CleanupForDeletedEvent, up
    <2>2. \/ ThreadDone(t) /\ lockHolder' = lockHolder
          \/ UNCHANGED <<active, result>> /\ lockHolder' = t
      BY <1>6 DEF FinishWithoutRetry
    <2>3. \A y \in Resources \ {x} : y \in onceTasks => y \in onceTasks'
      BY <1>3, <2>1
    <2>4. CASE SubmitReconciliationExecution(x, up, eventingState, ForgetRetry(x))
      BY <1>1, <1>4, <2>2, <2>3, <2>4
    <2>5. CASE /\ underProcessing' = up /\ queue' = queue
               /\ eventingState' \in {eventingState,
                                      CleanupMarker(eventingState, x)}
      BY <1>1, <1>2, <2>2, <2>3, <2>5
    <2> QED
      BY <2>1, <2>4, <2>5
  <1> QED
    BY <1>5, <1>6 DEF EventProcessingFinished, AcceptsEvents

\* An execution that ends is followed by the next one, when an event is there:
\* the informer's store has another version than the one before the update.
\* When it has failed, what follows is the retry, or nothing any more.
LEMMA FinishKeepsAttended ==
    ASSUME VersionsAreResources, LoopInv, HistoryInv, TimerIsReady, TimerFirst,
           Informed, DeleteMarkIsTransient, UpdatesAreOfBegun,
           NEW t \in Threads, Finishes(t), NEW r \in Resources,
           IsDue(r), Known(r), IsAttended(r)
    PROVE  IsAttended(r)'
  <1>1. /\ TasksInv /\ EPTypeOK /\ LoopTypeOK /\ running
        /\ EventProcessingFinished(t) /\ result[t] # None /\ lockHolder = None
        /\ UNCHANGED <<store, cache, timerThread>>
    BY DEF LoopInv, LoopTypeOK, TimerIsReady, Finishes, EventProcessingFinished,
           serverVars
  <1>2. PICK x \in Resources : x = active[t].res /\ active[t] # None
    BY <1>1, FinishedTask
  <1>3. /\ UnsetUnderExecution(x) \in SUBSET Resources
        /\ GetOrInitRetry(retryState, x) \in [Resources -> Int]
        /\ ForgetRetry(x) \in [Resources -> Int]
        /\ \A y \in Resources \ {x} :
              y \in underProcessing <=> y \in UnsetUnderExecution(x)
        /\ x \notin UnsetUnderExecution(x)
    BY <1>1, RetryTypes DEF UnsetUnderExecution, EPTypeOK
  <1>4. SameGeneration(store'[r], store[r])
    BY <1>1 DEF SameGeneration
  <1>5. /\ active[t] # None /\ active[t].res = x /\ x \in underProcessing
        /\ \A s \in Threads : active[s] # None /\ active[s].res = x => s = t
        /\ \A i \in 1..Len(queue) : queue[i].res # x
    BY <1>1, <1>2, NoneAssumption
       DEF TasksInv, Tasks, ThreadsMarked, ThreadsUnique, QueueApart
  <1>6. ASSUME NEW em, em = eventingState \/ em = MarkEventReceived(eventingState, x),
               NEW rs \in [Resources -> Int], r = x,
               SubmitReconciliationExecution(x, UnsetUnderExecution(x), em, rs)
        PROVE  IsAttended(r)'
    BY <1>1, <1>3, <1>4, <1>6, SubmissionGives DEF IsAttended
  <1>7. CASE r # x
    <2>1. /\ eventingState'[r] = eventingState[r]
          /\ r \in underProcessing <=> r \in underProcessing'
          /\ r \in onceTasks => r \in onceTasks'
          /\ \A i \in 1..Len(queue) : i \in 1..Len(queue') /\ queue'[i] = queue[i]
          /\ \/ ThreadDone(t) /\ lockHolder' = lockHolder
             \/ UNCHANGED <<active, result>> /\ lockHolder' = t
          /\ gaveUp'[r] = gaveUp[r]
      BY <1>1, <1>2, <1>7, FinishLeavesOthers DEF Finishes, LoopTypeOK
    <2>2. ASSUME NEW s \in Threads, active[s] # None, active[s].res = r,
                 Unfinished(s)
          PROVE  active'[s] = active[s] /\ Unfinished(s)'
      BY <1>1, <1>2, <1>7, <2>1, <2>2, NoneAssumption
         DEF ThreadDone, Unfinished, EPTypeOK
    <2>3. EventIsKept(r) => EventIsKept(r)'
      BY <1>1, <2>1 DEF EventIsKept, EventPresent, IsProcessedLater
    <2>4. HasGivenUp(r) => gaveUp'[r] = gaveUp[r] /\ r \notin underProcessing'
      BY <2>1 DEF HasGivenUp
    <2> QED
      BY <1>1, <1>4, <2>1, <2>2, <2>3, <2>4, AttendedPasses
  <1>8. CASE r = x
    <2>1. \/ EventPresent(eventingState, x)
          \/ Unfinished(t) /\ Fits(x, active[t].version)
      BY <1>5, <1>8 DEF IsAttended, IsGiven, EventIsKept, HasGivenUp
    <2>2. ASSUME result[t].exception, ~EventPresent(eventingState, x),
                 gaveUp'[x] = Snapshot(t), gaveUp'[x] # None,
                 underProcessing' = UnsetUnderExecution(x)
          PROVE  IsAttended(r)'
      BY <1>1, <1>3, <1>8, <2>1, <2>2
         DEF IsAttended, HasGivenUp, GaveUpOn, Fits, Snapshot
    <2>3. CASE IsRetried(t)
      <3>1. HandleRetryOnException(t, x)
        BY <1>1, <1>2, <2>3 DEF EventProcessingFinished, AcceptsEvents
      <3>2. CASE EventPresent(eventingState, x)
        BY <1>3, <1>6, <1>8, <3>1, <3>2 DEF HandleRetryOnException
      <3>3. CASE ~EventPresent(eventingState, x)
        <4> DEFINE rs == GetOrInitRetry(retryState, x)
        <4>1. /\ underProcessing' = UnsetUnderExecution(x)
              /\ eventingState' = MarkEventReceived(eventingState, x)
              /\ onceTasks' = IF HasNextDelay(rs, x)
                                THEN ScheduleOnce(onceTasks, x) ELSE onceTasks
          BY <3>1, <3>3 DEF HandleRetryOnException
        <4>2. CASE HasNextDelay(rs, x)
          <5>1. timerState = "running"
            BY <1>8 DEF TimerIsReady, Known
          <5>2. x \in onceTasks'
            BY <4>1, <4>2, <5>1 DEF ScheduleOnce
          <5>3. EventPresent(eventingState', x)
            BY <1>1, <4>1 DEF MarkEventReceived, EventPresent, EPTypeOK
          <5> QED
            BY <1>8, <5>2, <5>3 DEF IsAttended, EventIsKept, IsProcessedLater
        <4>3. CASE ~HasNextDelay(rs, x)
          <5>1. gaveUp'[x] = Snapshot(t) /\ gaveUp'[x] # None
            BY <1>1, <1>2, <2>3, <3>3, <4>3, LastAttemptGivesUp
          <5> QED
            BY <2>2, <2>3, <3>3, <4>1, <5>1 DEF IsRetried
        <4> QED
          BY <4>2, <4>3
      <3> QED
        BY <3>2, <3>3
    <2>4. CASE ~IsRetried(t)
      <3>1. FinishWithoutRetry(t, x) /\ ~DeleteEventPresent(eventingState, x)
        BY <1>1, <1>2, <2>4
           DEF EventProcessingFinished, AcceptsEvents, DeleteMarkIsTransient
      <3>2. CASE EventPresent(eventingState, x)
        <4>1. IsCacheReady(x, result[t])
          <5> SUFFICES ASSUME ~IsCacheReady(x, result[t]) PROVE FALSE
            OBVIOUS
          <5>1. cache[x] = result[t].before /\ result[t].updated # None
            BY DEF IsCacheReady
          <5>2. IsBegun(cache[x])
            BY <1>1, <5>1 DEF UpdatesAreOfBegun
          <5>3. cache[r] # None /\ store[r] # None /\ cache[r] \in States(r)
            BY DEF Known, IsDue, States, NewerThanTasks
          <5>4. Follows(cache[r], store[r])
            BY <5>3, ServerHasTheLatest
          <5> QED
            BY <1>8, <5>2, <5>4
               DEF IsBegun, Known, SameGeneration, IsDue, Follows
        <4>2. SubmitReconciliationExecution(x, UnsetUnderExecution(x),
                  eventingState, ForgetRetry(x))
          BY <3>1, <3>2, <4>1 DEF FinishWithoutRetry, EventPresent
        <4> QED
          BY <1>3, <1>6, <1>8, <4>2
      <3>3. CASE ~EventPresent(eventingState, x)
        <4>1. result[t].exception
          BY <1>1, <2>1, <3>3 DEF Unfinished
        <4>2. GivesUp(t)
          BY <1>2, <2>4, <3>1, <3>3, <4>1 DEF GivesUp, IsRetried
        <4>3. gaveUp'[x] = Snapshot(t)
          BY <1>1, <1>2, <4>2 DEF Finishes, LoopTypeOK
        <4>4. Snapshot(t) # None
          BY <1>1, <1>2, SnapshotType, NoneAssumption DEF VersionsAreResources
        <4>5. underProcessing' = UnsetUnderExecution(x)
          BY <3>1, <3>3 DEF FinishWithoutRetry
        <4> QED
          BY <2>2, <3>3, <4>1, <4>3, <4>4, <4>5
      <3> QED
        BY <3>2, <3>3
    <2> QED
      BY <2>3, <2>4
  <1> QED
    BY <1>7, <1>8

\* Of the sequence of notifications, the oldest is taken.
LEMMA FilterIsComing ==
    ASSUME LoopTypeOK, FilterNotification, NEW r \in Resources, Coming(r)
    PROVE  Coming(r)'
  <1>1. PICK n \in Notification : /\ n = Head(notifications)
                                  /\ n = notifications[1]
                                  /\ 1 \in 1..Len(notifications)
    BY TakenFromQueue DEF FilterNotification, LoopTypeOK, ServerTypeOK
  <1>2. /\ notifications' = Tail(notifications)
        /\ Len(notifications') = Len(notifications) - 1
        /\ Len(notifications) \in Nat
        /\ \A i \in 1..Len(notifications') :
              /\ i + 1 \in 1..Len(notifications)
              /\ notifications'[i] = notifications[i + 1]
    BY TakenFromQueue, LenProperties
       DEF FilterNotification, LoopTypeOK, ServerTypeOK
  <1>3. /\ delivering = None
        /\ UNCHANGED <<watch, cache, store, attendanceVars>>
    BY DEF FilterNotification, taskVars, timerVars, otherThanDelivery,
           historyOfLoop, attendanceVars
  <1>4. delivering' = IF AcceptChange(n.res, n.old, n.new)
                        THEN [res |-> n.res,
                              action |-> IF n.action = "DELETED"
                                           THEN "DELETED" ELSE "OTHER"]
                        ELSE None
    BY <1>1 DEF FilterNotification
  <1>5. IsAttended(r) => IsAttended(r)'
    BY <1>3, AttendedStays DEF SameGeneration
  <1>6. ASSUME NEW j \in Nat, NoDeletionAfter(r, j + 1)
        PROVE  NoDeletionAfter(r, j)'
    <2>1. ASSUME NEW k \in 1..Len(notifications'), k > j,
                 notifications'[k].res = r
          PROVE  notifications'[k].action # "DELETED"
      <3>1. /\ k + 1 \in 1..Len(notifications) /\ k + 1 > j + 1
            /\ notifications'[k] = notifications[k + 1]
        BY <1>2, <2>1
      <3> QED
        BY <1>6, <2>1, <3>1 DEF NoDeletionAfter
    <2> QED
      BY <2>1 DEF NoDeletionAfter
  <1>7. CASE UseFinalizer /\ ~cache[r].fin /\ IsOf(watch, r)
    BY <1>3, <1>7 DEF Coming, IsOf
  <1>8. ASSUME NEW j \in 1..Len(notifications),
               IsAccepted(notifications[j], r), NoDeletionAfter(r, j)
        PROVE  Coming(r)'
    <2>1. CASE j = 1
      <3>1. n.res = r /\ n.action # "DELETED"
            /\ AcceptChange(n.res, n.old, n.new)
        BY <1>1, <1>8, <2>1 DEF IsAccepted, AcceptChange
      <3>2. delivering' = [res |-> r, action |-> "OTHER"]
        BY <1>4, <3>1
      <3>3. delivering' # None
        BY <3>2, NoDeliveryAssumption
      <3>4. NoDeletionAfter(r, 0)'
        BY <1>6, <1>8, <2>1
      <3> QED
        BY <3>2, <3>3, <3>4 DEF Coming, Delivers
    <2>2. CASE j # 1
      <3> DEFINE i == j - 1
      <3>0. Len(notifications') = Len(notifications) - 1 /\ Len(notifications) \in Nat
        BY <1>2
      <3>1. i \in 1..Len(notifications') /\ j = i + 1
        BY <2>2, <3>0
      <3> HIDE DEF i
      <3>2. notifications'[i] = notifications[j] /\ NoDeletionAfter(r, i)'
        BY <1>2, <1>6, <1>8, <3>1
      <3>3. IsAccepted(notifications[i], r)'
        BY <1>8, <3>2 DEF IsAccepted
      <3> QED
        BY <3>1, <3>2, <3>3 DEF Coming
    <2> QED
      BY <2>1, <2>2
  <1>9. CASE NoDeletionAfter(r, 0) /\ (Delivers(r) \/ IsAttended(r))
    <2>1. NoDeletionAfter(r, 0)'
      BY <1>2, <1>9 DEF NoDeletionAfter
    <2>2. IsAttended(r)'
      BY <1>3, <1>5, <1>9 DEF Delivers
    <2>3. Delivers(r)' => delivering'.action # "DELETED"
      <3>1. n.res = r => n.action # "DELETED"
        BY <1>1, <1>9 DEF NoDeletionAfter
      <3> QED
        BY <1>4, <3>1 DEF Delivers
    <2> QED
      BY <2>1, <2>2, <2>3 DEF Coming
  <1> QED
    BY <1>7, <1>8, <1>9 DEF Coming

\* What a step of the dispatcher ends is not due any more, or has asked for
\* the finalizer.
LEMMA DispatchKeepsAttended ==
    ASSUME VersionsAreResources, LoopInv, HistoryInv, NEW t \in Threads,
           Dispatches(t), NEW r \in Resources, IsDue(r)', Known(r),
           IsAttended(r)
    PROVE  IsAttended(r)'
  <1>1. /\ UNCHANGED <<store, cache, queue, active, eventingState,
                       underProcessing, lockHolder, onceTasks, timerThread, gaveUp>>
        /\ Answers(t) /\ LoopTypeOK /\ EPTypeOK /\ Dispatch(t) /\ result[t] = None
    BY DispatchAnswers, DispatcherLeavesProcessor
       DEF Dispatches, Dispatch, OnlyAnswers, serverVars, LoopInv, LoopTypeOK,
           timerVars, SkipsCleanup, AddsFinalizer, Reconciles, IsReconciled,
           CleansUp, IsDispatched
  <1>2. \A s \in Threads \ {t} : result'[s] = result[s]
    BY <1>1 DEF Answers, EPTypeOK
  <1>3. ASSUME active[t] # None, active[t].res = r, result[t] = None,
               Fits(r, active[t].version)
        PROVE  result'[t] = None
    <2>1. PICK v \in CustomResource : v = Snapshot(t) /\ v \in States(r)
      BY <1>3, SnapshotIsState
    <2>2. ~v.del /\ SameGeneration(v, store[r])
      <3>1. SameGeneration(v, store[r]) /\ store[r] # None /\ ~store[r].del
        BY <1>1, <1>3, <2>1 DEF Fits, Snapshot, IsDue
      <3>2. Follows(v, store[r])
        BY <2>1, <3>1, ServerHasTheLatest
      <3> QED
        BY <3>1, <3>2 DEF Follows, SameGeneration
    <2>3. ~Reconciles(t)
      BY <1>1, <2>1, <2>2 DEF Reconciles, IsDue, SameGeneration
    <2>4. AddsFinalizer(t)
      BY <1>1, <2>1, <2>2, <2>3 DEF Dispatch, SkipsCleanup, CleansUp
    <2> QED
      BY <1>3, <2>4 DEF AddsFinalizer, Calls, epVars, taskVars
  <1>4. /\ SameGeneration(store'[r], store[r])
        /\ \A s \in Threads :
              active[s] # None /\ active[s].res = r /\ Unfinished(s)
              /\ Fits(r, active[s].version) =>
                 active'[s] = active[s] /\ Unfinished(s)'
    BY <1>1, <1>2, <1>3 DEF SameGeneration, Unfinished
  <1>5. /\ EventIsKept(r) => EventIsKept(r)'
        /\ HasGivenUp(r) => gaveUp'[r] = gaveUp[r] /\ r \notin underProcessing'
    BY <1>1 DEF EventIsKept, EventPresent, IsProcessedLater, HasGivenUp
  <1> QED
    BY <1>1, <1>4, <1>5, AttendedPasses

\* An answer of the server ends an execution whose generation is due, and that
\* has not failed, only when the finalizer has been added: then the change is on
\* its way.
LEMMA AnswerKeepsComing ==
    ASSUME VersionsAreResources, LoopInv, HistoryInv, CallsAgree, AnswersFit,
           NEW t \in Threads, ApiCallEnds(t),
           NEW r \in Resources, IsDue(r), Known(r), Coming(r),
           SameGeneration(store'[r], store[r])
    PROVE  Coming(r)'
  <1>1. /\ LoopTypeOK /\ ServerTypeOK /\ EPTypeOK /\ ServerAnswers(t)
        /\ call[t] # None /\ active[t] # None /\ result[t] = None
        /\ UNCHANGED <<queue, active, cache, eventingState, underProcessing,
                       lockHolder, onceTasks, timerThread, gaveUp, delivering>>
        /\ lockHolder # t
    BY DispatcherLeavesProcessor, NoneAssumption
       DEF LoopInv, LoopTypeOK, CallOfTask, ApiCallEnds, ServerAnswers,
           OnlyAnswers, timerVars, historyOfLoop, TasksInv, Tasks,
           PostponedUnmarked
  <1>2. /\ notifications' = notifications
        /\ IsOf(watch, r) => IsOf(watch', r)
    <2>1. ASSUME NEW d, EvolvesBy(d)
          PROVE  /\ notifications' = notifications
                 /\ IsOf(watch, r) => IsOf(watch', r)
      BY <1>1, <2>1, QueueKeeps DEF EvolvesBy, Changed, ServerTypeOK
    <2> QED
      BY <1>1, <2>1, ServerEvolves DEF serverVars
  <1>3. CASE IsAttended(r) => IsAttended(r)'
    BY <1>1, <1>2, <1>3, ComingPasses DEF IsOf
  <1>4. CASE IsAttended(r) /\ ~IsAttended(r)'
    <2>1. \A s \in Threads \ {t} : result'[s] = result[s]
      BY <1>1, AnswersOfTheServer DEF Answers, Updates, EPTypeOK
    <2>2. active[t].res = r /\ Fits(r, active[t].version) /\ ~Unfinished(t)'
      <3> SUFFICES ASSUME ~(/\ active[t].res = r /\ Fits(r, active[t].version)
                            /\ ~Unfinished(t)')
                   PROVE  IsAttended(r)'
        BY <1>4
      <3>1. \A s \in Threads :
               active[s] # None /\ active[s].res = r /\ Unfinished(s)
               /\ Fits(r, active[s].version) =>
                  active'[s] = active[s] /\ Unfinished(s)'
        BY <1>1, <2>1 DEF Unfinished
      <3>2. /\ EventIsKept(r) => EventIsKept(r)'
            /\ HasGivenUp(r) => gaveUp'[r] = gaveUp[r] /\ r \notin underProcessing'
        BY <1>1 DEF EventIsKept, EventPresent, IsProcessedLater, HasGivenUp
      <3> QED
        BY <1>1, <1>4, <3>1, <3>2, AttendedPasses
    <2>3. PICK c \in ApiCall : c = call[t]
      BY <1>1 DEF LoopTypeOK, DispatcherTypeOK
    <2>4. PICK o \in CustomResource : o = c.obj
      BY DEF ApiCall
    <2>5. PICK v \in CustomResource : v = active[t].version /\ v \in States(r)
      BY <1>1, <2>2, SnapshotIsState DEF Snapshot
    <2>6. PICK s \in CustomResource : s = store[r]
      BY <1>1 DEF IsDue, ServerTypeOK
    <2>7. /\ ~s.del /\ <<s.uid, s.gen>> \notin sinceStart
          /\ v.uid = s.uid /\ v.gen = s.gen
      BY <2>2, <2>5, <2>6 DEF IsDue, Fits, SameGeneration
    <2>8. MayAskFor(c.op, o, v)
      BY <1>1, <2>2, <2>3, <2>4, <2>5 DEF CallsAgree, CallAgrees
    <2>9. ~v.del
      BY <2>5, <2>6, <2>7, ServerHasTheLatest DEF IsDue, Follows
    <2>10. /\ c.op = "addFinalizer"
           /\ UseFinalizer /\ ~v.fin /\ o = [v EXCEPT !.fin = TRUE]
      BY <2>7, <2>8, <2>9 DEF MayAskFor
    <2>11. cache[r] = v /\ o.rv = v.rv /\ o.fin /\ o.ann = v.ann
      BY <2>2, <2>5, <2>10 DEF Fits, CustomResource
    <2>12. ~CallThrows(t)
      <3> SUFFICES ASSUME CallThrows(t) PROVE Unfinished(t)'
        BY <2>2
      <3>1. result' = [result EXCEPT ![t] = ExceptionDuringExecution(t)]
        BY <2>3, <2>10 DEF CallThrows, Returns, HandleExecution
      <3>2. ExceptionDuringExecution(t).exception
        BY DEF ExceptionDuringExecution, DefaultDispatch, DispatchedWithReschedule
      <3> QED
        BY <1>1, <3>1, <3>2 DEF Unfinished, EPTypeOK
    <2>13. IsOf(watch', r)
      <3>1. ~CallRefused(t)
        BY <2>12 DEF CallRefused
      <3>2. CASE CallExecuted(t)
        <4>1. PICK new : new = PutResource(r, o)
          OBVIOUS
        <4>2. IsCurrent(r, o) /\ Write(r, new)
          BY <2>2, <2>3, <2>4, <2>10, <3>2, <4>1 DEF CallExecuted
        <4>3. new # s
          <5>1. s = v
            BY <1>1, <2>2, <2>5, <2>6, <2>11, <4>2, SameVersionIsSame
               DEF IsCurrent, IsDue, Snapshot
          <5> QED
            BY <2>6, <2>10, <2>11, <4>1, <5>1 DEF PutResource, CustomResource
        <4>4. new \in CustomResource
          BY <2>4, <2>6, <4>1 DEF PutResource, CustomResource
        <4>5. PICK d : Changed(d) /\ d.res = r
          BY <1>1, <2>6, <4>2, <4>3, <4>4, CommitChanges DEF Write
        <4> QED
          BY <1>1, <4>5, QueueKeeps DEF Changed, ServerTypeOK
      <3> QED
        BY <1>1, <3>1, <3>2 DEF ServerAnswers
    <2> QED
      BY <1>1, <2>10, <2>11, <2>13 DEF Coming, IsOf
  <1> QED
    BY <1>3, <1>4

\* What the informer stores and the filters reject leaves the generation as it
\* was in the store.
LEMMA RejectedIsKnown ==
    ASSUME VersionsAreResources, NewGenerationsAreEvents, LoopInv, HistoryInv,
           ObjectsAreWellFormed, FinalizerComesLast, ObservedStays,
           NEW c \in Change, c = watch[1], 1 \in 1..Len(watch), ~c.gone,
           NEW r \in Resources, r = c.res, IsDue(r),
           SameGeneration(c.obj, store[r]), ~OtherFiltersAccept(cache[r], c.obj)
    PROVE  Known(r) /\ UseFinalizer /\ cache[r].fin
  <1>1. PICK new \in CustomResource : new = c.obj /\ new \in States(r)
    BY DEF Change, States, NewerThanTasks, NewerThanCache, Pending
  <1>2. new.obs <= new.gen /\ (ObservedGenerationAware => new.obs # new.gen)
    BY <1>1 DEF ObjectsAreWellFormed, WellFormed, ObservedStays, IsDue,
                SameGeneration
  <1>3. ObservedGenerationAware => new.gen > new.obs
    BY <1>2 DEF CustomResource
  <1>4. UseFinalizer
    BY <1>1, <1>3, FilterAssumption
       DEF NewGenerationsAreEvents, OtherFiltersAccept, EventFilterAccepts,
           GenerationAwareAccepts
  <1>5. cache[r] # None /\ new.fin /\ cache[r].fin
    BY <1>1, <1>3, <1>4
       DEF OtherFiltersAccept, FinalizerNeededAndApplied, EventFilterAccepts,
           GenerationAwareAccepts
  <1>6. PICK old \in CustomResource : old = cache[r] /\ old \in States(r)
    BY <1>5, StatesAreTyped DEF States, NewerThanTasks, LoopInv
  <1>7. Follows(old, new)
    BY <1>1, <1>5, <1>6 DEF HistoryInv, InOrder, CacheFollowed, NewerThanCache,
                            Pending
  <1>8. old.uid = new.uid
    BY <1>1, <1>5, <1>6, <1>7 DEF Follows, FinalizerComesLast, CustomResource
  <1>9. old.gen = new.gen
    <2>1. ~(old.gen < new.gen)
      BY <1>1, <1>3, <1>6
         DEF OtherFiltersAccept, EventFilterAccepts, GenerationAwareAccepts,
             CustomResource
    <2> QED
      BY <1>7, <1>8, <2>1 DEF Follows, CustomResource
  <1> QED
    BY <1>1, <1>4, <1>5, <1>6, <1>8, <1>9 DEF Known, SameGeneration

\* A change that the informer stores is accepted, or changes nothing of this.
LEMMA InformerStoresIsComing ==
    ASSUME VersionsAreResources, NewGenerationsAreEvents, LoopInv, HistoryInv,
           ObjectsAreWellFormed, FinalizerComesLast, ObservedStays, DueIsComing,
           InformerStores, NEW r \in Resources, IsDue(r)', Known(r)'
    PROVE  Coming(r)'
  <1>1. LoopTypeOK /\ ServerTypeOK /\ EPTypeOK
    BY DEF LoopInv, LoopTypeOK
  <1>2. PICK c \in Change :
           /\ c = watch[1] /\ c = Head(watch) /\ 1 \in 1..Len(watch)
           /\ cache'[c.res] = Leaves(c)
           /\ notifications' = Append(notifications, NoteOf(c))
           /\ NoteOf(c).res = c.res /\ NoteOf(c).new = c.obj
           /\ NoteOf(c).old = IF c.gone THEN None ELSE cache[c.res]
           /\ NoteOf(c).action = "DELETED" <=> c.gone
    BY <1>1, InformerNotifies
  <1>3. /\ Len(notifications) \in Nat
        /\ Len(notifications') = Len(notifications) + 1
        /\ \A i \in 1..Len(notifications) : notifications'[i] = notifications[i]
        /\ notifications'[Len(notifications) + 1] = NoteOf(c)
    <2>1. /\ notifications \in Seq(Notification \cup {NoteOf(c)})
          /\ NoteOf(c) \in Notification \cup {NoteOf(c)}
      BY <1>1, SeqMonotonic DEF ServerTypeOK
    <2> QED
      BY <1>2, <2>1, AppendProperties, LenProperties
  <1>4. /\ UNCHANGED <<store, sinceStart, delivering, attendanceVars>>
        /\ watch # <<>> /\ watch' = Tail(watch)
        /\ r # c.res => cache'[r] = cache[r]
    BY <1>1, <1>2 DEF InformerStores, taskVars, otherThanDelivery, timerVars,
                      historyOfLoop, dispatcherVars, historyVars, EPTypeOK,
                      attendanceVars
  <1>5. IsDue(r) /\ SameGeneration(store'[r], store[r])
    BY <1>4 DEF IsDue, SameGeneration
  <1>6. ASSUME c.res = r => ~c.gone, NEW j \in Nat, NoDeletionAfter(r, j)
        PROVE  NoDeletionAfter(r, j)'
    <2>1. ASSUME NEW k \in 1..Len(notifications'), k > j,
                 notifications'[k].res = r
          PROVE  notifications'[k].action # "DELETED"
      <3>1. CASE k = Len(notifications) + 1
        BY <1>2, <1>3, <1>6, <2>1, <3>1
      <3>2. CASE k \in 1..Len(notifications)
        BY <1>3, <1>6, <2>1, <3>2 DEF NoDeletionAfter
      <3> QED
        BY <1>3, <3>1, <3>2
    <2> QED
      BY <2>1 DEF NoDeletionAfter
  <1>7. ASSUME c.res = r => ~c.gone, Coming(r),
               UseFinalizer /\ ~cache[r].fin /\ IsOf(watch, r) =>
                  ~cache'[r].fin /\ IsOf(watch', r),
               IsAttended(r) => IsAttended(r)'
        PROVE  Coming(r)'
    <2>1. CASE UseFinalizer /\ ~cache[r].fin /\ IsOf(watch, r)
      BY <1>7, <2>1 DEF Coming, IsOf
    <2>2. ASSUME NEW j \in 1..Len(notifications),
                 IsAccepted(notifications[j], r), NoDeletionAfter(r, j)
          PROVE  Coming(r)'
      <3>1. j \in 1..Len(notifications') /\ notifications'[j] = notifications[j]
        BY <1>3
      <3>2. NoDeletionAfter(r, j)'
        BY <1>3, <1>6, <1>7, <2>2
      <3>3. IsAccepted(notifications[j], r)'
        BY <2>2, <3>1 DEF IsAccepted
      <3> QED
        BY <3>1, <3>2, <3>3 DEF Coming
    <2>3. CASE /\ NoDeletionAfter(r, 0)
               /\ Delivers(r) => delivering.action # "DELETED"
               /\ Delivers(r) \/ IsAttended(r)
      <3>1. NoDeletionAfter(r, 0)'
        BY <1>6, <1>7, <2>3
      <3> QED
        BY <1>4, <1>7, <2>3, <3>1 DEF Coming, Delivers
    <2> QED
      BY <1>7, <2>1, <2>2, <2>3 DEF Coming
  <1>8. CASE c.res # r
    <2>1. IsOf(watch, r) => IsOf(watch', r)
      BY <1>1, <1>2, <1>4, <1>8, QueueKeeps DEF ServerTypeOK
    <2>2. IsAttended(r) => IsAttended(r)'
      BY <1>4, <1>5, <1>8, AttendedStays
    <2>3. Coming(r)
      BY <1>4, <1>5, <1>8 DEF DueIsComing, Known
    <2> QED
      BY <1>4, <1>7, <1>8, <2>1, <2>2, <2>3
  <1>9. CASE c.res = r
    <2>1. ~c.gone /\ cache'[r] = c.obj /\ SameGeneration(c.obj, store[r])
      BY <1>2, <1>4, <1>9 DEF Known, Leaves
    <2>2. CASE OtherFiltersAccept(cache[r], c.obj)
      <3>1. PICK m \in Nat : m = Len(notifications')
        BY <1>3
      <3>2. m \in 1..Len(notifications') /\ notifications'[m] = NoteOf(c)
        BY <1>3, <3>1
      <3>3. IsAccepted(notifications[m], r)'
        BY <1>2, <1>9, <2>1, <2>2, <3>2 DEF IsAccepted
      <3>4. NoDeletionAfter(r, m)'
        BY <3>1 DEF NoDeletionAfter
      <3> QED
        BY <3>2, <3>3, <3>4 DEF Coming
    <2>3. CASE ~OtherFiltersAccept(cache[r], c.obj)
      <3>1. Known(r) /\ cache[r].fin
        BY <1>2, <1>5, <1>9, <2>1, <2>3, RejectedIsKnown
      <3>2. IsAttended(r) => IsAttended(r)'
        BY <1>4, <1>5, <3>1, AttendedStays
      <3>3. Coming(r)
        BY <1>5, <3>1 DEF DueIsComing
      <3> QED
        BY <1>7, <2>1, <3>1, <3>2, <3>3
    <2> QED
      BY <2>2, <2>3
  <1> QED
    BY <1>8, <1>9

\* The oldest task goes to the thread.
LEMMA StartKeepsAttended ==
    ASSUME LoopInv, NEW t \in Threads, Starts(t), NEW r \in Resources,
           IsAttended(r)
    PROVE  IsAttended(r)'
  <1>1. /\ TasksInv /\ EPTypeOK /\ active[t] = None /\ result[t] = None
        /\ StartExecution(t) /\ 1 \in 1..Len(queue) /\ queue[1] = Head(queue)
        /\ UNCHANGED <<store, result, cache, lockHolder, eventingState,
                       underProcessing, onceTasks, timerThread>>
        /\ active' = [active EXCEPT ![t] = queue[1]]
        /\ \A i \in 1..Len(queue) : i # 1 =>
              i - 1 \in 1..Len(queue') /\ queue'[i - 1] = queue[i]
    BY TakenFromQueue, LenProperties
       DEF Starts, StartExecution, LoopInv, TasksInv, Tasks, ResultOfTask,
           EPTypeOK, serverVars, timerVars
  <1>2. /\ active'[t] = queue[1]
        /\ \A s \in Threads : s # t => active'[s] = active[s]
    BY <1>1 DEF EPTypeOK
  <1>3. \A v : Fits(r, v) => Fits(r, v)'
    BY <1>1 DEF Fits
  <1>4. ASSUME NEW i \in 1..Len(queue), queue[i].res = r,
               Fits(r, queue[i].version)
        PROVE  IsGiven(r)'
    <2>1. CASE i = 1
      <3>1. queue[1] # None
        <4>1. queue[1] \in ExecutionScope
          BY <1>1, TakenFromQueue DEF EPTypeOK, StartExecution
        <4> QED
          BY <4>1, NoTaskAssumption
      <3>2. Fits(r, active[t].version)'
        BY <1>1, <1>2, <1>4, <2>1 DEF Fits
      <3>3. Unfinished(t)'
        BY <1>1 DEF Unfinished
      <3> QED
        BY <1>1, <1>2, <1>4, <2>1, <3>1, <3>2, <3>3 DEF IsGiven
    <2>2. CASE i # 1
      <3>1. i - 1 \in 1..Len(queue') /\ queue'[i - 1] = queue[i]
        BY <1>1, <2>2
      <3>2. Fits(r, queue[i - 1].version)'
        BY <1>1, <1>4, <3>1 DEF Fits
      <3> QED
        BY <1>4, <3>1, <3>2 DEF IsGiven
    <2> QED
      BY <2>1, <2>2
  <1>5. ASSUME NEW s \in Threads, active[s] # None, active[s].res = r,
               Unfinished(s), Fits(r, active[s].version)
        PROVE  IsGiven(r)'
    <2>1. active'[s] = active[s] /\ Unfinished(s)'
      BY <1>1, <1>2, <1>5 DEF Unfinished
    <2>2. Fits(r, active[s].version)'
      BY <1>1, <1>5, <2>1 DEF Fits
    <2> QED
      BY <1>5, <2>1, <2>2 DEF IsGiven
  <1>6. EventIsKept(r) => EventIsKept(r)'
    BY <1>1 DEF EventIsKept, EventPresent, IsProcessedLater
  <1>7. HasGivenUp(r) => HasGivenUp(r)'
    <2>1. Head(queue).res \in underProcessing
      BY <1>1 DEF TasksInv, Tasks, QueueMarked
    <2>2. r # Head(queue).res => gaveUp'[r] = gaveUp[r]
      BY DEF Starts, LoopInv, LoopTypeOK
    <2> QED
      BY <1>1, <2>1, <2>2 DEF HasGivenUp, GaveUpOn
  <1> QED
    BY <1>4, <1>5, <1>6, <1>7 DEF IsAttended, IsGiven

\* An event is delivered to the processor.
LEMMA DeliveryIsComing ==
    ASSUME LoopTypeOK, running, DeleteMarkIsTransient, DeliverEvent,
           NEW r \in Resources, Known(r), Coming(r)
    PROVE  Coming(r)'
  <1>1. PICK x \in Resources, action \in {"DELETED", "OTHER"} :
           /\ delivering # None /\ x = delivering.res
           /\ action = delivering.action /\ HandleEvent(x, action)
    BY DEF DeliverEvent, EventReceived, LoopTypeOK
  <1>2. /\ EPTypeOK /\ delivering' = None
        /\ UNCHANGED <<store, watch, notifications, cache, gaveUp, timerThread>>
    BY <1>1 DEF LoopTypeOK, DeliverEvent, EventReceived, serverVars, HandleEvent,
                otherThanDelivery, historyOfLoop
  <1>3. CASE UseFinalizer /\ ~cache[r].fin /\ IsOf(watch, r)
    BY <1>2, <1>3 DEF Coming, IsOf
  <1>4. CASE \E j \in 1..Len(notifications) :
                IsAccepted(notifications[j], r) /\ NoDeletionAfter(r, j)
    BY <1>2, <1>4 DEF Coming, IsAccepted, NoDeletionAfter
  <1>5. CASE /\ NoDeletionAfter(r, 0)
             /\ Delivers(r) => delivering.action # "DELETED"
             /\ Delivers(r) \/ IsAttended(r)
    <2>1. IsAttended(r)'
      <3>1. CASE r = x
        BY <1>1, <1>2, <1>5, <3>1, HandleEventAttends DEF Delivers
      <3>2. CASE r # x
        BY <1>1, <1>2, <1>5, <3>2, HandleEventKeepsAttended DEF Delivers
      <3> QED
        BY <3>1, <3>2
    <2>2. NoDeletionAfter(r, 0)' /\ ~Delivers(r)'
      BY <1>2, <1>5 DEF NoDeletionAfter, Delivers
    <2> QED
      BY <2>1, <2>2 DEF Coming
  <1> QED
    BY <1>3, <1>4, <1>5 DEF Coming

\* A due generation in the informer's store stays on its way.
LEMMA DueStaysComing ==
    ASSUME VersionsAreResources, NewGenerationsAreEvents, TimerFirst, ObjectInv,
           ComingInv, [LoopNext]_vars
    PROVE  DueIsComing'
  <1>1. /\ LoopInv /\ HistoryInv /\ CallsAgree /\ ObjectsAreWellFormed
        /\ CacheCatchesUp /\ TimerIsReady /\ running /\ AnswersFit /\ Informed
        /\ LoopTypeOK /\ ServerTypeOK /\ EPTypeOK /\ TasksInv
        /\ DeleteMarkIsTransient /\ FinalizerComesLast /\ ObservedStays
        /\ UpdatesAreOfBegun /\ DueIsComing
    BY DEF ObjectInv, EventInv, ComingInv, LoopInv, LoopTypeOK, TimerIsReady
  <1> SUFFICES ASSUME NEW r \in Resources, IsDue(r)', Known(r)'
               PROVE  Coming(r)'
    BY DEF DueIsComing
  <1>2. CASE OperatorRestarts
    BY <1>2 DEF OperatorRestarts, Known
  <1>3. CASE InformerStores
    BY <1>1, <1>3, InformerStoresIsComing
  <1>4. CASE ~OperatorRestarts /\ ~InformerStores
    <2>1. cache' = cache
      BY <1>1, <1>4, CacheOfTheLoop
    <2>2. /\ IsDue(r) /\ Known(r) /\ Coming(r)
          /\ SameGeneration(store'[r], store[r])
      BY <1>1, <1>4, <2>1, DueWasDue DEF DueIsComing
    <2>3. ASSUME UNCHANGED attendanceVars
          PROVE  IsAttended(r) => IsAttended(r)'
      BY <2>1, <2>2, <2>3, AttendedStays
    <2>4. ASSUME IsAttended(r) => IsAttended(r)',
                 UNCHANGED <<watch, notifications, delivering>>
          PROVE  Coming(r)'
      BY <2>1, <2>2, <2>4, ComingPasses DEF IsOf
    <2>5. ASSUME NEW x \in Resources, NEW action, action # "DELETED",
                 HandleEvent(x, action), UNCHANGED <<store, gaveUp>>,
                 x # r /\ timerThread = r => timerThread' = r
          PROVE  IsAttended(r) => IsAttended(r)'
      BY <1>1, <2>2, <2>5, HandleEventAttends, HandleEventKeepsAttended
    <2>6. CASE Users
      <3>1. PICK d : Changed(d)
        BY <1>1, <2>6, UsersChange DEF Users
      <3>2. /\ UNCHANGED <<attendanceVars, delivering, notifications>>
            /\ IsOf(watch, r) => IsOf(watch', r)
        BY <1>1, <2>6, <3>1, QueueKeeps
           DEF Users, Changed, ServerTypeOK, epVars, taskVars, timerVars,
               otherThanDelivery, historyOfLoop, attendanceVars
      <3> QED
        BY <2>1, <2>2, <2>3, <3>2, ComingPasses DEF IsOf
    <2>7. CASE InformerLists
      <3>1. UNCHANGED <<attendanceVars, delivering, notifications>>
        BY <2>7 DEF InformerLists, InformerRelists, ControllerSourceStarts,
                    epVars, taskVars, timerVars, historyOfLoop, attendanceVars
      <3>2. IsOf(watch, r) => IsOf(watch', r)
        BY <1>1, <2>2, <2>7, RelistKeepsOne DEF Known
      <3> QED
        BY <2>1, <2>2, <2>3, <3>1, <3>2, ComingPasses DEF IsOf
    <2>8. CASE FilterNotification
      BY <1>1, <2>2, <2>8, FilterIsComing
    <2>9. CASE DeliverEvent
      BY <1>1, <2>2, <2>9, DeliveryIsComing
    <2>10. CASE \/ SecondaryUser \/ SecondaryStores \/ SecondaryPropagates
                \/ TimerStarts \/ UNCHANGED vars
      <3>1. UNCHANGED <<attendanceVars, watch, notifications, delivering>>
        BY <2>10
           DEF SecondaryUser, SecondaryStores, SecondaryPropagates, TimerStarts,
               StartTimer, otherThanTimer, otherThanInformer,
               otherThanProcessor, otherThanDelivery, historyOfLoop, serverVars,
               taskVars, timerVars, epVars, vars, attendanceVars
      <3> QED
        BY <2>3, <2>4, <3>1
    <2>11. CASE SecondaryEvent
      <3>1. UNCHANGED <<store, watch, notifications, delivering, gaveUp>>
        BY <2>11 DEF SecondaryEvent, serverVars, historyOfLoop
      <3>2. CASE UNCHANGED epVars
        <4>1. UNCHANGED attendanceVars
          BY <3>1, <3>2 DEF epVars, taskVars, timerVars, attendanceVars
        <4> QED
          BY <2>3, <2>4, <3>1, <4>1
      <3> QED
        BY <2>4, <2>5, <2>11, <3>1, <3>2 DEF SecondaryEvent, EventReceived
    <2>12. ASSUME NEW x \in Resources, TimerDelivers(x)
           PROVE  Coming(r)'
      <3>1. /\ HandleEvent(x, "TIMER") /\ timerThread = x
            /\ UNCHANGED <<store, watch, notifications, delivering, gaveUp>>
        BY <2>12 DEF TimerDelivers, TimerEventReceived, otherThanProcessor,
                     serverVars, otherThanDelivery, historyOfLoop
      <3> QED
        BY <2>4, <2>5, <3>1
    <2>13. ASSUME NEW x \in Resources, TimerRuns(x)
           PROVE  Coming(r)'
      <3>1. /\ UNCHANGED <<queue, active, result, lockHolder, eventingState,
                           underProcessing, watch, notifications, delivering,
                           gaveUp>>
            /\ timerThread = None /\ timerThread' = x
            /\ onceTasks' = onceTasks \ {x}
        BY <2>13 DEF TimerRuns, TimerFires, FireTimer, otherThanTimer, taskVars,
                     otherThanProcessor, serverVars, otherThanDelivery,
                     historyOfLoop
      <3>2. /\ EventIsKept(r) => EventIsKept(r)'
            /\ HasGivenUp(r) => gaveUp'[r] = gaveUp[r] /\ r \notin underProcessing'
            /\ \A s \in Threads : Unfinished(s) => Unfinished(s)'
        BY <3>1, ResourceIDAssumption
           DEF EventIsKept, EventPresent, IsProcessedLater, HasGivenUp, Unfinished
      <3>3. IsAttended(r) => IsAttended(r)'
        BY <2>1, <2>2, <3>1, <3>2, AttendedPasses
      <3> QED
        BY <2>4, <3>1, <3>3
    <2>14. ASSUME NEW t \in Threads, Starts(t) \/ Finishes(t) \/ Postpones(t)
           PROVE  Coming(r)'
      <3>1. UNCHANGED <<store, watch, notifications, delivering>>
        BY <2>14 DEF Starts, Finishes, Postpones, otherThanProcessor, serverVars
      <3>2. CASE Starts(t)
        BY <1>1, <2>4, <3>1, <3>2, StartKeepsAttended
      <3>3. CASE Finishes(t)
        BY <1>1, <2>2, <2>4, <3>1, <3>3, FinishKeepsAttended
      <3>4. CASE Postpones(t)
        <4>1. /\ result[t] # None /\ ThreadDone(t)
              /\ lockHolder = t /\ lockHolder' = None
              /\ UNCHANGED <<queue, eventingState, underProcessing, onceTasks,
                             timerThread, gaveUp>>
          BY <1>1, <3>4, NoneAssumption
             DEF Postpones, PostponeReconciliation, TasksInv, Tasks,
                 PostponedUnmarked, timerVars, otherThanProcessor,
                 otherThanDelivery, historyOfLoop
        <4>2. \A s \in Threads : Unfinished(s) =>
                  active'[s] = active[s] /\ Unfinished(s)'
          BY <1>1, <4>1, NoneAssumption DEF ThreadDone, EPTypeOK, Unfinished
        <4>3. /\ EventIsKept(r) => EventIsKept(r)'
              /\ HasGivenUp(r) =>
                    gaveUp'[r] = gaveUp[r] /\ r \notin underProcessing'
          BY <4>1 DEF EventIsKept, EventPresent, IsProcessedLater, HasGivenUp
        <4>4. IsAttended(r) => IsAttended(r)'
          BY <2>1, <2>2, <4>1, <4>2, <4>3, AttendedPasses
        <4> QED
          BY <2>4, <3>1, <4>4
      <3> QED
        BY <2>14, <3>2, <3>3, <3>4
    <2>15. ASSUME NEW t \in Threads, Dispatches(t)
           PROVE  Coming(r)'
      <3>1. UNCHANGED <<watch, notifications, delivering>>
        BY <2>15 DEF Dispatches, Dispatch, serverVars
      <3>2. IsAttended(r) => IsAttended(r)'
        BY <1>1, <2>2, <2>15, DispatchKeepsAttended
      <3> QED
        BY <2>4, <3>1, <3>2
    <2>16. ASSUME NEW t \in Threads, ApiCallEnds(t)
           PROVE  Coming(r)'
      BY <1>1, <2>2, <2>16, AnswerKeepsComing
    <2> QED
      BY <1>4, <2>6, <2>7, <2>8, <2>9, <2>10, <2>11, <2>12, <2>14, <2>15, <2>16,
         <2>13 DEF LoopNext, InformerLists
  <1> QED
    BY <1>2, <1>3, <1>4

LEMMA InitialComing == LoopInit => ComingInv
  <1> SUFFICES ASSUME LoopInit PROVE ComingInv
    OBVIOUS
  <1>1. /\ \A r \in Resources : /\ store[r] = None /\ cache[r] = None
                                /\ eventingState[r] = "NO_EVENT_PRESENT"
        /\ watch = <<>> /\ queue = <<>>
        /\ \A t \in Threads : active[t] = None /\ call[t] = None /\ result[t] = None
    BY DEF LoopInit, EPInit, ServerInit, DispatcherInit
  <1>2. \A r \in Resources : States(r) = {}
    BY <1>1 DEF States, TaskVersions, NewerThanTasks, NewerThanCache, Pending
  <1> QED
    BY <1>1, <1>2
       DEF ComingInv, DeleteMarkIsTransient, DeleteEventPresent,
           FinalizerComesLast, ObservedStays, UpdatesAreOfBegun, DueIsComing, Known

LEMMA NextKeepsComing ==
    ASSUME VersionsAreResources, NewGenerationsAreEvents, TimerFirst, ObjectInv,
           ComingInv, [LoopNext]_vars
    PROVE  ComingInv'
  BY DueStaysComing, DeleteMarksStayTransient, FinalizerStaysLast,
     ObservedGenerationStays, UpdatesStayOfBegun
     DEF ComingInv, ObjectInv, EventInv

\* A generation that is to be reconciled is on its way to the reconciler.
LEMMA ComingIsNotForgotten ==
    ASSUME LoopTypeOK, CacheCatchesUp, DueIsComing
    PROVE  NoGenerationIsForgotten
  <1> SUFFICES ASSUME NEW r \in Resources, IsDue(r), ~ChangeIsUnderWay(r)
               PROVE  \/ \E i \in 1..Len(queue) :
                            /\ queue[i].res = r
                            /\ SameGeneration(queue[i].version, store[r])
                      \/ \E t \in Threads :
                            /\ active[t] # None /\ active[t].res = r
                            /\ result[t] = None \/ result[t].exception
                            /\ SameGeneration(active[t].version, store[r])
                      \/ /\ EventPresent(eventingState, r)
                         /\ \/ r \in underProcessing \/ r \in onceTasks
                            \/ timerThread = r
                      \/ GaveUpOn(r)
    BY LenProperties DEF NoGenerationIsForgotten, LoopTypeOK, EPTypeOK
  <1>1. /\ ~IsOf(watch, r) /\ ~IsOf(notifications, r) /\ ~Delivers(r)
    BY InDomain DEF ChangeIsUnderWay, LoopTypeOK, ServerTypeOK, Delivers
  <1>2. cache[r] = store[r]
    BY <1>1 DEF CacheCatchesUp, CatchesUp, LastChange, IsOf
  <1>3. Known(r)
    BY <1>2 DEF Known, IsDue, SameGeneration
  <1>4. IsAttended(r)
    BY <1>1, <1>3 DEF DueIsComing, Coming, IsAccepted, IsOf
  <1> QED
    BY <1>4 DEF IsAttended, IsGiven, Unfinished, Fits, EventIsKept,
                IsProcessedLater, HasGivenUp

\* With a finalizer, and without one if every change is accepted whose
\* generation is not observed, no generation is forgotten before the last
\* attempt to reconcile it has failed: neither by the filters, nor when the
\* addition of the finalizer is refused, fails, is executed without an answer or
\* only seen later, nor when an event comes during an execution, nor when the
\* informer lists anew or the operator crashes.  (Otherwise a deletion and a
\* creation that are merged into one update may be rejected.)  The timer has to
\* be started before the informer, as otherwise the first retry may be dropped.
THEOREM NoneIsForgotten ==
    VersionsAreResources /\ NewGenerationsAreEvents /\ TimerFirst /\ LoopSpec
        => []NoGenerationIsForgotten
  <1> SUFFICES ASSUME VersionsAreResources, NewGenerationsAreEvents, TimerFirst
               PROVE  LoopSpec => []NoGenerationIsForgotten
    OBVIOUS
  <1>1. LoopInit => ObjectInv /\ ComingInv
    BY InitialObjects, InitialComing
  <1>2. ObjectInv /\ ComingInv /\ [LoopNext]_vars => (ObjectInv /\ ComingInv)'
    BY NextKeepsObjects, NextKeepsComing
  <1>3. ObjectInv /\ ComingInv => NoGenerationIsForgotten
    BY ComingIsNotForgotten DEF ObjectInv, EventInv, LoopInv, ComingInv
  <1> QED
    BY <1>1, <1>2, <1>3, PTL DEF LoopSpec
===============================================================================
