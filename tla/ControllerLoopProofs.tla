------------------------- MODULE ControllerLoopProofs -------------------------
(***************************************************************************)
(* The types of the control loop, and that the processor inside it is the  *)
(* one that EventProcessor specifies: a step of the loop is a step of the  *)
(* processor, leaves it as it is, or starts it anew.  So what is proved of *)
(* the processor holds in the loop, also when the operator crashes.        *)
(*                                                                         *)
(* The versions of a resource, of which EventProcessor assumes nothing,    *)
(* are the custom resources themselves.                                    *)
(***************************************************************************)
EXTENDS ControllerLoop, EventProcessorProofs, FiniteSetTheorems

VersionsAreResources == Versions = CustomResource

\* A thread waits for the API server only while it executes.
CallOfTask ==
    \A t \in Threads : call[t] # None => active[t] # None /\ result[t] = None

\* The inductive invariant.
LoopInv == LoopTypeOK /\ TasksInv /\ CallOfTask

ApiCalls == [Threads -> ApiCall \cup {None}]
-------------------------------------------------------------------------------
(***************************************************************************)
(* The dispatcher.                                                         *)
(***************************************************************************)
\* What a thread executes is a custom resource.
LEMMA SnapshotType ==
    ASSUME VersionsAreResources, EPTypeOK, NEW t \in Threads, active[t] # None
    PROVE  Snapshot(t) \in CustomResource /\ active[t].res \in Resources
  BY DEF VersionsAreResources, EPTypeOK, ExecutionScope, Snapshot

\* The answers of handleExecution have the type of a PostExecutionControl.
LEMMA AnswersAreTyped ==
    ASSUME VersionsAreResources, EPTypeOK, NEW t \in Threads, active[t] # None,
           NEW reschedule \in BOOLEAN
    PROVE  \A p \in {DispatchedWithReschedule(t, reschedule),
                     DefaultDispatch(t), ExceptionDuringExecution(t)} :
              p \in PostExecutionControl /\ p.before = active[t].version
  <1>1. Snapshot(t) \in Versions
    BY SnapshotType DEF VersionsAreResources
  <1> DEFINE Answer == [exception : BOOLEAN, updated : Versions \cup {None},
                        reschedule : BOOLEAN, before : Versions]
  <1>2. \A p \in Answer : (p.exception => p.updated = None /\ ~p.reschedule)
                             => p \in PostExecutionControl
    BY DEF PostExecutionControl
  <1>3. ASSUME NEW p, p \in {DispatchedWithReschedule(t, reschedule),
                             DefaultDispatch(t)}
        PROVE  p \in PostExecutionControl /\ p.before = Snapshot(t)
    <2>1. PICK d \in BOOLEAN : p = [exception |-> FALSE, updated |-> None,
                                   reschedule |-> d, before |-> Snapshot(t)]
      BY <1>3 DEF DefaultDispatch, DispatchedWithReschedule
    <2>2. p \in Answer /\ ~p.exception /\ p.before = Snapshot(t)
      BY <1>1, <2>1
    <2> HIDE DEF Answer
    <2> QED
      BY <1>2, <2>2
  <1>4. ASSUME NEW p, p = ExceptionDuringExecution(t)
        PROVE  p \in PostExecutionControl /\ p.before = Snapshot(t)
    <2>1. /\ p \in Answer /\ p.before = Snapshot(t)
          /\ p.updated = None /\ p.reschedule = FALSE
      BY <1>1, <1>4 DEF ExceptionDuringExecution, DefaultDispatch,
                        DispatchedWithReschedule
    <2> HIDE DEF Answer
    <2> QED
      BY <1>2, <2>1
  <1> QED
    BY <1>3, <1>4 DEF Snapshot

\* What a step of the dispatcher on thread t comes to for the processor, and
\* that the call it waits for has its type.
TypedDispatch(t) ==
    /\ ProcessorStep(t) \/ UNCHANGED epVars
    /\ call' \in ApiCalls

LEMMA ReturnsIsTyped ==
    ASSUME LoopTypeOK, NEW t \in Threads, NEW p \in PostExecutionControl,
           p.updated # None \/ p.before = active[t].version,
           Returns(t, p)
    PROVE  TypedDispatch(t)
  <1>1. HandleExecution(t, p) /\ active[t] # None
    BY DEF Returns, HandleExecution
  <1>2. ProcessorStep(t)
    BY <1>1 DEF ProcessorStep
  <1>3. call' \in ApiCalls
    BY DEF Returns, LoopTypeOK, DispatcherTypeOK, ApiCalls
  <1> QED
    BY <1>2, <1>3 DEF TypedDispatch

LEMMA AnswerIsTyped ==
    ASSUME VersionsAreResources, LoopTypeOK, NEW t \in Threads, active[t] # None,
           \/ Returns(t, DefaultDispatch(t))
           \/ Returns(t, ExceptionDuringExecution(t))
           \/ \E d \in BOOLEAN : Returns(t, DispatchedWithReschedule(t, d))
    PROVE  TypedDispatch(t)
  <1>1. EPTypeOK
    BY DEF LoopTypeOK
  <1>2. CASE Returns(t, DefaultDispatch(t)) \/ Returns(t, ExceptionDuringExecution(t))
    BY <1>1, <1>2, AnswersAreTyped, ReturnsIsTyped
  <1>3. ASSUME NEW d \in BOOLEAN, Returns(t, DispatchedWithReschedule(t, d))
        PROVE  TypedDispatch(t)
    BY <1>1, <1>3, AnswersAreTyped, ReturnsIsTyped
  <1> QED
    BY <1>2, <1>3

LEMMA CallsIsTyped ==
    ASSUME VersionsAreResources, LoopTypeOK, NEW t \in Threads, active[t] # None,
           NEW op \in {"addFinalizer", "removeFinalizer", "updateResource",
                       "updateResourceAndStatus", "updateStatus",
                       "observeGeneration", "errorStatus"},
           NEW obj \in CustomResource, NEW d \in BOOLEAN,
           Calls(t, op, obj, d)
    PROVE  TypedDispatch(t)
  <1>1. Snapshot(t) \in CustomResource
    BY SnapshotType DEF LoopTypeOK
  <1>2. call' \in ApiCalls
    BY <1>1 DEF Calls, LoopTypeOK, DispatcherTypeOK, ApiCalls, ApiCall
  <1> QED
    BY <1>2 DEF Calls, TypedDispatch

\* The objects that the dispatcher sends are custom resources.
LEMMA SentObjects ==
    ASSUME NEW obj \in CustomResource
    PROVE  /\ [obj EXCEPT !.fin = TRUE] \in CustomResource
           /\ [obj EXCEPT !.fin = FALSE] \in CustomResource
           /\ [obj EXCEPT !.ann = TRUE] \in CustomResource
           /\ ErrorStatus(obj) \in CustomResource
           /\ StatusOf(obj) \in CustomResource
           /\ \A n \in Nat : [obj EXCEPT !.rv = n] \in CustomResource
  BY DEF CustomResource, ErrorStatus, StatusOf

LEMMA ReconcileFailsIsTyped ==
    ASSUME VersionsAreResources, LoopTypeOK, NEW t \in Threads, active[t] # None,
           NEW original \in CustomResource, ReconcileFails(t, original)
    PROVE  TypedDispatch(t)
  <1>1. ErrorStatus(original) \in CustomResource
    BY SentObjects
  <1> QED
    BY <1>1, AnswerIsTyped, CallsIsTyped DEF ReconcileFails

LEMMA DispatchIsTyped ==
    ASSUME VersionsAreResources, LoopTypeOK, NEW t \in Threads, Dispatch(t)
    PROVE  TypedDispatch(t) /\ DispatcherTypeOK'
  <1>1. /\ IsDispatched(t) /\ active[t] # None
        /\ Snapshot(t) \in CustomResource
    BY SnapshotType DEF Dispatch, SkipsCleanup, AddsFinalizer, Reconciles,
                        IsReconciled, CleansUp, IsDispatched, LoopTypeOK
  <1>2. Snapshot(t).uid \in Nat /\ Snapshot(t).gen \in Nat
    BY <1>1 DEF CustomResource
  <1>3. Reschedules \subseteq BOOLEAN
    BY DispatcherAssumption
  <1>4. CASE SkipsCleanup(t)
    BY <1>1, <1>4, AnswerIsTyped
       DEF SkipsCleanup, LoopTypeOK, DispatcherTypeOK, historyVars, TypedDispatch,
           ApiCalls
  <1>5. CASE AddsFinalizer(t)
    <2>1. TypedDispatch(t)
      BY <1>1, <1>5, SentObjects, CallsIsTyped DEF AddsFinalizer
    <2> QED
      BY <1>5, <2>1 DEF AddsFinalizer, LoopTypeOK, DispatcherTypeOK, historyVars,
                        TypedDispatch, ApiCalls
  <1>6. CASE Reconciles(t)
    <2>1. ASSUME NEW outcome \in ReconcileOutcomes, NEW d \in Reschedules,
                 ReconcileReturns(t, outcome, d)
          PROVE  TypedDispatch(t)
      <3> DEFINE obj == Snapshot(t)
      <3>1. /\ StatusOf(obj) \in CustomResource
            /\ [obj EXCEPT !.ann = TRUE] \in CustomResource
            /\ d \in BOOLEAN
        BY <1>1, <1>3, SentObjects
      <3>2. \/ Calls(t, "updateStatus", StatusOf(obj), d)
            \/ Calls(t, "observeGeneration", StatusOf(obj), d)
            \/ Returns(t, DispatchedWithReschedule(t, d))
            \/ /\ outcome \in {"updateResource", "updateResourceAndStatus"}
               /\ Calls(t, outcome, [obj EXCEPT !.ann = TRUE], d)
        BY <2>1 DEF ReconcileReturns
      <3> HIDE DEF obj
      <3> QED
        BY <1>1, <3>1, <3>2, AnswerIsTyped, CallsIsTyped
    <2>2. TypedDispatch(t)
      BY <1>1, <1>6, <2>1, ReconcileFailsIsTyped DEF Reconciles
    <2> QED
      BY <1>2, <1>6, <2>2 DEF Reconciles, LoopTypeOK, DispatcherTypeOK,
                              TypedDispatch, ApiCalls
  <1>7. CASE CleansUp(t)
    <2>1. ASSUME NEW outcome \in CleanupOutcomes, CleanupReturns(t, outcome)
          PROVE  TypedDispatch(t)
      <3>1. [Snapshot(t) EXCEPT !.fin = FALSE] \in CustomResource
        BY <1>1, SentObjects
      <3> QED
        BY <1>1, <1>3, <2>1, <3>1, AnswerIsTyped, CallsIsTyped DEF CleanupReturns
    <2>2. TypedDispatch(t)
      BY <1>7, <2>1 DEF CleansUp
    <2> QED
      BY <1>2, <1>7, <2>2 DEF CleansUp, LoopTypeOK, DispatcherTypeOK,
                              TypedDispatch, ApiCalls
  <1> QED
    BY <1>4, <1>5, <1>6, <1>7 DEF Dispatch
-------------------------------------------------------------------------------
(***************************************************************************)
(* The server.                                                             *)
(***************************************************************************)
\* A change keeps the types of the server.
LEMMA CommitIsTyped ==
    ASSUME ServerTypeOK, NEW r \in Resources, NEW obj \in CustomResource,
           Commit(r, obj)
    PROVE  ServerTypeOK' /\ Stamped(obj) \in CustomResource
  <1>1. Stamped(obj) \in CustomResource
    BY DEF Stamped, CustomResource, ServerTypeOK
  <1>2. Removed(obj) \in BOOLEAN
    BY DEF Removed, CustomResource
  <1>3. [res |-> r, obj |-> Stamped(obj), gone |-> Removed(obj)] \in Change
    BY <1>1, <1>2 DEF Change
  <1>4. watch' \in Seq(Change)
    BY <1>3, AppendProperties DEF Commit, ServerTypeOK
  <1> QED
    BY <1>1, <1>4 DEF Commit, ServerTypeOK

LEMMA WriteIsTyped ==
    ASSUME ServerTypeOK, NEW r \in Resources, NEW obj \in CustomResource,
           Write(r, obj)
    PROVE  ServerTypeOK' /\ Written(r, obj) \in CustomResource
  <1>1. CASE obj = store[r]
    BY <1>1 DEF Write, Written, serverVars, ServerTypeOK
  <1>2. CASE obj # store[r]
    BY <1>2, CommitIsTyped DEF Write, Written
  <1> QED
    BY <1>1, <1>2

\* Users keep the types of the server.
LEMMA UserActionIsTyped ==
    ASSUME ServerTypeOK, UserAction
    PROVE  ServerTypeOK'
  <1> SUFFICES ASSUME NEW r \in Resources,
                      \/ UserCreates(r) \/ UserUpdatesSpec(r)
                      \/ UserUpdatesMetadata(r) \/ UserDeletes(r)
                      \/ ForeignFinalizerRemoved(r)
               PROVE  ServerTypeOK'
    BY DEF UserAction
  <1>1. CASE UserCreates(r)
    <2>1. PICK foreign \in ForeignFinalizers :
             Commit(r, [rv |-> 0, uid |-> resourceVersion + 1, gen |-> 1,
                        fin |-> FALSE, foreign |-> foreign, del |-> FALSE,
                        ann |-> FALSE, obs |-> 0, err |-> FALSE])
      BY <1>1 DEF UserCreates
    <2>2. foreign \in BOOLEAN /\ resourceVersion + 1 \in Nat
      BY ServerAssumption DEF ServerTypeOK
    <2>3. [rv |-> 0, uid |-> resourceVersion + 1, gen |-> 1,
           fin |-> FALSE, foreign |-> foreign, del |-> FALSE,
           ann |-> FALSE, obs |-> 0, err |-> FALSE] \in CustomResource
      BY <2>2 DEF CustomResource
    <2> QED
      BY <2>1, <2>3, CommitIsTyped
  <1>2. CASE store[r] # None
    <2> DEFINE obj == store[r]
    <2>1. obj \in CustomResource
      BY <1>2 DEF ServerTypeOK
    <2>2. /\ [obj EXCEPT !.gen = @ + 1] \in CustomResource
          /\ [obj EXCEPT !.ann = FALSE] \in CustomResource
          /\ [obj EXCEPT !.del = TRUE, !.gen = @ + 1] \in CustomResource
          /\ [obj EXCEPT !.foreign = FALSE] \in CustomResource
          /\ Stamped(obj) \in CustomResource
      <3> HIDE DEF obj
      <3>1. resourceVersion + 1 \in Nat /\ obj.gen + 1 \in Nat
        BY <2>1 DEF CustomResource, ServerTypeOK
      <3>2. [obj EXCEPT !.gen = @ + 1] \in CustomResource
        BY <2>1, <3>1 DEF CustomResource
      <3>3. [obj EXCEPT !.del = TRUE, !.gen = @ + 1] \in CustomResource
        BY <2>1, <3>1 DEF CustomResource
      <3>4. /\ [obj EXCEPT !.ann = FALSE] \in CustomResource
            /\ [obj EXCEPT !.foreign = FALSE] \in CustomResource
            /\ Stamped(obj) \in CustomResource
        BY <2>1, <3>1 DEF CustomResource, Stamped
      <3> QED
        BY <3>2, <3>3, <3>4
    <2>3. ASSUME /\ resourceVersion' = resourceVersion + 1
                 /\ store' = [store EXCEPT ![r] = None]
                 /\ watch' = Append(watch, [res |-> r, obj |-> Stamped(obj),
                                            gone |-> TRUE])
                 /\ UNCHANGED notifications
          PROVE  ServerTypeOK'
      <3> HIDE DEF obj
      <3>1. [res |-> r, obj |-> Stamped(obj), gone |-> TRUE] \in Change
        BY <2>2 DEF Change
      <3>2. watch' \in Seq(Change)
        BY <2>3, <3>1, AppendProperties DEF ServerTypeOK
      <3> QED
        BY <2>3, <3>2 DEF ServerTypeOK
    <2> QED
      BY <1>2, <2>2, <2>3, CommitIsTyped
         DEF UserCreates, UserUpdatesSpec, UserUpdatesMetadata, UserDeletes,
             ForeignFinalizerRemoved
  <1> QED
    BY <1>1, <1>2 DEF UserUpdatesSpec, UserUpdatesMetadata, UserDeletes,
                      ForeignFinalizerRemoved

\* An enumeration of a finite set is a sequence of its elements.
LEMMA Enumeration ==
    ASSUME NEW S, IsFiniteSet(S), NEW order \in SetToSeqs(S)
    PROVE  /\ DOMAIN order = 1..Cardinality(S)
           /\ Cardinality(S) \in Nat
           /\ \A k \in DOMAIN order : order[k] \in S
           /\ \A j, k \in DOMAIN order : order[j] = order[k] => j = k
           /\ \A s \in S : \E k \in DOMAIN order : order[k] = s
  <1> DEFINE D == 1..Cardinality(S)
  <1>1. Cardinality(S) \in Nat
    BY FS_CardinalityType
  <1>2. order \in [D -> S] /\ \A i, j \in D : i # j => order[i] # order[j]
    BY DEF SetToSeqs
  <1>3. order \in Injection(D, S)
    BY <1>2 DEF Injection, IsInjective
  <1>4. Cardinality(D) = Cardinality(S)
    BY <1>1, FS_Interval
  <1>5. order \in Surjection(D, S)
    <2> HIDE DEF D
    <2> QED
      BY <1>3, <1>4, FS_Injection
  <1> QED
    BY <1>1, <1>2, <1>5 DEF Surjection

\* A relist leaves changes that were under way: of an object that is gone, as
\* the informer's store knows it.
LEMMA RelistKeepsChanges ==
    ASSUME ServerTypeOK, NEW known \in [Resources -> CustomResource \cup {None}],
           NEW w \in Relists(known)
    PROVE  /\ w \in Seq(Change)
           /\ \A i \in 1..Len(w) : \E j \in 1..Len(watch) :
                 /\ w[i].res = watch[j].res
                 /\ w[i].gone = watch[j].gone
                 /\ ~w[i].gone => w[i].obj = watch[j].obj
                 /\ ~(watch[j].gone /\ known[watch[j].res] = None)
                 /\ \A k \in 1..Len(watch) :
                       watch[k].res = watch[j].res => k <= j
           /\ \A i, j \in 1..Len(w) : w[i].res = w[j].res => i = j
           /\ \A j \in 1..Len(watch) :
                 (\A i \in 1..Len(watch) : watch[i].res = watch[j].res => i <= j)
                 => \/ watch[j].gone /\ known[watch[j].res] = None
                    \/ \E i \in 1..Len(w) :
                          /\ w[i].res = watch[j].res
                          /\ w[i].gone = watch[j].gone
                          /\ ~w[i].gone => w[i].obj = watch[j].obj
  <1> DEFINE left == {i \in DOMAIN watch : ~Overtaken(i)
                        /\ ~(watch[i].gone /\ known[watch[i].res] = None)}
  <1>1. /\ DOMAIN watch = 1..Len(watch) /\ Len(watch) \in Nat
        /\ \A i \in 1..Len(watch) : watch[i] \in Change
    BY LenProperties, ElementOfSeq DEF ServerTypeOK
  <1>2. PICK order \in SetToSeqs(left) :
           w = [k \in DOMAIN order |-> Listed(known, watch[order[k]])]
    BY DEF Relists
  <1>3. IsFiniteSet(left)
    <2>1. IsFiniteSet(1..Len(watch))
      BY <1>1, FS_Interval
    <2>2. left \in SUBSET (1..Len(watch))
      BY <1>1
    <2> QED
      BY <2>1, <2>2, FS_Subset
  <1>4. /\ DOMAIN order = 1..Cardinality(left)
        /\ Cardinality(left) \in Nat
        /\ \A k \in DOMAIN order : order[k] \in left
        /\ \A j, k \in DOMAIN order : order[j] = order[k] => j = k
        /\ \A i \in left : \E k \in DOMAIN order : order[k] = i
    <2> HIDE DEF left
    <2> QED
      BY <1>2, <1>3, Enumeration
  <1>5. ASSUME NEW k \in DOMAIN order
        PROVE  /\ order[k] \in 1..Len(watch)
               /\ w[k] \in Change
               /\ w[k].res = watch[order[k]].res
               /\ w[k].gone = watch[order[k]].gone
               /\ ~w[k].gone => w[k].obj = watch[order[k]].obj
    <2> DEFINE c == watch[order[k]]
    <2>1. /\ order[k] \in 1..Len(watch)
          /\ ~(c.gone /\ known[c.res] = None)
          /\ c \in Change
          /\ w[k] = Listed(known, c)
      BY <1>1, <1>2, <1>4
    <2>2. c.gone => known[c.res] \in CustomResource
      BY <2>1 DEF Change
    <2> HIDE DEF c
    <2> QED
      BY <2>1, <2>2 DEF Listed, Change, c
  <1> HIDE DEF left
  <1>6. w \in Seq(Change) /\ Len(w) = Cardinality(left) /\ DOMAIN order = 1..Len(w)
    <2>1. w \in [1..Cardinality(left) -> Change]
      BY <1>2, <1>4, <1>5
    <2>2. w \in Seq(Change)
      BY <1>4, <2>1, SeqDef
    <2> QED
      BY <1>4, <2>1, <2>2, LenProperties
  <1>7. ASSUME NEW i \in 1..Len(w), NEW j \in 1..Len(w), w[i].res = w[j].res
        PROVE  i = j
    <2>1. /\ order[i] \in left /\ order[j] \in left
          /\ watch[order[i]].res = watch[order[j]].res
      BY <1>4, <1>5, <1>6, <1>7
    <2>2. order[i] \in 1..Len(watch) /\ order[j] \in 1..Len(watch)
      BY <1>5, <1>6
    <2>3. ~(order[i] > order[j]) /\ ~(order[j] > order[i])
      BY <1>1, <2>1, <2>2 DEF Overtaken, left
    <2> QED
      BY <1>4, <1>6, <2>2, <2>3
  <1>8. ASSUME NEW j \in 1..Len(watch),
               \A i \in 1..Len(watch) : watch[i].res = watch[j].res => i <= j,
               ~(watch[j].gone /\ known[watch[j].res] = None)
        PROVE  j \in left
    BY <1>1, <1>8 DEF Overtaken, left
  <1>9. ASSUME NEW j \in left
        PROVE  \E i \in 1..Len(w) : /\ w[i].res = watch[j].res
                                    /\ w[i].gone = watch[j].gone
                                    /\ ~w[i].gone => w[i].obj = watch[j].obj
    BY <1>4, <1>5, <1>6
  <1>10. ASSUME NEW i \in left
         PROVE  /\ ~(watch[i].gone /\ known[watch[i].res] = None)
                /\ \A k \in 1..Len(watch) : watch[k].res = watch[i].res => k <= i
    BY <1>1 DEF Overtaken, left
  <1>11. \A i \in 1..Len(w) : order[i] \in left
    BY <1>4, <1>6
  <1>12. ASSUME NEW i \in 1..Len(w)
         PROVE  \E j \in 1..Len(watch) :
                   /\ w[i].res = watch[j].res
                   /\ w[i].gone = watch[j].gone
                   /\ ~w[i].gone => w[i].obj = watch[j].obj
                   /\ ~(watch[j].gone /\ known[watch[j].res] = None)
                   /\ \A k \in 1..Len(watch) :
                         watch[k].res = watch[j].res => k <= j
    <2>1. order[i] \in left /\ order[i] \in 1..Len(watch) /\ i \in DOMAIN order
      BY <1>5, <1>6, <1>11
    <2> QED
      BY <1>5, <1>10, <2>1
  <1> QED
    BY <1>6, <1>7, <1>8, <1>9, <1>12

\* The first list of an informer has each object of the server once.
LEMMA FirstListIsOfTheStore ==
    ASSUME ServerTypeOK, NEW w \in InitialLists
    PROVE  /\ w \in Seq(Change)
           /\ \A i \in 1..Len(w) : /\ store[w[i].res] # None
                                   /\ w[i].obj = store[w[i].res]
                                   /\ ~w[i].gone
           /\ \A i, j \in 1..Len(w) : w[i].res = w[j].res => i = j
           /\ \A r \in Resources : store[r] # None =>
                 \E i \in 1..Len(w) : w[i].res = r
  <1> DEFINE exist == {r \in Resources : store[r] # None}
  <1>1. PICK order \in SetToSeqs(exist) :
           w = [k \in DOMAIN order |-> [res |-> order[k],
                                        obj |-> store[order[k]], gone |-> FALSE]]
    BY DEF InitialLists
  <1>2. IsFiniteSet(exist)
    BY ServerAssumption, FS_Subset
  <1>3. /\ DOMAIN order = 1..Cardinality(exist)
        /\ Cardinality(exist) \in Nat
        /\ \A k \in DOMAIN order : order[k] \in exist
        /\ \A j, k \in DOMAIN order : order[j] = order[k] => j = k
        /\ \A r \in exist : \E k \in DOMAIN order : order[k] = r
    <2> HIDE DEF exist
    <2> QED
      BY <1>1, <1>2, Enumeration
  <1>4. \A k \in DOMAIN order :
           /\ w[k] = [res |-> order[k], obj |-> store[order[k]], gone |-> FALSE]
           /\ w[k] \in Change
           /\ store[order[k]] # None
    BY <1>1, <1>3 DEF Change, ServerTypeOK
  <1> HIDE DEF exist
  <1>5. w \in Seq(Change) /\ Len(w) = Cardinality(exist)
    <2>1. w \in [1..Cardinality(exist) -> Change]
      BY <1>1, <1>3, <1>4
    <2>2. w \in Seq(Change)
      BY <1>3, <2>1, SeqDef
    <2> QED
      BY <1>3, <2>1, <2>2, LenProperties
  <1>6. \A r \in Resources : store[r] # None =>
           \E i \in 1..Len(w) : w[i].res = r
    BY <1>3, <1>4, <1>5 DEF exist
  <1> QED
    BY <1>3, <1>4, <1>5, <1>6

\* The answer after an update has its type.
LEMMA UpdatedIsTyped ==
    ASSUME VersionsAreResources, EPTypeOK, NEW t \in Threads, active[t] # None,
           call[t] \in ApiCall,
           NEW updated \in CustomResource
    PROVE  /\ CustomResourceUpdated(t, updated) \in PostExecutionControl
           /\ CustomResourceUpdated(t, updated).updated # None
  <1> DEFINE Answer == [exception : BOOLEAN, updated : Versions \cup {None},
                        reschedule : BOOLEAN, before : Versions]
  <1> DEFINE p == CustomResourceUpdated(t, updated)
  <1> DEFINE q == DispatchedWithReschedule(t, call[t].reschedule)
  <1>1. /\ call[t].reschedule \in BOOLEAN
        /\ call[t].before \in Versions /\ updated \in Versions
        /\ Snapshot(t) \in Versions
    BY SnapshotType DEF ApiCall, VersionsAreResources
  <1>2. q \in Answer /\ ~q.exception
    BY <1>1 DEF DispatchedWithReschedule
  <1>3. p = [q EXCEPT !.updated = updated, !.before = call[t].before]
    BY DEF CustomResourceUpdated
  <1> HIDE DEF q
  <1>4. p \in Answer /\ ~p.exception /\ p.updated = updated
    <2> HIDE DEF p
    <2> QED
      BY <1>1, <1>2, <1>3
  <1> HIDE DEF p, Answer
  <1>5. p \in PostExecutionControl
    BY <1>4 DEF PostExecutionControl, Answer
  <1> QED
    BY <1>1, <1>4, <1>5, NoneAssumption DEF p

\* An answer of the API server keeps the types.
LEMMA ServerAnswersIsTyped ==
    ASSUME VersionsAreResources, LoopInv, NEW t \in Threads, ServerAnswers(t)
    PROVE  TypedDispatch(t) /\ DispatcherTypeOK' /\ ServerTypeOK'
  <1> DEFINE r == active[t].res
  <1>1. /\ LoopTypeOK /\ EPTypeOK /\ ServerTypeOK
        /\ active[t] # None /\ result[t] = None /\ call[t] # None
        /\ r \in Resources
        /\ Snapshot(t) \in CustomResource
    BY SnapshotType DEF LoopInv, LoopTypeOK, CallOfTask, ServerAnswers
  <1>2. /\ call[t] \in ApiCall
        /\ call[t].obj \in CustomResource /\ call[t].before \in CustomResource
        /\ call[t].reschedule \in BOOLEAN
    BY <1>1 DEF LoopTypeOK, DispatcherTypeOK, ApiCall
  <1>3. TypedDispatch(t) => DispatcherTypeOK'
    BY <1>1 DEF ServerAnswers, TypedDispatch, ApiCalls, LoopTypeOK,
                DispatcherTypeOK, historyVars
  <1>4. CallThrows(t) => TypedDispatch(t)
    <2>1. Original(t) \in CustomResource
      BY <1>1, <1>2 DEF Original
    <2> QED
      BY <1>1, <2>1, ReconcileFailsIsTyped, AnswerIsTyped DEF CallThrows
  <1>5. CASE CallRefused(t)
    <2>1. ServerTypeOK'
      BY <1>1, <1>5 DEF CallRefused, serverVars, ServerTypeOK
    <2> QED
      BY <1>3, <1>5, <1>4, <2>1 DEF CallRefused
  <1>6. CASE CallExecuted(t)
    <2> DEFINE new == IF call[t].op \in {"updateStatus", "observeGeneration",
                                        "errorStatus"}
                        THEN PutStatus(r, call[t].obj)
                        ELSE PutResource(r, call[t].obj)
    <2>1. store[r] \in CustomResource
      BY <1>1, <1>6 DEF CallExecuted, IsCurrent, ServerTypeOK
    <2>2. new \in CustomResource
      BY <1>2, <2>1 DEF PutStatus, PutResource, CustomResource
    <2>3. Write(r, new)
      BY <1>6 DEF CallExecuted
    <2>4. ServerTypeOK' /\ Written(r, new) \in CustomResource
      <3> HIDE DEF r, new
      <3> QED
        BY <1>1, <2>2, <2>3, WriteIsTyped
    <2>5. CASE \/ Returns(t, DefaultDispatch(t))
               \/ Returns(t, ExceptionDuringExecution(t))
               \/ CallThrows(t)
      BY <1>1, <1>3, <1>4, <2>4, <2>5, AnswerIsTyped
    <2>6. CASE UpdatesStatusNext(t, Written(r, new))
      <3> DEFINE w == Written(r, new)
      <3>1. /\ w.rv \in Nat /\ w \in CustomResource
        BY <2>4 DEF CustomResource
      <3>2. StatusOf([call[t].obj EXCEPT !.rv = w.rv]) \in CustomResource
        <4> HIDE DEF w
        <4> QED
          BY <1>2, <3>1, SentObjects
      <3>3. call' \in ApiCalls /\ UNCHANGED epVars
        <4>1. call[t].reschedule \in BOOLEAN
              /\ (IF IsCloned(t) THEN Snapshot(t) ELSE w) \in CustomResource
          BY <1>1, <1>2, <3>1
        <4>2. /\ call' = [call EXCEPT ![t] =
                    [op |-> "updateStatus",
                     obj |-> StatusOf([call[t].obj EXCEPT !.rv = w.rv]),
                     reschedule |-> call[t].reschedule,
                     before |-> IF IsCloned(t) THEN Snapshot(t) ELSE w]]
              /\ UNCHANGED epVars
          BY <2>6 DEF UpdatesStatusNext
        <4> HIDE DEF w
        <4> QED
          BY <1>1, <3>2, <4>1, <4>2 DEF LoopTypeOK, DispatcherTypeOK, ApiCalls, ApiCall
      <3> QED
        BY <1>3, <2>4, <3>3 DEF TypedDispatch
    <2>7. CASE Returns(t, CustomResourceUpdated(t, Written(r, new)))
      <3> DEFINE p == CustomResourceUpdated(t, Written(r, new))
      <3>1. p \in PostExecutionControl /\ p.updated # None
        <4> HIDE DEF r, new
        <4> QED
          BY <1>1, <1>2, <2>4, UpdatedIsTyped
      <3>2. Returns(t, p)
        BY <2>7
      <3>3. TypedDispatch(t)
        <4> HIDE DEF p
        <4> QED
          BY <1>1, <3>1, <3>2, ReturnsIsTyped
      <3> QED
        BY <1>3, <2>4, <3>3
    <2> QED
      BY <1>6, <2>5, <2>6, <2>7 DEF CallExecuted
  <1> QED
    BY <1>5, <1>6 DEF ServerAnswers
-------------------------------------------------------------------------------
(***************************************************************************)
(* The loop.                                                               *)
(***************************************************************************)
\* A step of the loop is one of the processor, none of it, or starts it anew.
LEMMA ProcessorInLoop ==
    ASSUME VersionsAreResources, LoopInv, [LoopNext]_vars
    PROVE  EPNext \/ UNCHANGED epVars \/ EPInit'
  <1>1. LoopTypeOK /\ ServerTypeOK /\ EPTypeOK
    BY DEF LoopInv, LoopTypeOK
  <1>2. CASE \/ Users \/ InformerRelists \/ ControllerSourceStarts
             \/ SecondaryUser \/ SecondaryStores \/ SecondaryPropagates
    BY <1>2 DEF Users, InformerRelists, ControllerSourceStarts, SecondaryUser,
                SecondaryStores, SecondaryPropagates, otherThanInformer
  <1>3. CASE OperatorRestarts
    BY <1>3 DEF OperatorRestarts, EPInit, WhitelistInit, TimerInit
  <1>4. CASE InformerStores
    <2> DEFINE c == Head(watch)
    <2>1. c \in Change
      BY <1>1, <1>4, TakenFromQueue DEF InformerStores, ServerTypeOK
    <2>2. /\ c.res \in Resources
          /\ (IF c.gone THEN None ELSE c.obj) \in Versions \cup {None}
      BY <2>1 DEF Change, VersionsAreResources
    <2>3. CacheChange(c.res, IF c.gone THEN None ELSE c.obj)
      BY <1>4 DEF InformerStores, CacheChange
    <2> HIDE DEF c
    <2> QED
      BY <2>2, <2>3 DEF EPNext
  <1>5. CASE FilterNotification
    <2> DEFINE n == Head(notifications)
    <2>1. n \in Notification
      BY <1>1, <1>5, TakenFromQueue DEF FilterNotification, ServerTypeOK
    <2>2. n.res \in Resources
      BY <2>1 DEF Notification
    <2>3. /\ whiteList' = whiteList \/ whiteList' = whiteList \ {n.res}
          /\ UNCHANGED <<running, lockHolder, underProcessing, eventingState,
                         retryState, taskVars, cache, timerVars>>
      BY <1>5 DEF FilterNotification
    <2> HIDE DEF n
    <2>4. UNCHANGED epVars \/ WhitelistedEvent(n.res)
      BY <2>3 DEF WhitelistedEvent, ConsumeWhitelist, epVars
    <2> QED
      BY <2>2, <2>4 DEF EPNext
  <1>6. CASE DeliverEvent
    <2>1. /\ delivering.res \in Resources
          /\ delivering.action \in {"DELETED", "OTHER"}
          /\ EventReceived(delivering.res, delivering.action)
      BY <1>1, <1>6 DEF DeliverEvent, LoopTypeOK
    <2> QED
      BY <2>1 DEF EPNext
  <1>7. CASE SecondaryEvent
    BY <1>7 DEF SecondaryEvent, EPNext
  <1>8. CASE TimerStarts
    BY <1>8 DEF TimerStarts, TimerLifecycle, EPNext
  <1>9. ASSUME NEW r \in Resources, TimerRuns(r) \/ TimerDelivers(r)
        PROVE  EPNext
    BY <1>9 DEF TimerRuns, TimerDelivers, EPNext
  <1>10. ASSUME NEW t \in Threads,
                Starts(t) \/ Finishes(t) \/ Postpones(t)
         PROVE  EPNext
    BY <1>10 DEF Starts, Finishes, Postpones, ProcessorStep, EPNext
  <1>11. ASSUME NEW t \in Threads, Dispatches(t) \/ ApiCallEnds(t)
         PROVE  EPNext \/ UNCHANGED epVars
    <2>1. TypedDispatch(t)
      BY <1>1, <1>11, DispatchIsTyped, ServerAnswersIsTyped
         DEF Dispatches, ApiCallEnds
    <2> QED
      BY <2>1 DEF TypedDispatch, EPNext
  <1>12. CASE UNCHANGED vars
    BY <1>12 DEF vars
  <1> QED
    BY <1>2, <1>3, <1>4, <1>5, <1>6, <1>7, <1>8, <1>9, <1>10, <1>11, <1>12
       DEF LoopNext

\* A process that starts has no tasks.
LEMMA RestartedTasks ==
    ASSUME EPInit'
    PROVE  TasksInv'
  <1>1. EPTypeOK'
    BY DEF EPInit, EPTypeOK, EventingState, NoRetry, WhitelistInit,
           WhitelistTypeOK, TimerInit, TimerTypeOK, TimerState
  <1>2. Tasks'
    BY DEF EPInit, Tasks, QueueUnique, QueueMarked, ThreadsUnique,
           ThreadsMarked, QueueApart, ResultOfTask, PostponedUnmarked
  <1> QED
    BY <1>1, <1>2 DEF TasksInv

LEMMA LoopKeepsTasks ==
    ASSUME VersionsAreResources, LoopInv, [LoopNext]_vars
    PROVE  TasksInv'
  BY ProcessorInLoop, NextKeepsTasks, RestartedTasks DEF LoopInv

\* A thread that waits for the API server goes on executing its task.
LEMMA LoopKeepsCalls ==
    ASSUME VersionsAreResources, LoopInv, [LoopNext]_vars
    PROVE  CallOfTask'
  <1>1. /\ LoopTypeOK /\ EPTypeOK /\ CallOfTask /\ Tasks
    BY DEF LoopInv, LoopTypeOK, TasksInv
  <1>2. CASE UNCHANGED <<active, result, call>>
    BY <1>1, <1>2 DEF CallOfTask
  <1>3. CASE OperatorRestarts
    BY <1>3 DEF OperatorRestarts, CallOfTask
  <1>4. ASSUME NEW r \in Resources, NEW action, HandleEvent(r, action),
               UNCHANGED call
        PROVE  CallOfTask'
    BY <1>2, <1>4 DEF HandleEvent
  <1>5. ASSUME NEW t \in Threads, Starts(t) \/ Finishes(t) \/ Postpones(t)
        PROVE  CallOfTask'
    <2>1. /\ UNCHANGED call
          /\ call[t] = None
          /\ \A s \in Threads : s # t =>
                active'[s] = active[s] /\ result'[s] = result[s]
      <3>1. CASE Starts(t)
        BY <1>1, <3>1 DEF Starts, StartExecution, CallOfTask, EPTypeOK,
                          dispatcherVars
      <3>2. CASE Finishes(t)
        BY <1>1, <3>2
           DEF Finishes, EventProcessingFinished, HandleRetryOnException,
               FinishWithoutRetry, ThreadDone, CallOfTask, EPTypeOK, dispatcherVars
      <3>3. CASE Postpones(t)
        BY <1>1, <3>3, NoneAssumption
           DEF Postpones, PostponeReconciliation, ThreadDone, CallOfTask, EPTypeOK,
               Tasks, PostponedUnmarked,
               otherThanProcessor, otherThanDelivery, dispatcherVars
      <3> QED
        BY <1>5, <3>1, <3>2, <3>3
    <2> QED
      BY <1>1, <2>1 DEF CallOfTask
  <1>6. ASSUME NEW t \in Threads, Dispatches(t) \/ ApiCallEnds(t)
        PROVE  CallOfTask'
    <2>1. active[t] # None /\ result[t] = None
      BY <1>1, <1>6 DEF Dispatches, Dispatch, SkipsCleanup, AddsFinalizer,
           Reconciles, IsReconciled, CleansUp, IsDispatched, ApiCallEnds,
           ServerAnswers, CallOfTask
    <2>2. ASSUME NEW p, Returns(t, p) PROVE CallOfTask'
      BY <1>1, <2>2 DEF Returns, HandleExecution, CallOfTask, EPTypeOK,
                        LoopTypeOK, DispatcherTypeOK
    <2>3. ASSUME UNCHANGED epVars, NEW c, call' = [call EXCEPT ![t] = c]
          PROVE  CallOfTask'
      BY <1>1, <2>1, <2>3 DEF epVars, taskVars, CallOfTask, LoopTypeOK,
                              DispatcherTypeOK
    <2>4. ASSUME NEW op, NEW obj, NEW d, Calls(t, op, obj, d) PROVE CallOfTask'
      BY <2>3, <2>4 DEF Calls
    <2>5. ASSUME NEW original, ReconcileFails(t, original) PROVE CallOfTask'
      BY <2>2, <2>4, <2>5 DEF ReconcileFails
    <2>6. CASE Dispatches(t)
      BY <2>2, <2>4, <2>5, <2>6
         DEF Dispatches, Dispatch, SkipsCleanup, AddsFinalizer, Reconciles,
             ReconcileReturns, CleansUp, CleanupReturns
    <2>7. CASE ApiCallEnds(t)
      BY <2>2, <2>3, <2>5, <2>7
         DEF ApiCallEnds, ServerAnswers, CallRefused, CallExecuted, CallThrows,
             UpdatesStatusNext
    <2> QED
      BY <1>6, <2>6, <2>7
  <1>7. CASE \/ Users \/ InformerStores \/ InformerRelists \/ FilterNotification
             \/ ControllerSourceStarts
             \/ SecondaryUser \/ SecondaryStores \/ SecondaryPropagates
             \/ TimerStarts \/ \E r \in Resources : TimerRuns(r)
             \/ UNCHANGED vars
    BY <1>2, <1>7
       DEF Users, InformerStores, InformerRelists, FilterNotification,
           ControllerSourceStarts,
           SecondaryUser, SecondaryStores, SecondaryPropagates, TimerStarts,
           TimerRuns, TimerFires, otherThanTimer, otherThanInformer,
           otherThanDelivery, otherThanProcessor, dispatcherVars, taskVars,
           epVars, vars
  <1>8. CASE DeliverEvent \/ SecondaryEvent \/ \E r \in Resources : TimerDelivers(r)
    <2>1. CASE DeliverEvent
      BY <1>1, <1>4, <2>1 DEF DeliverEvent, EventReceived, LoopTypeOK,
           otherThanDelivery, dispatcherVars
    <2>2. CASE SecondaryEvent
      BY <1>2, <1>4, <2>2 DEF SecondaryEvent, EventReceived, dispatcherVars,
           epVars, taskVars
    <2>3. CASE \E r \in Resources : TimerDelivers(r)
      BY <1>4, <2>3 DEF TimerDelivers, TimerEventReceived, otherThanProcessor,
           otherThanDelivery, dispatcherVars
    <2> QED
      BY <1>8, <2>1, <2>2, <2>3
  <1> QED
    BY <1>3, <1>5, <1>6, <1>7, <1>8 DEF LoopNext

\* Secondary resources keep their types.
LEMMA SecondaryIsTyped ==
    ASSUME InformerTypeOK,
           \/ SecondaryChanges \/ SecondaryInformerResyncs
           \/ SecondaryInformerStores \/ PropagateEvent
           \/ (\E id \in Resources \cup {Unwatched} :
                  Visits(id) \/ VisitThrows(id))
           \/ InformerRestarts
    PROVE  InformerTypeOK'
  <1>1. /\ secondary.version \in Nat
        /\ secondary.to \in SUBSET (Resources \cup {Unwatched})
    BY DEF InformerTypeOK, Secondary
  <1>2. \A old, new \in Nat :
           [to |-> secondary.to, old |-> old, new |-> new] \in SecondaryNotification
    BY <1>1 DEF SecondaryNotification
  <1>3. CASE SecondaryChanges
    <2>1. PICK to \in SecondaryTargets :
             secondary' = [version |-> secondary.version + 1, to |-> to]
      BY <1>3 DEF SecondaryChanges
    <2>2. secondary' \in Secondary
      BY <1>1, <2>1, InformerAssumption DEF Secondary
    <2> QED
      BY <1>3, <2>2 DEF SecondaryChanges, InformerTypeOK
  <1>4. CASE SecondaryInformerStores
    <2>1. secondaryNotifications' \in Seq(SecondaryNotification)
      BY <1>1, <1>2, <1>4, AppendProperties
         DEF SecondaryInformerStores, InformerTypeOK
    <2> QED
      BY <1>1, <1>4, <2>1 DEF SecondaryInformerStores, InformerTypeOK
  <1>5. CASE SecondaryInformerResyncs
    <2> DEFINE n == [to |-> secondary.to, old |-> secondaryStore,
                     new |-> secondaryStore]
    <2>1. n \in SecondaryNotification /\ secondaryNotifications' = <<n>>
      BY <1>2, <1>5 DEF SecondaryInformerResyncs, InformerTypeOK
    <2> HIDE DEF n
    <2>2. secondaryNotifications' \in Seq(SecondaryNotification)
      BY <2>1
    <2> QED
      BY <1>5, <2>2 DEF SecondaryInformerResyncs, InformerTypeOK
  <1>6. CASE PropagateEvent
    <2> DEFINE n == Head(secondaryNotifications)
    <2>1. /\ n \in SecondaryNotification
          /\ Tail(secondaryNotifications) \in Seq(SecondaryNotification)
      BY <1>6, TakenFromQueue DEF PropagateEvent, InformerTypeOK
    <2>2. n.to \subseteq Resources \cup {Unwatched}
      BY <2>1 DEF SecondaryNotification
    <2>3. propagating' = {} \/ propagating' = n.to
      BY <1>6 DEF PropagateEvent
    <2> HIDE DEF n
    <2> QED
      BY <1>6, <2>1, <2>2, <2>3 DEF PropagateEvent, InformerTypeOK
  <1>7. CASE \E id \in Resources \cup {Unwatched} : Visits(id) \/ VisitThrows(id)
    BY <1>7 DEF Visits, VisitThrows, InformerTypeOK
  <1>8. CASE InformerRestarts
    BY <1>8, EmptySeq DEF InformerRestarts, InformerTypeOK
  <1> QED
    BY <1>3, <1>4, <1>5, <1>6, <1>7, <1>8

\* The informer's store and what it notifies are of the types of the server.
LEMMA InformerStoresIsTyped ==
    ASSUME VersionsAreResources, LoopTypeOK, InformerStores
    PROVE  ServerTypeOK'
  <1> DEFINE c == Head(watch)
  <1> DEFINE old == cache[c.res]
  <1> DEFINE n == [res |-> c.res, new |-> c.obj,
                   old |-> IF c.gone THEN None ELSE old,
                   action |-> CASE c.gone -> "DELETED"
                                [] ~c.gone /\ old = None -> "ADDED"
                                [] OTHER -> "UPDATED"]
  <1>1. /\ c \in Change /\ Tail(watch) \in Seq(Change)
    BY TakenFromQueue DEF InformerStores, LoopTypeOK, ServerTypeOK
  <1>2. /\ c.res \in Resources /\ c.obj \in CustomResource /\ c.gone \in BOOLEAN
        /\ old \in CustomResource \cup {None}
    BY <1>1 DEF Change, LoopTypeOK, EPTypeOK, VersionsAreResources
  <1>3. /\ watch' = Tail(watch)
        /\ notifications' = Append(notifications, n)
        /\ UNCHANGED <<store, resourceVersion>>
    BY DEF InformerStores
  <1> HIDE DEF c, old
  <1>4. n \in Notification
    <2>1. (CASE c.gone -> "DELETED" [] ~c.gone /\ old = None -> "ADDED"
             [] OTHER -> "UPDATED") \in {"ADDED", "UPDATED", "DELETED"}
      BY <1>2
    <2> QED
      BY <1>2, <2>1 DEF Notification
  <1> HIDE DEF n
  <1>5. notifications' \in Seq(Notification)
    BY <1>3, <1>4, AppendProperties DEF LoopTypeOK, ServerTypeOK
  <1> QED
    BY <1>1, <1>3, <1>5 DEF LoopTypeOK, ServerTypeOK

\* The types that are not the processor's.
LoopOnlyTypeOK ==
    /\ ServerTypeOK
    /\ DispatcherTypeOK
    /\ InformerTypeOK
    /\ informerRunning \in BOOLEAN
    /\ lastSeen \in [Resources -> Nat]
    /\ gaveUp \in [Resources -> CustomResource \cup {None}]
    /\ relists \in 0..MaxRelists
    /\ restarts \in 0..MaxRestarts
    /\ delivering \in [res : Resources, action : {"DELETED", "OTHER"}]
                         \cup {None}

LEMMA LoopKeepsTypes ==
    ASSUME VersionsAreResources, LoopInv, [LoopNext]_vars
    PROVE  LoopTypeOK'
  <1> USE DEF LoopOnlyTypeOK
  <1>1. /\ LoopTypeOK /\ LoopOnlyTypeOK /\ EPTypeOK
        /\ MaxRelists \in Nat /\ MaxRestarts \in Nat
    BY LoopAssumption DEF LoopInv, LoopTypeOK
  <1>2. EPTypeOK'
    BY LoopKeepsTasks DEF TasksInv
  <1>3. SUFFICES LoopOnlyTypeOK'
    BY <1>2 DEF LoopTypeOK
  <1>4. ASSUME UNCHANGED <<serverVars, dispatcherVars, informerVars,
                           informerRunning, delivering, lastSeen, boundVars>>,
               gaveUp' \in [Resources -> CustomResource \cup {None}]
        PROVE  LoopOnlyTypeOK'
    BY <1>1, <1>4 DEF serverVars, dispatcherVars, historyVars, informerVars,
         boundVars, ServerTypeOK, DispatcherTypeOK, InformerTypeOK
  <1>5. ASSUME UNCHANGED <<dispatcherVars, informerVars, historyOfLoop>>
        PROVE  /\ DispatcherTypeOK' /\ InformerTypeOK'
               /\ lastSeen' \in [Resources -> Nat]
               /\ gaveUp' \in [Resources -> CustomResource \cup {None}]
    BY <1>1, <1>5 DEF dispatcherVars, historyVars, informerVars, historyOfLoop,
         DispatcherTypeOK, InformerTypeOK
  <1>6. ASSUME UNCHANGED boundVars
        PROVE  relists' \in 0..MaxRelists /\ restarts' \in 0..MaxRestarts
    BY <1>1, <1>6 DEF boundVars
  <1>7. CASE Users
    BY <1>1, <1>5, <1>6, <1>7, UserActionIsTyped DEF Users, otherThanDelivery
  <1>8. CASE OperatorRestarts
    <2>1. watch' \in Seq(Change)
      BY <1>1, <1>8, FirstListIsOfTheStore DEF OperatorRestarts
    <2>2. ServerTypeOK'
      BY <1>1, <1>8, <2>1 DEF OperatorRestarts, ServerTypeOK
    <2>3. DispatcherTypeOK'
      BY <1>1, <1>8 DEF OperatorRestarts, DispatcherTypeOK
    <2>4. InformerTypeOK'
      BY <1>1, <1>8, SecondaryIsTyped DEF OperatorRestarts
    <2>5. restarts' \in 0..MaxRestarts
      BY <1>1, <1>8 DEF OperatorRestarts
    <2> QED
      BY <1>1, <1>8, <2>2, <2>3, <2>4, <2>5 DEF OperatorRestarts
  <1>9. CASE InformerStores
    BY <1>1, <1>5, <1>6, <1>9, InformerStoresIsTyped
       DEF InformerStores, otherThanDelivery
  <1>10. CASE InformerRelists
    <2>1. cache \in [Resources -> CustomResource \cup {None}]
      BY <1>1 DEF EPTypeOK, VersionsAreResources
    <2>2. ServerTypeOK'
      BY <1>1, <1>10, <2>1, RelistKeepsChanges DEF InformerRelists, ServerTypeOK
    <2>3. relists' \in 0..MaxRelists
      BY <1>1, <1>10 DEF InformerRelists
    <2> QED
      BY <1>1, <1>5, <1>10, <2>2, <2>3 DEF InformerRelists
  <1>11. CASE ControllerSourceStarts
    <2>1. cache \in [Resources -> CustomResource \cup {None}]
      BY <1>1 DEF EPTypeOK, VersionsAreResources
    <2>2. ServerTypeOK'
      BY <1>1, <1>11, <2>1, RelistKeepsChanges DEF ControllerSourceStarts, ServerTypeOK
    <2> QED
      BY <1>1, <1>5, <1>6, <1>11, <2>2 DEF ControllerSourceStarts
  <1>12. CASE FilterNotification
    <2> DEFINE n == Head(notifications)
    <2>1. n \in Notification /\ Tail(notifications) \in Seq(Notification)
      BY <1>1, <1>12, TakenFromQueue DEF FilterNotification, ServerTypeOK
    <2>2. n.res \in Resources
      BY <2>1 DEF Notification
    <2>3. delivering' \in {None, [res |-> n.res, action |-> "DELETED"],
                           [res |-> n.res, action |-> "OTHER"]}
      BY <1>12 DEF FilterNotification
    <2> HIDE DEF n
    <2>4. delivering' \in [res : Resources, action : {"DELETED", "OTHER"}]
                             \cup {None}
      BY <2>2, <2>3
    <2>5. ServerTypeOK'
      BY <1>1, <1>12, <2>1 DEF FilterNotification, ServerTypeOK
    <2>6. UNCHANGED otherThanDelivery
      BY <1>12 DEF FilterNotification
    <2> QED
      BY <1>1, <1>5, <1>6, <2>4, <2>5, <2>6 DEF otherThanDelivery
  <1>13. CASE DeliverEvent
    BY <1>1, <1>5, <1>6, <1>13
       DEF DeliverEvent, otherThanDelivery, serverVars, ServerTypeOK
  <1>14. CASE SecondaryUser \/ SecondaryStores \/ SecondaryPropagates
              \/ SecondaryEvent
    <2>1. InformerTypeOK'
      BY <1>1, <1>14, SecondaryIsTyped
         DEF SecondaryUser, SecondaryStores, SecondaryPropagates, SecondaryEvent
    <2>2. UNCHANGED <<serverVars, dispatcherVars, informerRunning, delivering,
                      historyOfLoop, boundVars>>
      BY <1>14 DEF SecondaryUser, SecondaryStores, SecondaryPropagates,
                   SecondaryEvent, otherThanInformer
    <2> QED
      BY <1>1, <1>6, <2>1, <2>2
         DEF serverVars, ServerTypeOK, dispatcherVars, historyVars,
             historyOfLoop, DispatcherTypeOK
  <1>15. ASSUME NEW t \in Threads, Dispatches(t)
         PROVE  LoopOnlyTypeOK'
    <2>1. DispatcherTypeOK'
      BY <1>1, <1>15, DispatchIsTyped DEF Dispatches
    <2>2. ServerTypeOK'
      BY <1>1, <1>15 DEF Dispatches, Dispatch, serverVars, ServerTypeOK
    <2>3. lastSeen' \in [Resources -> Nat]
      BY <1>1, <1>15 DEF Dispatches, InformerTypeOK
    <2>4. UNCHANGED <<delivering, informerVars, informerRunning, gaveUp, boundVars>>
      BY <1>15 DEF Dispatches
    <2> QED
      BY <1>1, <1>6, <2>1, <2>2, <2>3, <2>4 DEF informerVars, InformerTypeOK
  <1>16. ASSUME NEW t \in Threads, ApiCallEnds(t)
         PROVE  LoopOnlyTypeOK'
    <2>1. DispatcherTypeOK' /\ ServerTypeOK'
      BY <1>16, ServerAnswersIsTyped DEF ApiCallEnds
    <2> QED
      BY <1>1, <1>6, <1>16, <2>1 DEF ApiCallEnds, informerVars, InformerTypeOK,
                                     historyOfLoop
  <1>17. CASE \/ TimerStarts
              \/ \E r \in Resources : TimerRuns(r) \/ TimerDelivers(r)
              \/ \E t \in Threads : Postpones(t)
              \/ UNCHANGED vars
    BY <1>1, <1>4, <1>17 DEF TimerStarts, TimerRuns, TimerDelivers, Postpones,
         otherThanProcessor, otherThanDelivery, historyOfLoop, vars
  <1>18. ASSUME NEW t \in Threads, Starts(t)
         PROVE  LoopOnlyTypeOK'
    BY <1>1, <1>4, <1>18 DEF Starts
  <1>19. ASSUME NEW t \in Threads, Finishes(t)
         PROVE  LoopOnlyTypeOK'
    <2>1. result[t] # None /\ active[t] # None
      BY <1>19 DEF Finishes, EventProcessingFinished, LoopInv, TasksInv, Tasks,
                   ResultOfTask
    <2>2. Snapshot(t) \in CustomResource
      BY <1>1, <2>1, SnapshotType
    <2>3. gaveUp' \in [Resources -> CustomResource \cup {None}]
      BY <1>1, <1>19, <2>2 DEF Finishes
    <2> QED
      BY <1>4, <1>19, <2>3 DEF Finishes
  <1> HIDE DEF LoopOnlyTypeOK
  <1> QED
    BY <1>7, <1>8, <1>9, <1>10, <1>11, <1>12, <1>13, <1>14, <1>15, <1>16, <1>17,
       <1>18, <1>19 DEF LoopNext

LEMMA InitialLoop == LoopInit => LoopInv
  <1> SUFFICES ASSUME LoopInit PROVE LoopInv
    OBVIOUS
  <1>1. TasksInv /\ EPTypeOK
    BY InitialTasks DEF LoopInit, TasksInv
  <1>2. ServerTypeOK
    BY DEF LoopInit, ServerInit, ServerTypeOK
  <1>3. DispatcherTypeOK /\ CallOfTask
    BY DEF LoopInit, DispatcherInit, DispatcherTypeOK, CallOfTask
  <1>4. InformerTypeOK
    BY DEF LoopInit, InformerInit, InformerTypeOK, Secondary
  <1>5. relists \in 0..MaxRelists /\ restarts \in 0..MaxRestarts
    BY LoopAssumption DEF LoopInit
  <1>6. /\ informerRunning \in BOOLEAN
        /\ lastSeen \in [Resources -> Nat]
        /\ gaveUp \in [Resources -> CustomResource \cup {None}]
        /\ delivering = None
    BY DEF LoopInit
  <1> QED
    BY <1>1, <1>2, <1>3, <1>4, <1>5, <1>6 DEF LoopInv, LoopTypeOK

\* Types, the tasks of the processor, and that a thread has a call under way
\* only for a task: what every step of the loop keeps, a restart included.
THEOREM LoopInvariant == VersionsAreResources /\ LoopSpec => []LoopInv
  <1> SUFFICES ASSUME VersionsAreResources PROVE LoopSpec => []LoopInv
    OBVIOUS
  <1>1. LoopInit => LoopInv
    BY InitialLoop
  <1>2. LoopInv /\ [LoopNext]_vars => LoopInv'
    BY LoopKeepsTypes, LoopKeepsTasks, LoopKeepsCalls DEF LoopInv
  <1> QED
    BY <1>1, <1>2, PTL DEF LoopSpec

\* The types of the whole loop: what the dispatcher sends to the server and
\* answers to the processor, what the server keeps and the informers are told,
\* in every interleaving with relists and restarts.
THEOREM LoopTypeCorrect == VersionsAreResources /\ LoopSpec => []LoopTypeOK
  <1>1. LoopInv => LoopTypeOK
    BY DEF LoopInv
  <1> QED
    BY <1>1, LoopInvariant, PTL
-------------------------------------------------------------------------------
(***************************************************************************)
(* What is proved of the processor holds in the loop.                      *)
(***************************************************************************)
ProcessorInv == TasksInv /\ MarkHasTask /\ DeleteMarkIsTransient /\ Informed

LEMMA NextKeepsProcessor ==
    ASSUME ~ErrorsPossible
    PROVE  ProcessorInv /\ (EPNext \/ UNCHANGED epVars \/ EPInit') => ProcessorInv'
  <1>1. ProcessorInv /\ [EPNext]_epVars => ProcessorInv'
    BY NextKeepsTasks, NextKeepsMarks, NextKeepsNoDeleteMark, NextKeepsInformed,
       OwnSourcesAssumption DEF ProcessorInv
  <1>2. ASSUME EPInit' PROVE ProcessorInv'
    <2>1. TasksInv'
      BY <1>2, RestartedTasks
    <2>2. MarkHasTask' /\ DeleteMarkIsTransient'
      BY <1>2 DEF EPInit, MarkHasTask, DeleteMarkIsTransient, DeleteEventPresent
    <2>3. Informed'
      BY <1>2, RetryAssumption DEF EPInit, Informed, QueueInformed,
           ThreadsInformed, WithinLimit, NoRetry
    <2> QED
      BY <2>1, <2>2, <2>3 DEF ProcessorInv
  <1> QED
    BY <1>1, <1>2

\* In the whole loop, with its filters, its API server and its restarts, the
\* executions of a resource are serial, none of its events waits for a mark
\* that no task holds, no deletion stays marked, and each execution has the
\* RetryInfo of its resource (EventProcessor.java).
THEOREM ProcessorOfTheLoop ==
    VersionsAreResources /\ ~ErrorsPossible /\ LoopSpec
        => [](/\ SerialExecution
              /\ NoStuckResource
              /\ DeleteMarkIsTransient
              /\ RetryInfoIsCurrent)
  <1> SUFFICES ASSUME VersionsAreResources, ~ErrorsPossible
               PROVE  LoopSpec => [](/\ SerialExecution
                                     /\ NoStuckResource
                                     /\ DeleteMarkIsTransient
                                     /\ RetryInfoIsCurrent)
    OBVIOUS
  <1>1. LoopInit => ProcessorInv
    <2>1. EPInit => MarkHasTask /\ DeleteMarkIsTransient
      BY DEF EPInit, MarkHasTask, DeleteMarkIsTransient, DeleteEventPresent
    <2> QED
      BY <2>1, InitialTasks, InitialInformed DEF LoopInit, ProcessorInv
  <1>2. LoopInv /\ ProcessorInv /\ [LoopNext]_vars => ProcessorInv'
    BY ProcessorInLoop, NextKeepsProcessor
  <1>3. ProcessorInv => /\ SerialExecution
                        /\ NoStuckResource
                        /\ DeleteMarkIsTransient
                        /\ RetryInfoIsCurrent
    BY TasksAreSerial, MarksAreTasks, InformedIsCurrent DEF ProcessorInv
  <1>4. LoopSpec => []LoopInv
    BY LoopInvariant
  <1> QED
    BY <1>1, <1>2, <1>3, <1>4, PTL DEF LoopSpec
===============================================================================
