------------------------- MODULE EventProcessorProofs -------------------------
(***************************************************************************)
(* Theorems about the event processor, for every set of resources, versions*)
(* and threads and every retry configuration.                              *)
(*                                                                         *)
(* SerialExecution is not inductive: that a handler queues no second       *)
(* execution follows from underProcessing, which must hold the resource of *)
(* every task but the one whose thread is inside the postponement.         *)
(***************************************************************************)
EXTENDS EventProcessorRefinement, SequenceTheorems, TLAPS

QueueUnique ==
    \A i, j \in 1..Len(queue) : queue[i].res = queue[j].res => i = j

QueueMarked == \A i \in 1..Len(queue) : queue[i].res \in underProcessing

ThreadsUnique ==
    \A s, t \in Threads :
        active[s] # None /\ active[t] # None /\ active[s].res = active[t].res
            => s = t

ThreadsMarked ==
    \A t \in Threads :
        active[t] # None /\ t # lockHolder => active[t].res \in underProcessing

QueueApart ==
    \A i \in 1..Len(queue), t \in Threads :
        active[t] # None => queue[i].res # active[t].res

ResultOfTask == \A t \in Threads : result[t] # None => active[t] # None

PostponedUnmarked ==
    lockHolder # None =>
        /\ active[lockHolder] # None
        /\ active[lockHolder].res \notin underProcessing
        /\ result[lockHolder] # None

Tasks ==
    /\ QueueUnique /\ QueueMarked
    /\ ThreadsUnique /\ ThreadsMarked
    /\ QueueApart
    /\ ResultOfTask
    /\ PostponedUnmarked

\* The inductive invariant behind SerialExecution.
TasksInv == EPTypeOK /\ Tasks
-------------------------------------------------------------------------------
\* What the queue of the executor is after an execution is taken from it.
LEMMA TakenFromQueue ==
    ASSUME NEW S, NEW q \in Seq(S), q # <<>>
    PROVE  /\ Tail(q) \in Seq(S)
           /\ Head(q) = q[1]
           /\ 1 \in 1..Len(q)
           /\ q[1] \in S
           /\ Len(Tail(q)) = Len(q) - 1
           /\ \A i \in 1..Len(Tail(q)) :
                 i + 1 \in 1..Len(q) /\ i + 1 # 1 /\ Tail(q)[i] = q[i + 1]
  <1>1. Len(q) \in Nat /\ Len(q) >= 1
    BY EmptySeq, LenProperties
  <1>2. /\ Tail(q) \in Seq(S)
        /\ Len(Tail(q)) = Len(q) - 1
        /\ \A i \in 1..Len(Tail(q)) : Tail(q)[i] = q[i + 1]
    BY HeadTailProperties
  <1>3. Head(q) = q[1] /\ q[1] \in S
    BY <1>1, ElementOfSeq
  <1> QED
    BY <1>1, <1>2, <1>3

\* What submitReconciliationExecution does to the queue and to the marks: it
\* keeps the executions of the queue, and adds at most one, of a resource
\* that was not under processing and now is.
LEMMA Submission ==
    ASSUME EPTypeOK, QueueUnique,
           NEW r \in Resources,
           NEW up \in SUBSET Resources,
           NEW em \in [Resources -> EventingState],
           NEW rs \in [Resources -> Int],
           \A i \in 1..Len(queue) : queue[i].res \in up,
           SubmitReconciliationExecution(r, up, em, rs)
    PROVE  /\ queue' \in Seq(ExecutionScope)
           /\ underProcessing' \subseteq Resources
           /\ eventingState' \in [Resources -> EventingState]
           /\ up \subseteq underProcessing'
           /\ QueueUnique' /\ QueueMarked'
           /\ \A i \in 1..Len(queue') :
                 \/ \E j \in 1..Len(queue) : queue'[i] = queue[j]
                 \/ queue'[i].res = r /\ r \notin up
  <1> USE DEF EPTypeOK
  <1>1. CASE MaySubmit(r, up)
    <2> DEFINE scope == [res |-> r, version |-> cache[r], retry |-> rs[r]]
    <2>1. /\ underProcessing' = up \cup {r}
          /\ eventingState' = UnMarkEventReceived(em, r)
          /\ queue' = Append(queue, scope) \/ queue' = queue
          /\ r \notin up /\ cache[r] # None
      BY <1>1 DEF SubmitReconciliationExecution, MaySubmit
    <2>2. scope \in ExecutionScope /\ scope.res = r
      BY <2>1 DEF ExecutionScope
    <2>3. eventingState' \in [Resources -> EventingState]
      BY <2>1 DEF UnMarkEventReceived, EventingState
    <2>4. CASE queue' = queue
      BY <2>1, <2>3, <2>4 DEF QueueUnique, QueueMarked
    <2> HIDE DEF scope
    <2> SUFFICES ASSUME queue' = Append(queue, scope)
                 PROVE  /\ queue' \in Seq(ExecutionScope)
                        /\ QueueUnique' /\ QueueMarked'
                        /\ \A i \in 1..Len(queue') :
                              \/ \E j \in 1..Len(queue) : queue'[i] = queue[j]
                              \/ queue'[i].res = r /\ r \notin up
      BY <2>1, <2>3, <2>4
    <2>5. /\ queue' \in Seq(ExecutionScope)
          /\ Len(queue) \in Nat
          /\ Len(queue') = Len(queue) + 1
          /\ \A i \in 1..Len(queue) : queue'[i] = queue[i]
          /\ queue'[Len(queue) + 1] = scope
      BY <2>1, <2>2, AppendProperties, LenProperties
    <2>6. \A i \in 1..Len(queue') : i \in 1..Len(queue) \/ i = Len(queue) + 1
      BY <2>5
    <2>7. QueueUnique'
      <3> SUFFICES ASSUME NEW i \in 1..Len(queue'), NEW j \in 1..Len(queue'),
                          queue'[i].res = queue'[j].res
                   PROVE  i = j
        BY DEF QueueUnique
      <3>1. CASE i \in 1..Len(queue) /\ j \in 1..Len(queue)
        BY <3>1, <2>5 DEF QueueUnique
      <3>2. CASE i \in 1..Len(queue) /\ j = Len(queue) + 1
        BY <3>2, <2>1, <2>2, <2>5
      <3>3. CASE i = Len(queue) + 1 /\ j \in 1..Len(queue)
        BY <3>3, <2>1, <2>2, <2>5
      <3> QED
        BY <3>1, <3>2, <3>3, <2>6
    <2>8. QueueMarked'
      BY <2>1, <2>2, <2>5, <2>6 DEF QueueMarked
    <2> QED
      BY <2>1, <2>2, <2>5, <2>6, <2>7, <2>8
  <1>2. CASE ~MaySubmit(r, up)
    <2>1. underProcessing' = up /\ eventingState' = em /\ queue' = queue
      BY <1>2 DEF SubmitReconciliationExecution, SkipExecution
    <2> QED
      BY <2>1 DEF QueueUnique, QueueMarked
  <1> QED
    BY <1>1, <1>2
-------------------------------------------------------------------------------
\* Initially nothing is queued and no thread is busy.
LEMMA InitialTasks == EPInit => TasksInv
  <1> SUFFICES ASSUME EPInit PROVE TasksInv
    OBVIOUS
  <1>1. EPTypeOK
    BY DEF EPInit, EPTypeOK, EventingState, NoRetry, WhitelistInit,
           WhitelistTypeOK, TimerInit, TimerTypeOK, TimerState
  <1>2. Tasks
    BY DEF EPInit, Tasks, QueueUnique, QueueMarked, ThreadsUnique,
           ThreadsMarked, QueueApart, ResultOfTask, PostponedUnmarked
  <1> QED
    BY <1>1, <1>2 DEF TasksInv

\* Actions that touch neither the tasks nor the marks keep Tasks.
LEMMA TasksUntouched ==
    ASSUME Tasks, UNCHANGED <<lockHolder, underProcessing, queue, active, result>>
    PROVE  Tasks'
  BY DEF Tasks, QueueUnique, QueueMarked, ThreadsUnique, ThreadsMarked,
         QueueApart, ResultOfTask, PostponedUnmarked

\* Receiving an event (handleEvent) keeps the invariant.
LEMMA HandleEventKeepsTasks ==
    ASSUME TasksInv, NEW r \in Resources, NEW action, HandleEvent(r, action),
           timerThread' \in Resources \cup {None}, timerState' \in TimerState
    PROVE  TasksInv'
  <1> USE DEF TasksInv
  <1>1. /\ lockHolder = None
        /\ UNCHANGED <<running, lockHolder, retryState, active, result, cache,
                       whiteList>>
    BY DEF HandleEvent
  <1>2. CASE UNCHANGED <<underProcessing, queue>>
    <2>1. Tasks'
      BY <1>1, <1>2, TasksUntouched
    <2>2. /\ eventingState' \in [Resources -> EventingState]
          /\ onceTasks' \subseteq Resources
      <3>1. CASE ~AcceptsEvents
        BY <3>1 DEF HandleEvent, EPTypeOK, TimerTypeOK
      <3>2. CASE AcceptsEvents
        <4>1. CASE action = "DELETED" \/ DeleteEventPresent(eventingState, r)
          BY <3>2, <4>1 DEF HandleEvent, EPTypeOK, TimerTypeOK, CleanupMarker,
              MarkDeleteEventReceived, EventingState, CancelOnceSchedule,
              CleanupForDeletedEvent
        <4>2. CASE ~(action = "DELETED" \/ DeleteEventPresent(eventingState, r))
          BY <3>2, <4>2 DEF HandleEvent, EPTypeOK, TimerTypeOK, MarkEventReceived,
              EventingState, SubmitReconciliationExecution, SkipExecution,
              UnMarkEventReceived
        <4> QED
          BY <4>1, <4>2
      <3> QED
        BY <3>1, <3>2
    <2>3. EPTypeOK'
      BY <1>1, <1>2, <2>2 DEF EPTypeOK, WhitelistTypeOK, TimerTypeOK
    <2> QED
      BY <2>1, <2>3
  <1>3. CASE SubmitReconciliationExecution(r, underProcessing,
                 MarkEventReceived(eventingState, r), retryState)
             /\ UNCHANGED onceTasks
    <2> DEFINE em == MarkEventReceived(eventingState, r)
    <2>1. em \in [Resources -> EventingState]
      BY DEF EPTypeOK, MarkEventReceived, EventingState
    <2>2. QueueUnique /\ QueueMarked
      BY DEF Tasks
    <2>3. /\ queue' \in Seq(ExecutionScope)
          /\ underProcessing' \subseteq Resources
          /\ eventingState' \in [Resources -> EventingState]
          /\ underProcessing \subseteq underProcessing'
          /\ QueueUnique' /\ QueueMarked'
          /\ \A i \in 1..Len(queue') :
                \/ \E j \in 1..Len(queue) : queue'[i] = queue[j]
                \/ queue'[i].res = r /\ r \notin underProcessing
      BY <1>3, <2>1, <2>2, Submission DEF EPTypeOK, QueueMarked
    <2>4. EPTypeOK'
      BY <1>1, <1>3, <2>3 DEF EPTypeOK, WhitelistTypeOK, TimerTypeOK
    <2>5. ThreadsUnique' /\ ThreadsMarked' /\ ResultOfTask' /\ PostponedUnmarked'
      BY <1>1, <2>3
         DEF Tasks, ThreadsUnique, ThreadsMarked, ResultOfTask, PostponedUnmarked
    <2>6. QueueApart'
      <3> SUFFICES ASSUME NEW i \in 1..Len(queue'), NEW t \in Threads,
                          active[t] # None
                   PROVE  queue'[i].res # active[t].res
        BY <1>1 DEF QueueApart
      <3>1. active[t].res \in underProcessing
        BY <1>1, NoneAssumption DEF Tasks, ThreadsMarked
      <3>2. \A j \in 1..Len(queue) : queue[j].res # active[t].res
        BY DEF Tasks, QueueApart
      <3> QED
        BY <2>3, <3>1, <3>2
    <2> QED
      BY <2>3, <2>4, <2>5, <2>6 DEF Tasks
  <1> QED
    BY <1>2, <1>3 DEF HandleEvent

\* Taking an execution from the queue keeps the invariant.
LEMMA StartExecutionKeepsTasks ==
    ASSUME TasksInv, NEW t \in Threads, StartExecution(t)
    PROVE  TasksInv'
  <1> USE DEF TasksInv
  <1>1. /\ active[t] = None
        /\ queue # <<>>
        /\ active' = [active EXCEPT ![t] = Head(queue)]
        /\ queue' = Tail(queue)
        /\ UNCHANGED <<running, lockHolder, underProcessing, eventingState,
                       retryState, result, cache, whiteList, timerVars>>
    BY DEF StartExecution
  <1>2. /\ queue' \in Seq(ExecutionScope)
        /\ Head(queue) = queue[1]
        /\ 1 \in 1..Len(queue)
        /\ queue[1] \in ExecutionScope
        /\ \A i \in 1..Len(queue') :
              i + 1 \in 1..Len(queue) /\ i + 1 # 1 /\ queue'[i] = queue[i + 1]
    BY <1>1, TakenFromQueue DEF EPTypeOK
  <1>3. /\ active'[t] = queue[1]
        /\ \A s \in Threads : s # t => active'[s] = active[s]
    BY <1>1, <1>2 DEF EPTypeOK
  <1>4. lockHolder # t
    BY <1>1, NoneAssumption DEF Tasks, PostponedUnmarked
  <1>5. EPTypeOK'
    BY <1>1, <1>2 DEF EPTypeOK, WhitelistTypeOK, TimerTypeOK, timerVars
  <1>6. QueueUnique'
    BY <1>2 DEF Tasks, QueueUnique
  <1>7. QueueMarked'
    BY <1>1, <1>2 DEF Tasks, QueueMarked
  <1>8. ThreadsUnique'
    BY <1>1, <1>2, <1>3 DEF Tasks, ThreadsUnique, QueueApart
  <1>9. ThreadsMarked'
    BY <1>1, <1>2, <1>3 DEF Tasks, ThreadsMarked, QueueMarked
  <1>10. QueueApart'
    BY <1>1, <1>2, <1>3 DEF Tasks, QueueApart, QueueUnique
  <1>11. ResultOfTask'
    <2>1. result[t] = None
      BY <1>1 DEF Tasks, ResultOfTask
    <2> QED
      BY <1>1, <1>3, <2>1 DEF Tasks, ResultOfTask
  <1>12. PostponedUnmarked'
    BY <1>1, <1>3, <1>4 DEF Tasks, PostponedUnmarked, EPTypeOK
  <1> QED
    BY <1>5, <1>6, <1>7, <1>8, <1>9, <1>10, <1>11, <1>12 DEF Tasks

\* Returning from handleExecution keeps the invariant.
LEMMA HandleExecutionKeepsTasks ==
    ASSUME TasksInv, NEW t \in Threads, NEW p \in PostExecutionControl,
           HandleExecution(t, p)
    PROVE  TasksInv'
  <1> USE DEF TasksInv
  <1>1. EPTypeOK'
    BY DEF HandleExecution, EPTypeOK, WhitelistTypeOK, TimerTypeOK, timerVars
  <1>2. Tasks'
    BY DEF HandleExecution, EPTypeOK, Tasks, QueueUnique, QueueMarked,
           ThreadsUnique, ThreadsMarked, QueueApart, ResultOfTask,
           PostponedUnmarked
  <1> QED
    BY <1>1, <1>2

\* An execution that ends with an Error keeps the invariant.
LEMMA ExecutionDiesKeepsTasks ==
    ASSUME TasksInv, NEW t \in Threads, ExecutionDies(t)
    PROVE  TasksInv'
  <1> USE DEF TasksInv
  <1>1. EPTypeOK'
    BY DEF ExecutionDies, EPTypeOK, WhitelistTypeOK, TimerTypeOK, timerVars
  <1>2. Tasks'
    BY DEF ExecutionDies, EPTypeOK, Tasks, QueueUnique, QueueMarked,
           ThreadsUnique, ThreadsMarked, QueueApart, ResultOfTask,
           PostponedUnmarked
  <1> QED
    BY <1>1, <1>2

\* Finishing an execution, up to the postponement: its thread is free again,
\* unless it is inside the postponement, and its resource is unmarked, unless
\* an execution of it has been queued.
LEMMA FinishedKeepsTasks ==
    ASSUME TasksInv, NEW t \in Threads, lockHolder = None, result[t] # None,
           EPTypeOK',
           QueueUnique' /\ QueueMarked',
           UnsetUnderExecution(active[t].res) \subseteq underProcessing',
           \A i \in 1..Len(queue') :
               \/ \E j \in 1..Len(queue) : queue'[i] = queue[j]
               \/ queue'[i].res = active[t].res,
           \/ ThreadDone(t) /\ lockHolder' = None
           \/ /\ UNCHANGED <<queue, active, result>>
              /\ lockHolder' = t
              /\ underProcessing' = UnsetUnderExecution(active[t].res)
    PROVE  TasksInv'
  <1> USE DEF TasksInv, UnsetUnderExecution
  <1>1. active[t] # None
    BY DEF Tasks, ResultOfTask
  <1>2. \A s \in Threads : s # t /\ active[s] # None =>
           /\ active[s].res # active[t].res
           /\ active[s].res \in underProcessing
    BY <1>1, NoneAssumption DEF Tasks, ThreadsUnique, ThreadsMarked
  <1>3. CASE ThreadDone(t) /\ lockHolder' = None
    <2>1. /\ active'[t] = None /\ result'[t] = None
          /\ \A s \in Threads : s # t => active'[s] = active[s] /\ result'[s] = result[s]
      BY <1>3 DEF ThreadDone, EPTypeOK
    <2>2. ThreadsUnique' /\ ThreadsMarked'
      BY <1>2, <2>1 DEF Tasks, ThreadsUnique, ThreadsMarked
    <2>3. QueueApart'
      <3> SUFFICES ASSUME NEW i \in 1..Len(queue'), NEW s \in Threads,
                          active'[s] # None
                   PROVE  queue'[i].res # active'[s].res
        BY DEF QueueApart
      <3>1. s # t /\ active'[s] = active[s]
        BY <2>1
      <3>2. \A j \in 1..Len(queue) : queue[j].res # active[s].res
        BY <3>1 DEF Tasks, QueueApart
      <3> QED
        BY <3>1, <3>2, <1>2
    <2>4. ResultOfTask' /\ PostponedUnmarked'
      BY <1>3, <2>1 DEF Tasks, ResultOfTask, PostponedUnmarked
    <2> QED
      BY <2>2, <2>3, <2>4 DEF Tasks
  <1>4. CASE /\ UNCHANGED <<queue, active, result>>
             /\ lockHolder' = t
             /\ underProcessing' = UnsetUnderExecution(active[t].res)
    <2>1. ThreadsUnique' /\ QueueApart' /\ ResultOfTask'
      BY <1>4 DEF Tasks, ThreadsUnique, QueueApart, ResultOfTask
    <2>2. ThreadsMarked' /\ PostponedUnmarked'
      BY <1>1, <1>2, <1>4 DEF ThreadsMarked, PostponedUnmarked
    <2> QED
      BY <2>1, <2>2 DEF Tasks
  <1> QED
    BY <1>3, <1>4

\* The end of the postponement keeps the invariant.
LEMMA PostponeReconciliationKeepsTasks ==
    ASSUME TasksInv, NEW t \in Threads, PostponeReconciliation(t)
    PROVE  TasksInv'
  <1> USE DEF TasksInv
  <1>1. /\ lockHolder = t /\ lockHolder' = None
        /\ ThreadDone(t)
        /\ UNCHANGED <<running, underProcessing, eventingState, retryState,
                       queue, cache, timerVars>>
    BY DEF PostponeReconciliation
  <1>2. active[t] \in ExecutionScope
    BY <1>1, NoneAssumption DEF EPTypeOK, Tasks, PostponedUnmarked
  <1>3. EPTypeOK'
    <2>1. whiteList' \subseteq Resources
      BY <1>2 DEF PostponeReconciliation, WhitelistNextEvent, EPTypeOK,
                  WhitelistTypeOK, ExecutionScope
    <2> QED
      BY <1>1, <2>1 DEF EPTypeOK, WhitelistTypeOK, TimerTypeOK, timerVars, ThreadDone
  <1>4. Tasks'
    BY <1>1, NoneAssumption
       DEF ThreadDone, EPTypeOK, Tasks, QueueUnique, QueueMarked, ThreadsUnique,
           ThreadsMarked, QueueApart, ResultOfTask, PostponedUnmarked
  <1> QED
    BY <1>3, <1>4

\* The executions that wait are of other resources than the one a thread is
\* done with, so they stay marked when it is unmarked.
LEMMA OthersStayMarked ==
    ASSUME TasksInv, NEW t \in Threads, active[t] # None
    PROVE  \A i \in 1..Len(queue) :
              queue[i].res \in UnsetUnderExecution(active[t].res)
  BY DEF TasksInv, Tasks, QueueMarked, QueueApart, UnsetUnderExecution

\* The updates of the retry state and of the timer's tasks keep their types.
LEMMA RetryTypes ==
    ASSUME EPTypeOK, NEW r \in Resources
    PROVE  /\ GetOrInitRetry(retryState, r) \in [Resources -> Int]
           /\ NextDelay(GetOrInitRetry(retryState, r), r) \in [Resources -> Int]
           /\ ForgetRetry(r) \in [Resources -> Int]
           /\ ScheduleOnce(onceTasks, r) \subseteq Resources
           /\ CancelOnceSchedule(onceTasks, r) \subseteq Resources
           /\ ScheduleOnce(CancelOnceSchedule(onceTasks, r), r) \subseteq Resources
  <1>1. GetOrInitRetry(retryState, r) \in [Resources -> Int]
    BY DEF EPTypeOK, GetOrInitRetry
  <1>2. NextDelay(GetOrInitRetry(retryState, r), r) \in [Resources -> Int]
    <2> DEFINE rs == GetOrInitRetry(retryState, r)
    <2>1. rs \in [Resources -> Int]
      BY <1>1
    <2> HIDE DEF rs
    <2>2. NextDelay(rs, r) \in [Resources -> Int]
      BY <2>1 DEF NextDelay
    <2> QED
      BY <2>2 DEF rs
  <1> QED
    BY <1>1, <1>2 DEF EPTypeOK, TimerTypeOK, ForgetRetry, NoRetry, ScheduleOnce,
                      CancelOnceSchedule

\* A finished execution that is not retried keeps the invariant.
LEMMA FinishWithoutRetryKeepsTasks ==
    ASSUME TasksInv, NEW t \in Threads, lockHolder = None, result[t] # None,
           FinishWithoutRetry(t, active[t].res),
           UNCHANGED <<running, cache, whiteList, timerState, timerThread>>
    PROVE  TasksInv'
  <1> DEFINE r == active[t].res
  <1> DEFINE up == UnsetUnderExecution(r)
  <1> DEFINE cancelled == CancelOnceSchedule(onceTasks, r)
  <1>1. active[t] # None /\ active[t] \in ExecutionScope /\ r \in Resources
    BY DEF TasksInv, Tasks, ResultOfTask, EPTypeOK, ExecutionScope
  <1>2. /\ EPTypeOK /\ QueueUnique
        /\ up \subseteq Resources
        /\ \A i \in 1..Len(queue) : queue[i].res \in up
    BY <1>1, OthersStayMarked
       DEF TasksInv, Tasks, EPTypeOK, UnsetUnderExecution
  <1>3. /\ retryState' = ForgetRetry(r) /\ ForgetRetry(r) \in [Resources -> Int]
        /\ cancelled \subseteq Resources
        /\ ScheduleOnce(cancelled, r) \subseteq Resources
    BY <1>1, <1>2, RetryTypes DEF FinishWithoutRetry
  <1>4. CASE /\ UNCHANGED queue
             /\ underProcessing' = up
             /\ eventingState' \in [Resources -> EventingState]
             /\ onceTasks' \subseteq Resources
             /\ \/ ThreadDone(t) /\ lockHolder' = None
                \/ lockHolder' = t /\ UNCHANGED <<active, result>>
    <2>1. EPTypeOK'
      BY <1>2, <1>3, <1>4 DEF EPTypeOK, WhitelistTypeOK, TimerTypeOK, ThreadDone
    <2>2. QueueUnique' /\ QueueMarked'
      BY <1>2, <1>4 DEF QueueUnique, QueueMarked
    <2> QED
      BY <1>4, <2>1, <2>2, FinishedKeepsTasks
  <1>5. CASE /\ SubmitReconciliationExecution(r, up, eventingState, ForgetRetry(r))
             /\ onceTasks' = cancelled
             /\ ThreadDone(t)
             /\ UNCHANGED lockHolder
    <2>1. /\ queue' \in Seq(ExecutionScope)
          /\ underProcessing' \subseteq Resources
          /\ eventingState' \in [Resources -> EventingState]
          /\ up \subseteq underProcessing'
          /\ QueueUnique' /\ QueueMarked'
          /\ \A i \in 1..Len(queue') :
                \/ \E j \in 1..Len(queue) : queue'[i] = queue[j]
                \/ queue'[i].res = r
      <3>1. eventingState \in [Resources -> EventingState]
        BY <1>2 DEF EPTypeOK
      <3> HIDE DEF r, up, cancelled
      <3> QED
        BY <1>1, <1>2, <1>3, <1>5, <3>1, Submission
    <2>2. EPTypeOK'
      BY <1>2, <1>3, <1>5, <2>1
         DEF EPTypeOK, WhitelistTypeOK, TimerTypeOK, ThreadDone
    <2> QED
      BY <1>5, <2>1, <2>2, FinishedKeepsTasks
  <1>6. CleanupMarker(eventingState, r) \in [Resources -> EventingState]
        /\ eventingState \in [Resources -> EventingState]
    BY <1>1, <1>2 DEF EPTypeOK, CleanupMarker, EventingState
  <1> HIDE DEF r, up, cancelled
  <1> QED
    BY <1>3, <1>4, <1>5, <1>6
       DEF FinishWithoutRetry, CleanupForDeletedEvent, CancelOnceSchedule,
           r, up, cancelled

\* A finished execution that is retried keeps the invariant.
LEMMA RetryKeepsTasks ==
    ASSUME TasksInv, NEW t \in Threads, lockHolder = None, result[t] # None,
           HandleRetryOnException(t, active[t].res),
           UNCHANGED <<running, cache, whiteList, timerState, timerThread>>
    PROVE  TasksInv'
  <1> DEFINE r == active[t].res
  <1> DEFINE up == UnsetUnderExecution(r)
  <1> DEFINE em == MarkEventReceived(eventingState, r)
  <1> DEFINE rs == GetOrInitRetry(retryState, r)
  <1>1. active[t] # None /\ active[t] \in ExecutionScope /\ r \in Resources
    BY DEF TasksInv, Tasks, ResultOfTask, EPTypeOK, ExecutionScope
  <1>2. /\ EPTypeOK /\ QueueUnique
        /\ up \subseteq Resources
        /\ \A i \in 1..Len(queue) : queue[i].res \in up
    BY <1>1, OthersStayMarked
       DEF TasksInv, Tasks, EPTypeOK, UnsetUnderExecution
  <1>3. /\ rs \in [Resources -> Int]
        /\ NextDelay(rs, r) \in [Resources -> Int]
        /\ ScheduleOnce(onceTasks, r) \subseteq Resources
        /\ em \in [Resources -> EventingState]
    BY <1>1, <1>2, RetryTypes DEF MarkEventReceived, EPTypeOK, EventingState
  <1>4. ThreadDone(t) /\ lockHolder' = None
    BY DEF HandleRetryOnException
  <1>5. CASE EventPresent(eventingState, r)
    <2>1. /\ SubmitReconciliationExecution(r, up, em, rs)
          /\ retryState' = rs
          /\ UNCHANGED onceTasks
      BY <1>5 DEF HandleRetryOnException
    <2>2. /\ queue' \in Seq(ExecutionScope)
          /\ underProcessing' \subseteq Resources
          /\ eventingState' \in [Resources -> EventingState]
          /\ up \subseteq underProcessing'
          /\ QueueUnique' /\ QueueMarked'
          /\ \A i \in 1..Len(queue') :
                \/ \E j \in 1..Len(queue) : queue'[i] = queue[j]
                \/ queue'[i].res = r
      <3> HIDE DEF r, up, em, rs
      <3> QED
        BY <1>1, <1>2, <1>3, <2>1, Submission
    <2>3. EPTypeOK'
      BY <1>2, <1>3, <1>4, <2>1, <2>2
         DEF EPTypeOK, WhitelistTypeOK, TimerTypeOK, ThreadDone
    <2> QED
      BY <1>4, <2>2, <2>3, FinishedKeepsTasks
  <1>6. CASE ~EventPresent(eventingState, r)
    <2>1. /\ underProcessing' = up
          /\ eventingState' = em
          /\ retryState' = NextDelay(rs, r)
          /\ onceTasks' \in {ScheduleOnce(onceTasks, r), onceTasks}
          /\ UNCHANGED queue
      BY <1>6 DEF HandleRetryOnException
    <2>2. EPTypeOK'
      BY <1>2, <1>3, <1>4, <2>1
         DEF EPTypeOK, WhitelistTypeOK, TimerTypeOK, ThreadDone
    <2>3. QueueUnique' /\ QueueMarked'
      BY <1>2, <2>1 DEF QueueUnique, QueueMarked
    <2> QED
      BY <1>4, <2>1, <2>2, <2>3, FinishedKeepsTasks
  <1> QED
    BY <1>5, <1>6

\* eventProcessingFinished keeps the invariant.
LEMMA EventProcessingFinishedKeepsTasks ==
    ASSUME TasksInv, NEW t \in Threads, EventProcessingFinished(t)
    PROVE  TasksInv'
  <1>1. /\ lockHolder = None /\ result[t] # None
        /\ UNCHANGED <<running, cache, whiteList, timerState, timerThread>>
    BY DEF EventProcessingFinished
  <1>2. CASE /\ ThreadDone(t)
             /\ UNCHANGED <<lockHolder, underProcessing, eventingState,
                            retryState, queue, onceTasks>>
    <2>1. EPTypeOK'
      BY <1>1, <1>2 DEF TasksInv, EPTypeOK, WhitelistTypeOK, TimerTypeOK, ThreadDone
    <2>2. /\ QueueUnique' /\ QueueMarked'
          /\ UnsetUnderExecution(active[t].res) \subseteq underProcessing'
      BY <1>2 DEF TasksInv, Tasks, QueueUnique, QueueMarked, UnsetUnderExecution
    <2> QED
      BY <1>1, <1>2, <2>1, <2>2, FinishedKeepsTasks
  <1>3. CASE HandleRetryOnException(t, active[t].res)
    BY <1>1, <1>3, RetryKeepsTasks
  <1>4. CASE FinishWithoutRetry(t, active[t].res)
    BY <1>1, <1>4, FinishWithoutRetryKeepsTasks
  <1> QED
    BY <1>2, <1>3, <1>4 DEF EventProcessingFinished

\* Everything around the processor - its stop, the timer, the changes of the
\* cache and of the whitelist - keeps the invariant.
LEMMA EnvironmentKeepsTasks ==
    ASSUME TasksInv,
           \/ \E r \in Resources :
                 \/ TimerFires(r) \/ WhitelistedEvent(r)
                 \/ \E v \in Versions \cup {None} : CacheChange(r, v)
           \/ TimerLifecycle
           \/ StopProcessor
    PROVE  TasksInv'
  <1>1. UNCHANGED <<lockHolder, underProcessing, queue, active, result>>
    BY DEF TimerFires, WhitelistedEvent, CacheChange, TimerLifecycle,
           StopProcessor, otherThanTimer, taskVars
  <1>2. Tasks'
    BY <1>1, TasksUntouched DEF TasksInv
  <1>3. EPTypeOK'
    BY DEF TasksInv, EPTypeOK, TimerFires, FireTimer, WhitelistedEvent,
           ConsumeWhitelist, CacheChange, TimerLifecycle, StartTimer, StopTimer,
           StopProcessor, otherThanTimer, taskVars, timerVars, WhitelistTypeOK,
           TimerTypeOK, TimerState
  <1> QED
    BY <1>2, <1>3 DEF TasksInv

\* Every step of the processor keeps the invariant.
LEMMA NextKeepsTasks == TasksInv /\ [EPNext]_epVars => TasksInv'
  <1> SUFFICES ASSUME TasksInv, [EPNext]_epVars PROVE TasksInv'
    OBVIOUS
  <1>1. ASSUME NEW r \in Resources, NEW action, EventReceived(r, action)
        PROVE  TasksInv'
    BY <1>1, HandleEventKeepsTasks DEF EventReceived, TasksInv, EPTypeOK, TimerTypeOK
  <1>2. ASSUME NEW r \in Resources, TimerEventReceived(r)
        PROVE  TasksInv'
    BY <1>2, HandleEventKeepsTasks
       DEF TimerEventReceived, TasksInv, EPTypeOK, TimerTypeOK, TimerState
  <1>3. ASSUME NEW r \in Resources,
               \/ TimerFires(r) \/ WhitelistedEvent(r)
               \/ \E v \in Versions \cup {None} : CacheChange(r, v)
        PROVE  TasksInv'
    BY <1>3, EnvironmentKeepsTasks
  <1>4. ASSUME NEW t \in Threads, ProcessorStep(t)
        PROVE  TasksInv'
    BY <1>4, StartExecutionKeepsTasks, HandleExecutionKeepsTasks,
       ExecutionDiesKeepsTasks, EventProcessingFinishedKeepsTasks,
       PostponeReconciliationKeepsTasks DEF ProcessorStep
  <1>5. CASE TimerLifecycle \/ StopProcessor
    BY <1>5, EnvironmentKeepsTasks
  <1>6. CASE UNCHANGED epVars
    <2>1. Tasks'
      BY <1>6, TasksUntouched DEF TasksInv, epVars, taskVars
    <2>2. EPTypeOK'
      BY <1>6 DEF TasksInv, EPTypeOK, epVars, taskVars, timerVars,
                  WhitelistTypeOK, TimerTypeOK
    <2> QED
      BY <2>1, <2>2 DEF TasksInv
  <1> QED
    BY <1>1, <1>2, <1>3, <1>4, <1>5, <1>6 DEF EPNext
-------------------------------------------------------------------------------
\* The inductive invariant is one.
THEOREM TasksInvariant == EPSpec => []TasksInv
  <1>1. EPInit => TasksInv
    BY InitialTasks
  <1>2. TasksInv /\ [EPNext]_epVars => TasksInv'
    BY NextKeepsTasks
  <1> QED
    BY <1>1, <1>2, PTL DEF EPSpec

\* Every variable of the processor keeps its type.
THEOREM TypeCorrect == EPSpec => []EPTypeOK
  <1>1. TasksInv => EPTypeOK
    BY DEF TasksInv
  <1> QED
    BY <1>1, TasksInvariant, PTL

LEMMA TasksAreSerial == TasksInv => SerialExecution
  <1> SUFFICES ASSUME TasksInv PROVE SerialExecution
    OBVIOUS
  <1>1. DOMAIN queue = 1..Len(queue)
    BY LenProperties DEF TasksInv, EPTypeOK
  <1> QED
    BY <1>1 DEF TasksInv, Tasks, SerialExecution, Queued, RunningOn,
                QueueUnique, QueueApart, ThreadsUnique

\* The reconciler is never executed twice at a time for one custom resource,
\* and no second execution of it waits: whatever events arrive on whatever
\* threads, however executions end, and also after the processor is stopped
\* (submitReconciliationExecution and eventProcessingFinished).
THEOREM ExecutionIsSerial == EPSpec => []SerialExecution
  BY TasksAreSerial, TasksInvariant, PTL
-------------------------------------------------------------------------------
(***************************************************************************)
(* No resource is stuck.  The other half of NoStuckResource, that a task   *)
(* has a mark, is part of Tasks.                                           *)
(***************************************************************************)
HasTask(r) ==
    \/ \E i \in 1..Len(queue) : queue[i].res = r
    \/ \E t \in Threads : active[t] # None /\ t # lockHolder /\ active[t].res = r

MarkHasTask == running => \A r \in underProcessing : HasTask(r)

\* submitReconciliationExecution drops nothing from the queue, and marks only
\* the resource whose execution it adds, when the executor takes it.
LEMMA SubmissionQueues ==
    ASSUME EPTypeOK, ~RejectionsPossible,
           NEW r \in Resources,
           NEW up \in SUBSET Resources,
           NEW em, NEW rs \in [Resources -> Int],
           SubmitReconciliationExecution(r, up, em, rs)
    PROVE  /\ \A i \in 1..Len(queue) :
                 i \in 1..Len(queue') /\ queue'[i] = queue[i]
           /\ \A x \in underProcessing' :
                 x \in up \/ \E i \in 1..Len(queue') : queue'[i].res = x
  <1>1. CASE MaySubmit(r, up)
    <2> DEFINE scope == [res |-> r, version |-> cache[r], retry |-> rs[r]]
    <2>1. /\ underProcessing' = up \cup {r}
          /\ queue' = Append(queue, scope)
          /\ cache[r] # None
      BY <1>1 DEF SubmitReconciliationExecution, MaySubmit
    <2>2. scope \in ExecutionScope /\ scope.res = r
      BY <2>1 DEF ExecutionScope, EPTypeOK
    <2> HIDE DEF scope
    <2>3. /\ Len(queue) \in Nat
          /\ Len(queue') = Len(queue) + 1
          /\ \A i \in 1..Len(queue) : queue'[i] = queue[i]
          /\ queue'[Len(queue) + 1] = scope
      BY <2>1, <2>2, AppendProperties, LenProperties DEF EPTypeOK
    <2>4. Len(queue) + 1 \in 1..Len(queue')
      BY <2>3
    <2> QED
      BY <2>1, <2>2, <2>3, <2>4
  <1>2. CASE ~MaySubmit(r, up)
    BY <1>2 DEF SubmitReconciliationExecution, SkipExecution
  <1> QED
    BY <1>1, <1>2

\* Receiving an event leaves no mark without a task.
LEMMA HandleEventKeepsMarks ==
    ASSUME TasksInv, ~RejectionsPossible, MarkHasTask, NEW r \in Resources, NEW action,
           HandleEvent(r, action)
    PROVE  MarkHasTask'
  <1>1. UNCHANGED <<running, lockHolder, active>>
    BY DEF HandleEvent
  <1>2. CASE UNCHANGED <<underProcessing, queue>>
    BY <1>1, <1>2 DEF MarkHasTask, HasTask
  <1>3. CASE SubmitReconciliationExecution(r, underProcessing,
                 MarkEventReceived(eventingState, r), retryState)
    <2>1. /\ \A i \in 1..Len(queue) :
                i \in 1..Len(queue') /\ queue'[i] = queue[i]
          /\ \A x \in underProcessing' : x \in underProcessing
                \/ \E i \in 1..Len(queue') : queue'[i].res = x
      BY <1>3, SubmissionQueues DEF TasksInv, EPTypeOK
    <2> QED
      BY <1>1, <2>1 DEF MarkHasTask, HasTask
  <1> QED
    BY <1>2, <1>3 DEF HandleEvent

\* Taking an execution from the queue leaves no mark without a task.
LEMMA StartExecutionKeepsMarks ==
    ASSUME TasksInv, MarkHasTask, NEW t \in Threads, StartExecution(t)
    PROVE  MarkHasTask'
  <1>1. /\ active[t] = None /\ queue # <<>>
        /\ active' = [active EXCEPT ![t] = Head(queue)]
        /\ queue' = Tail(queue)
        /\ UNCHANGED <<running, lockHolder, underProcessing>>
    BY DEF StartExecution
  <1>2. /\ Len(queue) \in Nat
        /\ Head(queue) = queue[1] /\ queue[1] \in ExecutionScope
        /\ Len(queue') = Len(queue) - 1
        /\ \A i \in 1..Len(queue') : queue'[i] = queue[i + 1]
    BY <1>1, TakenFromQueue, LenProperties DEF TasksInv, EPTypeOK
  <1>3. /\ active'[t] = queue[1] /\ queue[1] # None
        /\ \A s \in Threads : s # t => active'[s] = active[s]
    BY <1>1, <1>2, NoTaskAssumption DEF TasksInv, EPTypeOK
  <1>4. lockHolder # t
    BY <1>1, NoneAssumption DEF TasksInv, Tasks, PostponedUnmarked
  <1> SUFFICES ASSUME running, NEW r \in underProcessing PROVE HasTask(r)'
    BY <1>1 DEF MarkHasTask
  <1>5. CASE \E i \in 1..Len(queue) : queue[i].res = r
    <2>1. PICK i \in 1..Len(queue) : queue[i].res = r
      BY <1>5
    <2>2. CASE i = 1
      BY <1>1, <1>3, <1>4, <2>1, <2>2 DEF HasTask
    <2>3. CASE i # 1
      <3>1. i - 1 \in 1..Len(queue') /\ queue'[i - 1] = queue[i]
        BY <1>2, <2>3
      <3> QED
        BY <2>1, <3>1 DEF HasTask
    <2> QED
      BY <2>2, <2>3
  <1>6. CASE \E s \in Threads : active[s] # None /\ s # lockHolder /\ active[s].res = r
    BY <1>1, <1>3, <1>6 DEF HasTask
  <1> QED
    BY <1>5, <1>6 DEF MarkHasTask, HasTask

\* Finishing an execution, up to the postponement, leaves no mark without a
\* task.
LEMMA FinishedKeepsMarks ==
    ASSUME TasksInv, MarkHasTask, NEW t \in Threads, lockHolder = None,
           result[t] # None, UNCHANGED running,
           \A i \in 1..Len(queue) : i \in 1..Len(queue') /\ queue'[i] = queue[i],
           running => \A x \in underProcessing' :
               \/ x \in UnsetUnderExecution(active[t].res)
               \/ \E i \in 1..Len(queue') : queue'[i].res = x,
           \/ ThreadDone(t) /\ lockHolder' = None
           \/ lockHolder' = t /\ UNCHANGED active
    PROVE  MarkHasTask'
  <1> SUFFICES ASSUME running, NEW x \in UnsetUnderExecution(active[t].res)
               PROVE  HasTask(x)'
    BY DEF MarkHasTask, HasTask
  <1>1. x \in underProcessing /\ x # active[t].res
    BY DEF UnsetUnderExecution
  <1>2. CASE \E i \in 1..Len(queue) : queue[i].res = x
    BY <1>2 DEF HasTask
  <1>3. CASE \E s \in Threads : active[s] # None /\ active[s].res = x
    <2>1. PICK s \in Threads : active[s] # None /\ active[s].res = x
      BY <1>3
    <2>2. s # t
      BY <1>1, <2>1
    <2>3. active'[s] = active[s] /\ s # lockHolder'
      BY <2>2, NoneAssumption DEF ThreadDone, TasksInv, EPTypeOK
    <2> QED
      BY <2>1, <2>3 DEF HasTask
  <1> QED
    BY <1>1, <1>2, <1>3 DEF MarkHasTask, HasTask

\* eventProcessingFinished leaves no mark without a task.
LEMMA EventProcessingFinishedKeepsMarks ==
    ASSUME TasksInv, ~RejectionsPossible, MarkHasTask, NEW t \in Threads, EventProcessingFinished(t)
    PROVE  MarkHasTask'
  <1> DEFINE r == active[t].res
  <1> DEFINE up == UnsetUnderExecution(r)
  <1>1. /\ EPTypeOK
        /\ lockHolder = None /\ result[t] # None
        /\ UNCHANGED <<running, cache, whiteList, timerState, timerThread>>
    BY DEF EventProcessingFinished, TasksInv
  <1>2. active[t] # None /\ active[t] \in ExecutionScope /\ r \in Resources
    BY <1>1 DEF TasksInv, Tasks, ResultOfTask, EPTypeOK, ExecutionScope
  <1>3. up \in SUBSET Resources
    BY <1>1 DEF UnsetUnderExecution, EPTypeOK
  <1>4. ASSUME NEW em, NEW rs \in [Resources -> Int],
               SubmitReconciliationExecution(r, up, em, rs),
               ThreadDone(t) /\ lockHolder' = None
        PROVE  MarkHasTask'
    <2>1. /\ \A i \in 1..Len(queue) :
                i \in 1..Len(queue') /\ queue'[i] = queue[i]
          /\ \A x \in underProcessing' :
                x \in up \/ \E i \in 1..Len(queue') : queue'[i].res = x
      <3> HIDE DEF r, up
      <3> QED
        BY <1>1, <1>2, <1>3, <1>4, SubmissionQueues
    <2> QED
      BY <1>1, <1>4, <2>1, FinishedKeepsMarks
  <1>5. CASE /\ UNCHANGED queue
             /\ ~running \/ underProcessing' = up
             /\ \/ ThreadDone(t) /\ lockHolder' = None
                \/ lockHolder' = t /\ UNCHANGED active
    BY <1>1, <1>5, FinishedKeepsMarks
  <1>6. CASE ~AcceptsEvents
    BY <1>1, <1>5, <1>6 DEF EventProcessingFinished, AcceptsEvents
  <1>7. CASE HandleRetryOnException(t, r)
    <2>1. GetOrInitRetry(retryState, r) \in [Resources -> Int]
      BY <1>1, <1>2, RetryTypes
    <2> QED
      BY <1>1, <1>4, <1>5, <1>7, <2>1 DEF HandleRetryOnException
  <1>8. CASE FinishWithoutRetry(t, r)
    <2>1. ForgetRetry(r) \in [Resources -> Int]
      BY <1>1, <1>2, RetryTypes
    <2> QED
      BY <1>1, <1>4, <1>5, <1>8, <2>1 DEF FinishWithoutRetry
  <1> QED
    BY <1>6, <1>7, <1>8 DEF EventProcessingFinished

\* The end of the postponement leaves no mark without a task.
LEMMA PostponeReconciliationKeepsMarks ==
    ASSUME TasksInv, MarkHasTask, NEW t \in Threads, PostponeReconciliation(t)
    PROVE  MarkHasTask'
  <1>1. /\ lockHolder = t /\ lockHolder' = None
        /\ UNCHANGED <<running, underProcessing, queue>>
        /\ \A s \in Threads : s # t => active'[s] = active[s] /\ s # lockHolder'
    BY NoneAssumption DEF PostponeReconciliation, ThreadDone, TasksInv, EPTypeOK
  <1> QED
    BY <1>1 DEF MarkHasTask, HasTask

\* When no Error is thrown and no execution rejected, every step leaves no mark
\* without a task.
LEMMA NextKeepsMarks ==
    ASSUME ~ErrorsPossible, ~RejectionsPossible
    PROVE  TasksInv /\ MarkHasTask /\ [EPNext]_epVars => MarkHasTask'
  <1> SUFFICES ASSUME TasksInv, MarkHasTask, [EPNext]_epVars PROVE MarkHasTask'
    OBVIOUS
  <1>1. ASSUME NEW r \in Resources,
               \/ \E action \in {"DELETED", "OTHER"} : EventReceived(r, action)
               \/ TimerEventReceived(r)
        PROVE  MarkHasTask'
    BY <1>1, HandleEventKeepsMarks DEF EventReceived, TimerEventReceived
  <1>2. ASSUME NEW t \in Threads, ProcessorStep(t)
        PROVE  MarkHasTask'
    <2>1. ASSUME NEW p, HandleExecution(t, p) PROVE MarkHasTask'
      BY <2>1 DEF HandleExecution, MarkHasTask, HasTask
    <2>2. ~ExecutionDies(t)
      BY DEF ExecutionDies
    <2> QED
      BY <1>2, <2>1, <2>2, StartExecutionKeepsMarks,
         EventProcessingFinishedKeepsMarks, PostponeReconciliationKeepsMarks
         DEF ProcessorStep
  <1>3. CASE \/ \E r \in Resources :
                   \/ TimerFires(r) \/ WhitelistedEvent(r)
                   \/ \E v \in Versions \cup {None} : CacheChange(r, v)
             \/ TimerLifecycle
             \/ StopProcessor
             \/ UNCHANGED epVars
    <2>1. /\ UNCHANGED <<lockHolder, underProcessing, queue, active>>
          /\ running' = running \/ running' = FALSE
      BY <1>3 DEF TimerFires, WhitelistedEvent, CacheChange, TimerLifecycle,
                  StopProcessor, otherThanTimer, taskVars, epVars
    <2> QED
      BY <2>1 DEF MarkHasTask, HasTask
  <1> QED
    BY <1>1, <1>2, <1>3 DEF EPNext

LEMMA MarksAreTasks == TasksInv /\ MarkHasTask => NoStuckResource
  <1> SUFFICES ASSUME TasksInv, MarkHasTask, running
               PROVE  underProcessing = {r \in Resources :
                          Queued(r) # {} \/ RunningOn(r) \ {lockHolder} # {}}
    BY DEF NoStuckResource
  <1>1. DOMAIN queue = 1..Len(queue) /\ underProcessing \subseteq Resources
    BY LenProperties DEF TasksInv, EPTypeOK
  <1>2. ASSUME NEW r \in Resources
        PROVE  Queued(r) # {} \/ RunningOn(r) \ {lockHolder} # {} <=> HasTask(r)
    BY <1>1 DEF Queued, RunningOn, HasTask
  <1>3. ASSUME NEW r \in Resources, HasTask(r)
        PROVE  r \in underProcessing
    BY <1>3 DEF HasTask, TasksInv, Tasks, QueueMarked, ThreadsMarked
  <1>4. \A r \in underProcessing : HasTask(r)
    BY DEF MarkHasTask
  <1> QED
    BY <1>1, <1>2, <1>3, <1>4

\* While the processor runs, a resource is under processing exactly when an
\* execution of it is queued, or is on a thread that is not done with it: no
\* event of a resource is ever blocked by a mark that nobody will remove
\* (setUnderExecutionProcessing, unsetUnderExecution).  An Error thrown by a
\* reconciler, or an executor that was shut down, would leave such a mark.
THEOREM NoResourceIsStuck ==
    ~ErrorsPossible /\ ~RejectionsPossible /\ EPSpec => []NoStuckResource
  <1> SUFFICES ASSUME ~ErrorsPossible, ~RejectionsPossible
               PROVE  EPSpec => []NoStuckResource
    OBVIOUS
  <1>1. EPInit => MarkHasTask
    BY DEF EPInit, MarkHasTask
  <1>2. TasksInv /\ MarkHasTask /\ [EPNext]_epVars => MarkHasTask'
    BY NextKeepsMarks
  <1> QED
    BY <1>1, <1>2, MarksAreTasks, TasksInvariant, PTL DEF EPSpec
-------------------------------------------------------------------------------
\* When no cleanup throws, a delete event never stays marked: the step that
\* marks it also removes the mark.
DeleteMarkIsTransient == \A r \in Resources : ~DeleteEventPresent(eventingState, r)

\* The operations of the marker leave no delete mark where there was none.
LEMMA NoDeleteMarkIsKept ==
    ASSUME NEW es \in [Resources -> EventingState], NEW r \in Resources,
           \A x \in Resources : ~DeleteEventPresent(es, x)
    PROVE  \A x \in Resources :
              /\ ~DeleteEventPresent(MarkEventReceived(es, r), x)
              /\ ~DeleteEventPresent(UnMarkEventReceived(es, r), x)
              /\ ~DeleteEventPresent(UnMarkEventReceived(MarkEventReceived(es, r), r), x)
              /\ ~DeleteEventPresent(CleanupMarker(es, r), x)
              /\ ~DeleteEventPresent(CleanupMarker(MarkDeleteEventReceived(es, r), r), x)
  BY DEF DeleteEventPresent, MarkEventReceived, UnMarkEventReceived,
         CleanupMarker, MarkDeleteEventReceived, EventingState

LEMMA NextKeepsNoDeleteMark ==
    ASSUME ~CleanupMayThrow
    PROVE  TasksInv /\ DeleteMarkIsTransient /\ [EPNext]_epVars
               => DeleteMarkIsTransient'
  <1> SUFFICES ASSUME TasksInv, DeleteMarkIsTransient, [EPNext]_epVars
               PROVE  DeleteMarkIsTransient'
    OBVIOUS
  <1>1. /\ eventingState \in [Resources -> EventingState]
        /\ \A x \in Resources : ~DeleteEventPresent(eventingState, x)
    BY DEF TasksInv, EPTypeOK, DeleteMarkIsTransient
  <1>2. ASSUME NEW r \in Resources, NEW action, HandleEvent(r, action)
        PROVE  DeleteMarkIsTransient'
    <2>1. eventingState' \in
             {eventingState,
              CleanupMarker(MarkDeleteEventReceived(eventingState, r), r),
              MarkEventReceived(eventingState, r),
              UnMarkEventReceived(MarkEventReceived(eventingState, r), r)}
      BY <1>2 DEF HandleEvent, SubmitReconciliationExecution, SkipExecution,
                  CleanupForDeletedEvent
    <2> QED
      BY <1>1, <2>1, NoDeleteMarkIsKept DEF DeleteMarkIsTransient
  <1>3. ASSUME NEW t \in Threads, EventProcessingFinished(t)
        PROVE  DeleteMarkIsTransient'
    <2> DEFINE r == active[t].res
    <2>1. r \in Resources
      BY <1>3 DEF EventProcessingFinished, TasksInv, Tasks, ResultOfTask,
                  EPTypeOK, ExecutionScope
    <2>2. eventingState' \in
             {eventingState,
              CleanupMarker(eventingState, r),
              UnMarkEventReceived(eventingState, r),
              MarkEventReceived(eventingState, r),
              UnMarkEventReceived(MarkEventReceived(eventingState, r), r)}
      BY <1>3 DEF EventProcessingFinished, HandleRetryOnException,
                  FinishWithoutRetry, SubmitReconciliationExecution, SkipExecution,
                  CleanupForDeletedEvent
    <2> HIDE DEF r
    <2> QED
      BY <1>1, <2>1, <2>2, NoDeleteMarkIsKept DEF DeleteMarkIsTransient
  <1>4. CASE UNCHANGED eventingState
    BY <1>4 DEF DeleteMarkIsTransient, DeleteEventPresent
  <1> QED
    BY <1>2, <1>3, <1>4
       DEF EPNext, EventReceived, TimerEventReceived, TimerFires,
           WhitelistedEvent, CacheChange, TimerLifecycle, StopProcessor,
           ProcessorStep, StartExecution, HandleExecution, ExecutionDies,
           PostponeReconciliation, otherThanTimer, epVars

-------------------------------------------------------------------------------
(***************************************************************************)
(* What a step of the event processor may do to events, to retries and     *)
(* after a stop.  The arguments rest on TasksInv: the handler that ends an *)
(* execution changes the retry state and the mark of its resource only,    *)
(* and no other task is of it.                                             *)
(***************************************************************************)
\* submitReconciliationExecution either appends one execution, built from the
\* cache and the retry state, and unmarks the event, or it changes neither, or
\* the execution is rejected.
LEMMA SubmissionEffect ==
    ASSUME EPTypeOK,
           NEW r \in Resources, NEW up, NEW em,
           NEW rs \in [Resources -> Int],
           SubmitReconciliationExecution(r, up, em, rs)
    PROVE  \/ /\ Len(queue') = Len(queue) + 1
              /\ \A i \in 1..Len(queue) : queue'[i] = queue[i]
              /\ queue'[Len(queue')].res = r
              /\ queue'[Len(queue')].version = cache[r] /\ cache[r] # None
              /\ queue'[Len(queue')].retry = rs[r]
              /\ eventingState' = UnMarkEventReceived(em, r)
           \/ queue' = queue /\ eventingState' = em
           \/ /\ RejectionsPossible
              /\ queue' = queue
              /\ eventingState' = UnMarkEventReceived(em, r)
  <1>1. CASE MaySubmit(r, up)
    <2> DEFINE scope == [res |-> r, version |-> cache[r], retry |-> rs[r]]
    <2>1. /\ queue' = Append(queue, scope)
                \/ (RejectionsPossible = TRUE /\ queue' = queue)
          /\ eventingState' = UnMarkEventReceived(em, r)
          /\ cache[r] # None
      BY <1>1, ErrorsAssumption DEF SubmitReconciliationExecution, MaySubmit
    <2>2. /\ scope \in ExecutionScope
          /\ scope.res = r /\ scope.version = cache[r] /\ scope.retry = rs[r]
      BY <2>1 DEF ExecutionScope, EPTypeOK
    <2> HIDE DEF scope
    <2>3. CASE queue' = Append(queue, scope)
      <3>1. /\ Len(queue) \in Nat
            /\ Len(queue') = Len(queue) + 1
            /\ \A i \in 1..Len(queue) : queue'[i] = queue[i]
            /\ queue'[Len(queue) + 1] = scope
        BY <2>2, <2>3, AppendProperties, LenProperties DEF EPTypeOK
      <3> QED
        BY <2>1, <2>2, <3>1
    <2>4. CASE RejectionsPossible /\ queue' = queue
      BY <2>1, <2>4
    <2> QED
      BY <2>1, <2>3, <2>4
  <1>2. CASE ~MaySubmit(r, up)
    BY <1>2 DEF SubmitReconciliationExecution, SkipExecution
  <1> QED
    BY <1>1, <1>2

\* A finished execution is of a resource.
LEMMA FinishedTask ==
    ASSUME TasksInv, NEW t \in Threads, result[t] # None
    PROVE  /\ active[t] \in ExecutionScope
           /\ active[t] # None
           /\ active[t].res \in Resources
  BY DEF TasksInv, EPTypeOK, Tasks, ResultOfTask, ExecutionScope
-------------------------------------------------------------------------------
\* Nothing starts after the stop: events and results that arrive when running
\* is cleared queue no execution and schedule no task, and running is never
\* set again (handleEvent and eventProcessingFinished, lines 78-81, 154-156).
THEOREM NothingStartsAfterStop == EPSpec => StoppedStartsNothing
  <1>1. TasksInv /\ [EPNext]_epVars =>
            [~running => /\ Len(queue') <= Len(queue)
                         /\ onceTasks' \subseteq onceTasks
                         /\ ~running']_epVars
    <2> SUFFICES ASSUME TasksInv, EPNext, ~running
                 PROVE  /\ Len(queue') <= Len(queue)
                        /\ onceTasks' \subseteq onceTasks
                        /\ ~running'
      OBVIOUS
    <2>1. queue \in Seq(ExecutionScope) /\ Len(queue) \in Nat
      BY LenProperties DEF TasksInv, EPTypeOK
    <2>2. CASE UNCHANGED <<queue, onceTasks, running>>
      BY <2>1, <2>2
    <2>3. ASSUME NEW r \in Resources, NEW action, HandleEvent(r, action)
          PROVE  UNCHANGED <<queue, onceTasks, running>>
      BY <2>3 DEF HandleEvent, AcceptsEvents
    <2>4. ASSUME NEW t \in Threads, StartExecution(t)
          PROVE  Len(queue') <= Len(queue) /\ UNCHANGED <<onceTasks, running>>
      BY <2>1, <2>4, TakenFromQueue DEF StartExecution, timerVars
    <2>5. ASSUME NEW t \in Threads, EventProcessingFinished(t)
          PROVE  UNCHANGED <<queue, onceTasks, running>>
      BY <2>5 DEF EventProcessingFinished, AcceptsEvents
    <2>6. ASSUME NEW t \in Threads, NEW p,
                 \/ HandleExecution(t, p)
                 \/ ExecutionDies(t) \/ PostponeReconciliation(t)
          PROVE  UNCHANGED <<queue, onceTasks, running>>
      BY <2>6 DEF HandleExecution, ExecutionDies, PostponeReconciliation, timerVars
    <2>7. CASE \/ \E r \in Resources :
                     \/ TimerFires(r) \/ WhitelistedEvent(r)
                     \/ \E v \in Versions \cup {None} : CacheChange(r, v)
               \/ TimerLifecycle
               \/ StopProcessor
      <3>1. queue' = queue /\ onceTasks' \subseteq onceTasks /\ ~running'
        BY <2>7 DEF TimerFires, FireTimer, WhitelistedEvent, CacheChange,
                    TimerLifecycle, StartTimer, StopTimer, StopProcessor,
                    otherThanTimer, taskVars, timerVars
      <3> QED
        BY <2>1, <3>1
    <2> QED
      BY <2>2, <2>3, <2>4, <2>5, <2>6, <2>7
         DEF EPNext, EventReceived, TimerEventReceived, ProcessorStep
  <1> QED
    BY <1>1, TasksInvariant, PTL DEF EPSpec, StoppedStartsNothing
-------------------------------------------------------------------------------
\* What a step does to a resource whose delete event stays marked.
NothingStarts(r) ==
    /\ ~EventPresent(eventingState', r)
    /\ r \in onceTasks' => r \in onceTasks
    /\ \A i \in 1..Len(queue') :
          queue'[i].res = r => \E j \in 1..Len(queue) : queue[j] = queue'[i]

\* An update of the marker at one resource leaves the delete mark of another,
\* and the handling of a delete event makes no other event of it.
LEMMA DeleteMarkStays ==
    ASSUME NEW es \in [Resources -> EventingState], NEW x \in Resources,
           NEW r \in Resources, DeleteEventPresent(es, r)
    PROVE  /\ ~EventPresent(es, r)
           /\ ~EventPresent(MarkDeleteEventReceived(es, x), r)
           /\ ~EventPresent(CleanupMarker(es, x), r)
           /\ ~EventPresent(CleanupMarker(MarkDeleteEventReceived(es, x), x), r)
           /\ ~EventPresent(UnMarkEventReceived(es, x), r)
           /\ x # r => /\ ~EventPresent(MarkEventReceived(es, x), r)
                       /\ ~EventPresent(UnMarkEventReceived(
                                            MarkEventReceived(es, x), x), r)
  BY DEF DeleteEventPresent, EventPresent, MarkEventReceived, CleanupMarker,
         UnMarkEventReceived, MarkDeleteEventReceived, EventingState

\* A submission for another resource, or with the marker as it is, starts nothing
\* for this one.
LEMMA SubmissionOfAnother ==
    ASSUME TasksInv, NEW x \in Resources, NEW up \in SUBSET Resources,
           NEW em \in {eventingState, MarkEventReceived(eventingState, x)},
           NEW rs \in [Resources -> Int],
           SubmitReconciliationExecution(x, up, em, rs),
           NEW r \in Resources, r # x, DeleteEventPresent(eventingState, r),
           r \in onceTasks' => r \in onceTasks
    PROVE  NothingStarts(r)
  <1>1. EPTypeOK /\ Len(queue) \in Nat
    BY LenProperties DEF TasksInv, EPTypeOK
  <1>2. /\ \/ /\ Len(queue') = Len(queue) + 1
              /\ \A i \in 1..Len(queue) : queue'[i] = queue[i]
              /\ queue'[Len(queue')].res = x
           \/ queue' = queue
        /\ eventingState' \in {em, UnMarkEventReceived(em, x)}
    BY <1>1, SubmissionEffect
  <1>3. ~EventPresent(eventingState', r)
    BY <1>1, <1>2, DeleteMarkStays DEF EPTypeOK
  <1>4. ASSUME NEW i \in 1..Len(queue'), queue'[i].res = r
        PROVE  \E j \in 1..Len(queue) : queue[j] = queue'[i]
    BY <1>1, <1>2, <1>4
  <1> QED
    BY <1>3, <1>4 DEF NothingStarts

\* handleEvent starts nothing for a resource whose delete event is marked.
LEMMA HandleEventStartsNothing ==
    ASSUME TasksInv, NEW x \in Resources, NEW action, HandleEvent(x, action),
           NEW r \in Resources, DeleteEventPresent(eventingState, r)
    PROVE  NothingStarts(r)
  <1>1. /\ EPTypeOK
        /\ eventingState \in [Resources -> EventingState]
        /\ underProcessing \in SUBSET Resources
        /\ retryState \in [Resources -> Int]
    BY DEF TasksInv, EPTypeOK
  <1>2. CASE UNCHANGED <<eventingState, queue, onceTasks>>
    BY <1>1, <1>2, DeleteMarkStays DEF NothingStarts
  <1>3. CASE CleanupForDeletedEvent(x, MarkDeleteEventReceived(eventingState, x),
                                    onceTasks) /\ UNCHANGED queue
    <2>1. /\ eventingState' \in
               {CleanupMarker(MarkDeleteEventReceived(eventingState, x), x),
                MarkDeleteEventReceived(eventingState, x)}
          /\ onceTasks' \subseteq onceTasks
      BY <1>3 DEF CleanupForDeletedEvent, CancelOnceSchedule
    <2> QED
      BY <1>1, <1>3, <2>1, DeleteMarkStays DEF NothingStarts
  <1>4. CASE /\ ~DeleteEventPresent(eventingState, x)
             /\ SubmitReconciliationExecution(x, underProcessing,
                    MarkEventReceived(eventingState, x), retryState)
             /\ UNCHANGED onceTasks
    BY <1>1, <1>4, SubmissionOfAnother
  <1> QED
    BY <1>2, <1>3, <1>4 DEF HandleEvent

\* eventProcessingFinished starts nothing for a resource whose delete event is
\* marked: its own failure is not retried.
LEMMA FinishedStartsNothing ==
    ASSUME TasksInv, NEW t \in Threads, EventProcessingFinished(t),
           NEW r \in Resources, DeleteEventPresent(eventingState, r)
    PROVE  NothingStarts(r)
  <1> DEFINE x == active[t].res
  <1> DEFINE up == UnsetUnderExecution(x)
  <1>1. /\ EPTypeOK
        /\ eventingState \in [Resources -> EventingState]
        /\ up \in SUBSET Resources
        /\ result[t] # None
    BY DEF TasksInv, EPTypeOK, EventProcessingFinished, UnsetUnderExecution
  <1>2. x \in Resources
    BY <1>1, FinishedTask
  <1>3. CASE UNCHANGED <<eventingState, queue, onceTasks>>
    BY <1>1, <1>3, DeleteMarkStays DEF NothingStarts
  <1>4. CASE ~DeleteEventPresent(eventingState, x) /\ HandleRetryOnException(t, x)
    <2>1. GetOrInitRetry(retryState, x) \in [Resources -> Int]
      BY <1>1, <1>2, RetryTypes
    <2>2. x # r /\ (r \in onceTasks' => r \in onceTasks)
      BY <1>4 DEF HandleRetryOnException, ScheduleOnce
    <2>3. CASE SubmitReconciliationExecution(x, up,
                  MarkEventReceived(eventingState, x), GetOrInitRetry(retryState, x))
      <3> HIDE DEF x, up
      <3> QED
        BY <1>1, <1>2, <2>1, <2>2, <2>3, SubmissionOfAnother
    <2>4. CASE /\ eventingState' = MarkEventReceived(eventingState, x)
               /\ UNCHANGED queue
      <3> HIDE DEF x, up
      <3> QED
        BY <1>1, <1>2, <2>2, <2>4, DeleteMarkStays DEF NothingStarts
    <2> QED
      BY <1>4, <2>3, <2>4 DEF HandleRetryOnException
  <1>5. CASE FinishWithoutRetry(t, x)
    <2>1. ForgetRetry(x) \in [Resources -> Int]
      BY <1>1, <1>2, RetryTypes
    <2>2. CASE DeleteEventPresent(eventingState, x)
      <3>1. /\ eventingState' \in {CleanupMarker(eventingState, x), eventingState}
            /\ onceTasks' \subseteq onceTasks
            /\ queue' = queue
        BY <1>5, <2>2 DEF FinishWithoutRetry, CleanupForDeletedEvent,
                          CancelOnceSchedule, DeleteEventPresent, EventPresent
      <3> HIDE DEF x, up
      <3> QED
        BY <1>1, <1>2, <3>1, DeleteMarkStays DEF NothingStarts
    <2>3. CASE ~DeleteEventPresent(eventingState, x)
      <3>1. x # r /\ (r \in onceTasks' => r \in onceTasks)
        BY <1>5, <2>3 DEF FinishWithoutRetry, CancelOnceSchedule, ScheduleOnce
      <3>2. CASE SubmitReconciliationExecution(x, up, eventingState, ForgetRetry(x))
        <4> HIDE DEF x, up
        <4> QED
          BY <1>1, <1>2, <2>1, <3>1, <3>2, SubmissionOfAnother
      <3>3. CASE UNCHANGED <<eventingState, queue>>
        BY <1>1, <3>1, <3>3, <1>2, DeleteMarkStays DEF NothingStarts
      <3> QED
        BY <1>5, <2>3, <3>2, <3>3 DEF FinishWithoutRetry
    <2> QED
      BY <2>2, <2>3
  <1> QED
    BY <1>3, <1>4, <1>5 DEF EventProcessingFinished, IsRetried

\* A delete event whose cleanup has thrown stays marked, and while it does,
\* nothing starts for its resource: no event, no timer and no failed execution
\* makes an execution or a retry of it (EventProcessor.java:112-116, 179-191).
THEOREM DeletedResourceStartsNothing == EPSpec => DeletedStartsNothing
  <1>1. TasksInv /\ [EPNext]_epVars =>
            [\A r \in Resources :
                DeleteEventPresent(eventingState, r) => NothingStarts(r)]_epVars
    <2> SUFFICES ASSUME TasksInv, EPNext, NEW r \in Resources,
                        DeleteEventPresent(eventingState, r)
                 PROVE  NothingStarts(r)
      OBVIOUS
    <2>1. /\ eventingState \in [Resources -> EventingState]
          /\ queue \in Seq(ExecutionScope)
      BY DEF TasksInv, EPTypeOK
    <2>2. CASE UNCHANGED <<eventingState, queue>> /\ onceTasks' \subseteq onceTasks
      BY <2>1, <2>2, DeleteMarkStays DEF NothingStarts
    <2>3. ASSUME NEW t \in Threads, StartExecution(t)
          PROVE  NothingStarts(r)
      <3>1. /\ UNCHANGED <<eventingState, onceTasks>>
            /\ queue # <<>> /\ queue' = Tail(queue)
        BY <2>3 DEF StartExecution, timerVars
      <3>2. \A i \in 1..Len(queue') :
               i + 1 \in 1..Len(queue) /\ queue'[i] = queue[i + 1]
        BY <2>1, <3>1, TakenFromQueue
      <3> QED
        BY <2>1, <3>1, <3>2, DeleteMarkStays DEF NothingStarts
    <2>4. ASSUME NEW x \in Resources, NEW action,
                 EventReceived(x, action) \/ TimerEventReceived(x)
          PROVE  NothingStarts(r)
      BY <2>4, HandleEventStartsNothing DEF EventReceived, TimerEventReceived
    <2>5. ASSUME NEW t \in Threads, ProcessorStep(t)
          PROVE  NothingStarts(r)
      BY <2>2, <2>3, <2>5, FinishedStartsNothing
         DEF ProcessorStep, HandleExecution, ExecutionDies, PostponeReconciliation,
             timerVars
    <2>6. CASE \/ \E x \in Resources :
                     \/ TimerFires(x) \/ WhitelistedEvent(x)
                     \/ \E v \in Versions \cup {None} : CacheChange(x, v)
               \/ TimerLifecycle
               \/ StopProcessor
      <3>1. UNCHANGED <<eventingState, queue>> /\ onceTasks' \subseteq onceTasks
        BY <2>6 DEF TimerFires, FireTimer, WhitelistedEvent, CacheChange,
                    TimerLifecycle, StartTimer, StopTimer, StopProcessor,
                    otherThanTimer, taskVars, timerVars
      <3> QED
        BY <2>2, <3>1
    <2> QED
      BY <2>4, <2>5, <2>6 DEF EPNext
  <1>2. TasksInv /\ TasksInv' =>
           /\ DOMAIN queue = 1..Len(queue)
           /\ DOMAIN queue' = 1..Len(queue')
    <2> SUFFICES ASSUME TasksInv, TasksInv'
                 PROVE  /\ DOMAIN queue = 1..Len(queue)
                        /\ DOMAIN queue' = 1..Len(queue')
      OBVIOUS
    <2>1. queue \in Seq(ExecutionScope) /\ queue' \in Seq(ExecutionScope)
      BY DEF TasksInv, EPTypeOK
    <2> QED
      BY <2>1, LenProperties
  <1>3. TasksInv /\ TasksInv' /\ [EPNext]_epVars =>
            [\A r \in Resources :
                DeleteEventPresent(eventingState, r)
                => /\ ~EventPresent(eventingState', r)
                   /\ r \in onceTasks' => r \in onceTasks
                   /\ \A i \in DOMAIN queue' : queue'[i].res = r =>
                          \E j \in DOMAIN queue : queue[j] = queue'[i]]_epVars
    BY <1>1, <1>2 DEF NothingStarts
  <1> QED
    BY <1>3, TasksInvariant, PTL DEF EPSpec, DeletedStartsNothing
-------------------------------------------------------------------------------
\* What the step just taken makes of an event of r that it has forgotten.
BecomesExecution(r) ==
    /\ Len(queue') = Len(queue) + 1
    /\ queue'[Len(queue')].res = r
    /\ queue'[Len(queue')].version = cache[r]

Forgotten(r) == EventPresent(eventingState, r) /\ ~EventPresent(eventingState', r)

\* An update of the marker at one resource forgets no event of another.
LEMMA MarkerTouchesOneResource ==
    ASSUME NEW es \in [Resources -> EventingState], NEW x \in Resources,
           NEW r \in Resources, EventPresent(es, r)
    PROVE  /\ EventPresent(MarkEventReceived(es, x), r)
           /\ r # x => /\ EventPresent(UnMarkEventReceived(es, x), r)
                       /\ EventPresent(UnMarkEventReceived(
                                           MarkEventReceived(es, x), x), r)
                       /\ EventPresent(CleanupMarker(es, x), r)
                       /\ EventPresent(MarkDeleteEventReceived(es, x), r)
                       /\ EventPresent(CleanupMarker(
                                           MarkDeleteEventReceived(es, x), x), r)
  BY DEF EventPresent, MarkEventReceived, UnMarkEventReceived, CleanupMarker,
         MarkDeleteEventReceived, EventingState

\* handleEvent, for any event that is not of a deletion, forgets an event only
\* by queueing an execution.
LEMMA HandleEventForgetsNothing ==
    ASSUME TasksInv, ~RejectionsPossible, NEW x \in Resources, NEW action, action # "DELETED",
           HandleEvent(x, action), NEW r \in Resources, Forgotten(r)
    PROVE  BecomesExecution(r)
  <1> DEFINE em == MarkEventReceived(eventingState, x)
  <1>1. /\ EPTypeOK
        /\ eventingState \in [Resources -> EventingState]
        /\ retryState \in [Resources -> Int]
        /\ EventPresent(eventingState, r)
        /\ ~EventPresent(eventingState', r)
    BY DEF TasksInv, EPTypeOK, Forgotten
  <1>2. CASE ~AcceptsEvents
    BY <1>1, <1>2 DEF HandleEvent
  <1>3. CASE AcceptsEvents /\ DeleteEventPresent(eventingState, x)
    <2>1. r # x
      BY <1>1, <1>3 DEF EventPresent, DeleteEventPresent
    <2>2. eventingState' \in
             {CleanupMarker(MarkDeleteEventReceived(eventingState, x), x),
              MarkDeleteEventReceived(eventingState, x)}
      BY <1>3 DEF HandleEvent, CleanupForDeletedEvent
    <2> QED
      BY <1>1, <2>1, <2>2, MarkerTouchesOneResource
  <1>4. CASE SubmitReconciliationExecution(x, underProcessing, em, retryState)
    <2>1. \/ /\ Len(queue') = Len(queue) + 1
             /\ queue'[Len(queue')].res = x
             /\ queue'[Len(queue')].version = cache[x]
             /\ eventingState' = UnMarkEventReceived(em, x)
          \/ eventingState' = em
      <3> HIDE DEF em
      <3> QED
        BY <1>1, <1>4, SubmissionEffect
    <2>2. r = x
      BY <1>1, <2>1, MarkerTouchesOneResource
    <2> QED
      BY <1>1, <2>1, <2>2, MarkerTouchesOneResource DEF BecomesExecution
  <1> QED
    BY <1>2, <1>3, <1>4 DEF HandleEvent

\* eventProcessingFinished forgets an event only by queueing an execution.
LEMMA FinishedForgetsNothing ==
    ASSUME TasksInv, ~RejectionsPossible, NEW t \in Threads, EventProcessingFinished(t),
           NEW r \in Resources, Forgotten(r)
    PROVE  BecomesExecution(r)
  <1> DEFINE x == active[t].res
  <1> DEFINE up == UnsetUnderExecution(x)
  <1>1. /\ EPTypeOK
        /\ eventingState \in [Resources -> EventingState]
        /\ EventPresent(eventingState, r)
        /\ ~EventPresent(eventingState', r)
        /\ result[t] # None
    BY DEF TasksInv, EPTypeOK, Forgotten, EventProcessingFinished
  <1>2. x \in Resources
    BY <1>1, FinishedTask
  <1>3. ASSUME NEW em, em \in {eventingState, MarkEventReceived(eventingState, x)},
               NEW rs \in [Resources -> Int],
               SubmitReconciliationExecution(x, up, em, rs)
        PROVE  BecomesExecution(r)
    <2>1. \/ /\ Len(queue') = Len(queue) + 1
             /\ queue'[Len(queue')].res = x
             /\ queue'[Len(queue')].version = cache[x]
             /\ eventingState' = UnMarkEventReceived(em, x)
          \/ eventingState' = em
      <3> HIDE DEF x, up
      <3> QED
        BY <1>1, <1>2, <1>3, SubmissionEffect
    <2> HIDE DEF x, up
    <2> QED
      BY <1>1, <1>2, <1>3, <2>1, MarkerTouchesOneResource DEF BecomesExecution
  <1>4. /\ eventingState' # eventingState
        /\ eventingState' # MarkEventReceived(eventingState, x)
    BY <1>1, <1>2, MarkerTouchesOneResource
  <1>5. CASE HandleRetryOnException(t, x)
    <2>1. GetOrInitRetry(retryState, x) \in [Resources -> Int]
      BY <1>1, <1>2, RetryTypes
    <2> QED
      BY <1>3, <1>4, <1>5, <2>1 DEF HandleRetryOnException
  <1>6. CASE FinishWithoutRetry(t, x)
    <2>1. ForgetRetry(x) \in [Resources -> Int]
      BY <1>1, <1>2, RetryTypes
    <2>2. CASE /\ DeleteEventPresent(eventingState, x)
               /\ eventingState' = CleanupMarker(eventingState, x)
      <3>1. r # x
        BY <1>1, <2>2 DEF EventPresent, DeleteEventPresent
      <3> HIDE DEF x
      <3> QED
        BY <1>1, <1>2, <2>2, <3>1, MarkerTouchesOneResource
    <2> QED
      BY <1>3, <1>4, <1>6, <2>1, <2>2 DEF FinishWithoutRetry, CleanupForDeletedEvent
  <1> QED
    BY <1>4, <1>5, <1>6 DEF EventProcessingFinished

\* No event is lost in the processor, while its executor takes what it is given:
\* an event is forgotten only by the step that queues an execution with the
\* resource as the cache has it then, or by the deletion of the resource
\* (unMarkEventReceived, cleanupForDeletedEvent).
THEOREM NoEventIsForgotten ==
    ~RejectionsPossible /\ EPSpec => EventLeadsToExecution
  <1> SUFFICES ASSUME ~RejectionsPossible PROVE EPSpec => EventLeadsToExecution
    OBVIOUS
  <1>1. TasksInv /\ [EPNext]_epVars =>
            [\A r \in Resources :
                EventPresent(eventingState, r) /\ ~EventPresent(eventingState', r)
                => \/ EventReceived(r, "DELETED")
                   \/ /\ Len(queue') = Len(queue) + 1
                      /\ queue'[Len(queue')].res = r
                      /\ queue'[Len(queue')].version = cache[r]]_epVars
    <2> SUFFICES ASSUME TasksInv, EPNext, NEW r \in Resources, Forgotten(r)
                 PROVE  EventReceived(r, "DELETED") \/ BecomesExecution(r)
      BY DEF Forgotten, BecomesExecution
    <2>1. ASSUME NEW x \in Resources, EventReceived(x, "DELETED")
          PROVE  EventReceived(r, "DELETED") \/ BecomesExecution(r)
      <3>1. eventingState' \in
               {eventingState, MarkDeleteEventReceived(eventingState, x),
                CleanupMarker(MarkDeleteEventReceived(eventingState, x), x)}
        BY <2>1 DEF EventReceived, HandleEvent, CleanupForDeletedEvent
      <3>2. r = x
        BY <3>1, MarkerTouchesOneResource DEF Forgotten, TasksInv, EPTypeOK
      <3> QED
        BY <2>1, <3>2
    <2>2. ASSUME NEW x \in Resources,
                 EventReceived(x, "OTHER") \/ TimerEventReceived(x)
          PROVE  BecomesExecution(r)
      BY <2>2, HandleEventForgetsNothing DEF EventReceived, TimerEventReceived
    <2>3. ASSUME NEW t \in Threads, ProcessorStep(t)
          PROVE  BecomesExecution(r)
      <3>1. CASE UNCHANGED eventingState
        BY <3>1 DEF Forgotten
      <3> QED
        BY <2>3, <3>1, FinishedForgetsNothing
           DEF ProcessorStep, StartExecution, HandleExecution, ExecutionDies,
               PostponeReconciliation
    <2>4. CASE \/ \E x \in Resources :
                     \/ TimerFires(x) \/ WhitelistedEvent(x)
                     \/ \E v \in Versions \cup {None} : CacheChange(x, v)
               \/ TimerLifecycle
               \/ StopProcessor
      <3>1. UNCHANGED eventingState
        BY <2>4 DEF TimerFires, WhitelistedEvent, CacheChange, TimerLifecycle,
                    StopProcessor, otherThanTimer
      <3> QED
        BY <3>1 DEF Forgotten
    <2> QED
      BY <2>1, <2>2, <2>3, <2>4 DEF EPNext
  <1> QED
    BY <1>1, TasksInvariant, PTL DEF EPSpec, EventLeadsToExecution
-------------------------------------------------------------------------------
(***************************************************************************)
(* The RetryInfo of an execution.  With TasksInv this is inductive: the    *)
(* retry state changes only when the one task of its resource ends.        *)
(***************************************************************************)
QueueInformed ==
    running => \A i \in 1..Len(queue) : queue[i].retry = retryState[queue[i].res]

ThreadsInformed ==
    running => \A t \in Threads :
        active[t] # None /\ t # lockHolder
            => active[t].retry = retryState[active[t].res]

WithinLimit == MaxAttempts > -1 => \A r \in Resources : retryState[r] <= MaxAttempts

Informed == QueueInformed /\ ThreadsInformed /\ WithinLimit

\* The operations on the retry state change it at one resource, and keep it
\* within the limit.
LEMMA RetryChanges ==
    ASSUME EPTypeOK, WithinLimit, NEW r \in Resources,
           NEW rs \in {GetOrInitRetry(retryState, r),
                       NextDelay(GetOrInitRetry(retryState, r), r),
                       ForgetRetry(r)}
    PROVE  /\ rs \in [Resources -> Int]
           /\ \A x \in Resources : x # r => rs[x] = retryState[x]
           /\ MaxAttempts > -1 => \A x \in Resources : rs[x] <= MaxAttempts
  <1>1. retryState \in [Resources -> Int] /\ MaxAttempts \in Int
    BY RetryAssumption DEF EPTypeOK
  <1>2. ASSUME NEW s, s = GetOrInitRetry(retryState, r)
        PROVE  /\ s \in [Resources -> Int]
               /\ \A x \in Resources : x # r => s[x] = retryState[x]
               /\ MaxAttempts > -1 => \A x \in Resources : s[x] <= MaxAttempts
    BY <1>1, <1>2 DEF GetOrInitRetry, WithinLimit
  <1>3. CASE rs = GetOrInitRetry(retryState, r)
    BY <1>2, <1>3
  <1>4. CASE rs = NextDelay(GetOrInitRetry(retryState, r), r)
    <2> DEFINE s == GetOrInitRetry(retryState, r)
    <2>1. /\ s \in [Resources -> Int]
          /\ \A x \in Resources : x # r => s[x] = retryState[x]
          /\ MaxAttempts > -1 => \A x \in Resources : s[x] <= MaxAttempts
          /\ rs = NextDelay(s, r)
      BY <1>2, <1>4
    <2> HIDE DEF s
    <2> QED
      BY <1>1, <2>1 DEF NextDelay, HasNextDelay
  <1>5. CASE rs = ForgetRetry(r)
    BY <1>1, <1>5 DEF ForgetRetry, NoRetry, WithinLimit
  <1> QED
    BY <1>3, <1>4, <1>5

\* An execution that submitReconciliationExecution adds to the queue is given
\* the retry state that the handler leaves.
LEMMA SubmissionIsInformed ==
    ASSUME TasksInv, NEW r \in Resources, NEW up, NEW em,
           SubmitReconciliationExecution(r, up, em, retryState'),
           retryState' \in [Resources -> Int],
           \A i \in 1..Len(queue) :
               queue[i].retry = retryState'[queue[i].res]
    PROVE  QueueInformed'
  <1>1. EPTypeOK /\ Len(queue) \in Nat
    BY LenProperties DEF TasksInv, EPTypeOK
  <1>2. \/ /\ Len(queue') = Len(queue) + 1
           /\ \A i \in 1..Len(queue) : queue'[i] = queue[i]
           /\ queue'[Len(queue')].res = r
           /\ queue'[Len(queue')].retry = retryState'[r]
        \/ queue' = queue
    BY <1>1, SubmissionEffect
  <1> QED
    BY <1>1, <1>2 DEF QueueInformed

\* Receiving an event changes no retry state.
LEMMA HandleEventKeepsInformed ==
    ASSUME TasksInv, Informed, NEW r \in Resources, NEW action,
           HandleEvent(r, action)
    PROVE  Informed'
  <1> DEFINE em == MarkEventReceived(eventingState, r)
  <1>1. UNCHANGED <<running, lockHolder, retryState, active>>
    BY DEF HandleEvent
  <1>2. ThreadsInformed' /\ WithinLimit'
    BY <1>1 DEF Informed, ThreadsInformed, WithinLimit
  <1>3. CASE UNCHANGED queue
    BY <1>1, <1>2, <1>3 DEF Informed, QueueInformed
  <1>4. CASE running /\ SubmitReconciliationExecution(r, underProcessing, em, retryState)
    <2>1. SubmitReconciliationExecution(r, underProcessing, em, retryState')
      BY <1>1, <1>4
    <2>2. retryState' \in [Resources -> Int]
      BY <1>1 DEF TasksInv, EPTypeOK
    <2>3. \A i \in 1..Len(queue) : queue[i].retry = retryState'[queue[i].res]
      BY <1>1, <1>4 DEF Informed, QueueInformed
    <2>4. QueueInformed'
      <3> HIDE DEF em
      <3> QED
        BY <2>1, <2>2, <2>3, SubmissionIsInformed
    <2> QED
      BY <1>2, <2>4 DEF Informed
  <1> QED
    BY <1>3, <1>4 DEF HandleEvent, AcceptsEvents

\* Taking an execution from the queue takes its RetryInfo with it.
LEMMA StartExecutionKeepsInformed ==
    ASSUME TasksInv, Informed, NEW t \in Threads, StartExecution(t)
    PROVE  Informed'
  <1>1. /\ queue # <<>>
        /\ active' = [active EXCEPT ![t] = Head(queue)]
        /\ queue' = Tail(queue)
        /\ UNCHANGED <<running, lockHolder, retryState>>
    BY DEF StartExecution
  <1>2. /\ Head(queue) = queue[1] /\ 1 \in 1..Len(queue)
        /\ \A i \in 1..Len(queue') :
              i + 1 \in 1..Len(queue) /\ queue'[i] = queue[i + 1]
    BY <1>1, TakenFromQueue DEF TasksInv, EPTypeOK
  <1>3. /\ active'[t] = queue[1]
        /\ \A s \in Threads : s # t => active'[s] = active[s]
    BY <1>1, <1>2 DEF TasksInv, EPTypeOK
  <1> QED
    BY <1>1, <1>2, <1>3 DEF Informed, QueueInformed, ThreadsInformed, WithinLimit

\* eventProcessingFinished changes the retry state of the task that ends.
LEMMA FinishedKeepsInformed ==
    ASSUME TasksInv, Informed, NEW t \in Threads, EventProcessingFinished(t)
    PROVE  Informed'
  <1> DEFINE r == active[t].res
  <1> DEFINE up == UnsetUnderExecution(r)
  <1>1. /\ EPTypeOK /\ WithinLimit
        /\ lockHolder = None /\ result[t] # None
        /\ UNCHANGED running
    BY DEF TasksInv, EventProcessingFinished, Informed
  <1>2. active[t] # None /\ r \in Resources
    BY <1>1, FinishedTask
  <1>3. CASE ~AcceptsEvents
    BY <1>1, <1>3
       DEF EventProcessingFinished, AcceptsEvents, Informed, QueueInformed,
           ThreadsInformed, WithinLimit
  <1>4. ASSUME AcceptsEvents,
               retryState' \in {GetOrInitRetry(retryState, r),
                                NextDelay(GetOrInitRetry(retryState, r), r),
                                ForgetRetry(r)},
               \/ UNCHANGED queue
               \/ \E em : SubmitReconciliationExecution(r, up, em, retryState'),
               \/ ThreadDone(t) /\ lockHolder' = None
               \/ lockHolder' = t /\ UNCHANGED active
        PROVE  Informed'
    <2>1. /\ retryState' \in [Resources -> Int]
          /\ \A x \in Resources : x # r => retryState'[x] = retryState[x]
          /\ WithinLimit'
      <3> HIDE DEF r
      <3>1. PICK rs \in {GetOrInitRetry(retryState, r),
                         NextDelay(GetOrInitRetry(retryState, r), r),
                         ForgetRetry(r)} : rs = retryState'
        BY <1>4
      <3> QED
        BY <1>1, <1>2, <3>1, RetryChanges DEF WithinLimit
    <2>2. \A i \in 1..Len(queue) : /\ queue[i].res \in Resources
                                   /\ queue[i].res # r
                                   /\ queue[i].retry = retryState[queue[i].res]
      <3>1. \A i \in 1..Len(queue) : queue[i] \in ExecutionScope
        BY <1>1, ElementOfSeq DEF EPTypeOK
      <3> QED
        BY <1>2, <1>4, <3>1 DEF TasksInv, Tasks, QueueApart, Informed,
                                QueueInformed, AcceptsEvents, ExecutionScope
    <2>3. QueueInformed'
      <3>1. \A i \in 1..Len(queue) : queue[i].retry = retryState'[queue[i].res]
        BY <2>1, <2>2
      <3>2. CASE UNCHANGED queue
        BY <3>1, <3>2 DEF QueueInformed
      <3>3. CASE \E em : SubmitReconciliationExecution(r, up, em, retryState')
        <4>1. PICK em : SubmitReconciliationExecution(r, up, em, retryState')
          BY <3>3
        <4> HIDE DEF r, up
        <4> QED
          BY <1>2, <2>1, <3>1, <4>1, SubmissionIsInformed
      <3> QED
        BY <1>4, <3>2, <3>3
    <2>4. ThreadsInformed'
      <3> SUFFICES ASSUME NEW s \in Threads, active'[s] # None, s # lockHolder'
                   PROVE  active'[s].retry = retryState'[active'[s].res]
        BY DEF ThreadsInformed
      <3>1. s # t /\ active'[s] = active[s]
        BY <1>1, <1>4 DEF ThreadDone, EPTypeOK
      <3>2. active[s].res # r /\ active[s].res \in Resources
        BY <1>1, <1>2, <3>1
           DEF TasksInv, Tasks, ThreadsUnique, EPTypeOK, ExecutionScope
      <3>3. active[s].retry = retryState[active[s].res]
        BY <1>1, <1>4, <3>1, NoneAssumption
           DEF Informed, ThreadsInformed, AcceptsEvents
      <3> QED
        BY <2>1, <3>1, <3>2, <3>3
    <2> QED
      BY <2>1, <2>3, <2>4 DEF Informed
  <1>5. CASE AcceptsEvents /\ HandleRetryOnException(t, r)
    <2>1. /\ \/ /\ retryState' = GetOrInitRetry(retryState, r)
                /\ \E em : SubmitReconciliationExecution(r, up, em, retryState')
             \/ /\ retryState' = NextDelay(GetOrInitRetry(retryState, r), r)
                /\ UNCHANGED queue
          /\ ThreadDone(t) /\ lockHolder' = None
      BY <1>1, <1>5 DEF HandleRetryOnException
    <2> HIDE DEF r, up
    <2> QED
      BY <1>4, <1>5, <2>1
  <1>6. CASE AcceptsEvents /\ FinishWithoutRetry(t, r)
    <2>1. /\ retryState' = ForgetRetry(r)
          /\ \/ UNCHANGED queue
             \/ \E em : SubmitReconciliationExecution(r, up, em, retryState')
          /\ \/ ThreadDone(t) /\ lockHolder' = None
             \/ lockHolder' = t /\ UNCHANGED active
      BY <1>1, <1>6 DEF FinishWithoutRetry
    <2> HIDE DEF r, up
    <2> QED
      BY <1>4, <1>6, <2>1
  <1> QED
    BY <1>3, <1>5, <1>6 DEF EventProcessingFinished

\* The end of the postponement, and an Error, end a task.
LEMMA TaskEndKeepsInformed ==
    ASSUME TasksInv, Informed, NEW t \in Threads,
           ExecutionDies(t) \/ PostponeReconciliation(t)
    PROVE  Informed'
  <1>1. /\ UNCHANGED <<running, retryState, queue>>
        /\ active' = [active EXCEPT ![t] = None]
        /\ lockHolder' = lockHolder \/ (lockHolder = t /\ lockHolder' = None)
    BY DEF ExecutionDies, PostponeReconciliation, ThreadDone
  <1>2. /\ active'[t] = None
        /\ \A s \in Threads : s # t => active'[s] = active[s]
    BY <1>1 DEF TasksInv, EPTypeOK
  <1> QED
    BY <1>1, <1>2, NoneAssumption
       DEF Informed, QueueInformed, ThreadsInformed, WithinLimit

LEMMA InitialInformed == EPInit => Informed
  BY RetryAssumption
     DEF EPInit, Informed, QueueInformed, ThreadsInformed, WithinLimit, NoRetry

LEMMA NextKeepsInformed == TasksInv /\ Informed /\ [EPNext]_epVars => Informed'
  <1> SUFFICES ASSUME TasksInv, Informed, [EPNext]_epVars PROVE Informed'
    OBVIOUS
  <1>1. CASE UNCHANGED <<lockHolder, retryState, queue, active>>
             /\ (running' = running \/ running' = FALSE)
    BY <1>1 DEF Informed, QueueInformed, ThreadsInformed, WithinLimit
  <1>2. ASSUME NEW r \in Resources,
               \/ \E action \in {"DELETED", "OTHER"} : EventReceived(r, action)
               \/ TimerEventReceived(r)
        PROVE  Informed'
    BY <1>2, HandleEventKeepsInformed DEF EventReceived, TimerEventReceived
  <1>3. ASSUME NEW t \in Threads, ProcessorStep(t)
        PROVE  Informed'
    <2>1. ASSUME NEW p, HandleExecution(t, p) PROVE Informed'
      BY <1>1, <2>1 DEF HandleExecution
    <2> QED
      BY <1>3, <2>1, StartExecutionKeepsInformed, FinishedKeepsInformed,
         TaskEndKeepsInformed DEF ProcessorStep
  <1>4. CASE \/ \E r \in Resources :
                   \/ TimerFires(r) \/ WhitelistedEvent(r)
                   \/ \E v \in Versions \cup {None} : CacheChange(r, v)
             \/ TimerLifecycle
             \/ StopProcessor
             \/ UNCHANGED epVars
    BY <1>1, <1>4 DEF TimerFires, WhitelistedEvent, CacheChange,
         TimerLifecycle, StopProcessor, otherThanTimer, taskVars, epVars
  <1> QED
    BY <1>2, <1>3, <1>4 DEF EPNext

LEMMA InformedIsCurrent == TasksInv /\ Informed => RetryInfoIsCurrent
  <1> SUFFICES ASSUME TasksInv, Informed PROVE RetryInfoIsCurrent
    OBVIOUS
  <1>1. DOMAIN queue = 1..Len(queue)
    BY LenProperties DEF TasksInv, EPTypeOK
  <1> QED
    BY <1>1 DEF Informed, QueueInformed, ThreadsInformed, WithinLimit,
                RetryInfoIsCurrent

\* The RetryInfo an execution was given stays the retry state of its resource
\* for as long as the execution is queued or runs - getOrInitRetryExecution
\* and the removal of the retry state happen only when no execution holds it -
\* and no resource is ever retried more often than configured.
THEOREM RetryInfoStaysCurrent == EPSpec => []RetryInfoIsCurrent
  BY InitialInformed, NextKeepsInformed, InformedIsCurrent, TasksInvariant, PTL
     DEF EPSpec
-------------------------------------------------------------------------------
(***************************************************************************)
(* The event processor implements SerialExecutor: every step of it is a    *)
(* step of the serial executor, or leaves the phases and the pending       *)
(* events as they are.  TasksInv supplies what the phase of a resource is  *)
(* before each step.                                                       *)
(***************************************************************************)
InQueue(r) == \E i \in 1..Len(queue) : queue[i].res = r

OnThread(r) ==
    \E t \in Threads : active[t] # None /\ t # lockHolder /\ active[t].res = r

\* The phase of a resource, without the sets of its tasks.
LEMMA PhaseFromTasks ==
    ASSUME EPTypeOK, NEW r
    PROVE  PhaseOf(r) = IF InQueue(r) THEN "queued"
                        ELSE IF OnThread(r) THEN "running"
                        ELSE IF r \in underProcessing THEN "blocked" ELSE "idle"
  <1>1. DOMAIN queue = 1..Len(queue)
    BY LenProperties DEF EPTypeOK
  <1>2. Queued(r) # {} <=> InQueue(r)
    BY <1>1 DEF Queued, InQueue
  <1>3. RunningOn(r) \ {lockHolder} # {} <=> OnThread(r)
    BY DEF RunningOn, OnThread
  <1> QED
    BY <1>2, <1>3 DEF PhaseOf

LEMMA NextPhaseFromTasks ==
    ASSUME EPTypeOK', NEW r
    PROVE  PhaseOf(r)' = IF InQueue(r)' THEN "queued"
                         ELSE IF OnThread(r)' THEN "running"
                         ELSE IF r \in underProcessing' THEN "blocked" ELSE "idle"
  <1>1. DOMAIN queue' = 1..Len(queue')
    BY LenProperties DEF EPTypeOK
  <1>2. Queued(r)' # {} <=> InQueue(r)'
    BY <1>1 DEF Queued, InQueue
  <1>3. RunningOn(r)' \ {lockHolder'} # {} <=> OnThread(r)'
    BY DEF RunningOn, OnThread
  <1> QED
    BY <1>2, <1>3 DEF PhaseOf

\* A step that changes the tasks and the mark of one resource moves its phase
\* and no other.
LEMMA OnePhaseMoves ==
    ASSUME EPTypeOK, EPTypeOK', NEW r \in Resources,
           \A x \in Resources : x # r =>
               /\ InQueue(x)' <=> InQueue(x)
               /\ OnThread(x)' <=> OnThread(x)
               /\ x \in underProcessing' <=> x \in underProcessing
    PROVE  phaseBar' = [phaseBar EXCEPT ![r] = PhaseOf(r)']
  <1>1. \A x \in Resources : x # r => PhaseOf(x)' = PhaseOf(x)
    BY PhaseFromTasks, NextPhaseFromTasks
  <1> QED
    BY <1>1 DEF phaseBar

\* What the updates of the marker do to the pending events.
LEMMA PendingFromMarker ==
    ASSUME NEW es \in [Resources -> EventingState], NEW r \in Resources
    PROVE  LET pending(m) == {x \in Resources : EventPresent(m, x)}
           IN  /\ pending(MarkEventReceived(es, r)) = pending(es) \cup {r}
               /\ pending(UnMarkEventReceived(es, r)) = pending(es) \ {r}
               /\ pending(UnMarkEventReceived(MarkEventReceived(es, r), r))
                     = pending(es) \ {r}
               /\ pending(CleanupMarker(es, r)) = pending(es) \ {r}
               /\ pending(MarkDeleteEventReceived(es, r)) = pending(es) \ {r}
               /\ pending(CleanupMarker(MarkDeleteEventReceived(es, r), r))
                     = pending(es) \ {r}
  BY DEF EventPresent, MarkEventReceived, UnMarkEventReceived, CleanupMarker,
         MarkDeleteEventReceived, EventingState

\* submitReconciliationExecution queues one execution of its resource, and
\* unmarks the event, or does nothing, or its execution is rejected.
LEMMA SubmissionOutcome ==
    ASSUME EPTypeOK, NEW r \in Resources, NEW up, NEW em,
           NEW rs \in [Resources -> Int],
           SubmitReconciliationExecution(r, up, em, rs)
    PROVE  \/ /\ r \notin up
              /\ underProcessing' = up \cup {r}
              /\ eventingState' = UnMarkEventReceived(em, r)
              /\ queue' = queue \/ \A x : InQueue(x)' <=> InQueue(x) \/ x = r
           \/ /\ underProcessing' = up
              /\ eventingState' = em
              /\ queue' = queue
  <1>1. CASE MaySubmit(r, up)
    <2> DEFINE scope == [res |-> r, version |-> cache[r], retry |-> rs[r]]
    <2>1. /\ r \notin up /\ underProcessing' = up \cup {r}
          /\ eventingState' = UnMarkEventReceived(em, r)
          /\ queue' = Append(queue, scope) \/ queue' = queue
          /\ cache[r] # None
      BY <1>1 DEF SubmitReconciliationExecution, MaySubmit
    <2> SUFFICES ASSUME queue' = Append(queue, scope)
                 PROVE  \A x : InQueue(x)' <=> InQueue(x) \/ x = r
      BY <2>1
    <2>2. scope \in ExecutionScope /\ scope.res = r
      BY <2>1 DEF ExecutionScope, EPTypeOK
    <2> HIDE DEF scope
    <2>3. /\ Len(queue) \in Nat
          /\ Len(queue') = Len(queue) + 1
          /\ \A i \in 1..Len(queue) : queue'[i] = queue[i]
          /\ queue'[Len(queue) + 1] = scope
      BY <2>1, <2>2, AppendProperties, LenProperties DEF EPTypeOK
    <2>4. 1..Len(queue') = 1..Len(queue) \cup {Len(queue) + 1}
      BY <2>3
    <2>5. \A x : InQueue(x)' <=> InQueue(x) \/ x = r
      BY <2>2, <2>3, <2>4 DEF InQueue
    <2> QED
      BY <2>1, <2>5
  <1>2. CASE ~MaySubmit(r, up)
    BY <1>2 DEF SubmitReconciliationExecution, SkipExecution
  <1> QED
    BY <1>1, <1>2
-------------------------------------------------------------------------------
\* handleEvent receives an event, hands it over, forgets it or does nothing.
LEMMA HandleEventRefines ==
    ASSUME TasksInv, TasksInv', NEW r \in Resources, NEW action,
           HandleEvent(r, action)
    PROVE  Abstract!AbsNext \/ UNCHANGED <<phaseBar, pendingBar>>
  <1> DEFINE em == MarkEventReceived(eventingState, r)
  <1>1. /\ EPTypeOK /\ EPTypeOK'
        /\ eventingState \in [Resources -> EventingState]
        /\ underProcessing \in SUBSET Resources
        /\ retryState \in [Resources -> Int]
        /\ lockHolder = None
        /\ UNCHANGED <<lockHolder, active>>
    BY DEF TasksInv, EPTypeOK, HandleEvent
  <1>2. \A x : OnThread(x)' <=> OnThread(x)
    BY <1>1 DEF OnThread
  <1>3. ASSUME UNCHANGED <<underProcessing, queue>>
        PROVE  UNCHANGED phaseBar
    <2>1. \A x \in Resources : InQueue(x)' <=> InQueue(x)
      BY <1>3 DEF InQueue
    <2>2. \A x \in Resources : PhaseOf(x)' = PhaseOf(x)
      BY <1>1, <1>2, <1>3, <2>1, PhaseFromTasks, NextPhaseFromTasks
    <2> QED
      BY <2>2 DEF phaseBar
  <1>4. CASE UNCHANGED <<underProcessing, eventingState, queue>>
    BY <1>3, <1>4 DEF pendingBar
  <1>5. CASE /\ UNCHANGED <<underProcessing, queue>>
             /\ eventingState' \in
                   {CleanupMarker(MarkDeleteEventReceived(eventingState, r), r),
                    MarkDeleteEventReceived(eventingState, r)}
    <2>1. pendingBar' = pendingBar \ {r}
      BY <1>1, <1>5, PendingFromMarker DEF pendingBar
    <2> QED
      BY <1>3, <1>5, <2>1 DEF Abstract!AbsNext, Abstract!Forget
  <1>6. CASE SubmitReconciliationExecution(r, underProcessing, em, retryState)
    <2>1. \/ /\ r \notin underProcessing
             /\ underProcessing' = underProcessing \cup {r}
             /\ eventingState' = UnMarkEventReceived(em, r)
             /\ queue' = queue \/ \A x : InQueue(x)' <=> InQueue(x) \/ x = r
          \/ /\ underProcessing' = underProcessing
             /\ eventingState' = em
             /\ queue' = queue
      <3> HIDE DEF em
      <3> QED
        BY <1>1, <1>6, SubmissionOutcome
    <2>2. CASE /\ r \notin underProcessing
               /\ underProcessing' = underProcessing \cup {r}
               /\ eventingState' = UnMarkEventReceived(em, r)
               /\ queue' = queue \/ \A x : InQueue(x)' <=> InQueue(x) \/ x = r
      <3>1. ~InQueue(r) /\ ~OnThread(r)
        BY <2>2 DEF InQueue, OnThread, TasksInv, Tasks, QueueMarked, ThreadsMarked
      <3>2. PhaseOf(r) = "idle"
        BY <1>1, <2>2, <3>1, PhaseFromTasks
      <3>3. queue' = queue => \A x : InQueue(x)' <=> InQueue(x)
        BY DEF InQueue
      <3>4. phaseBar' = [phaseBar EXCEPT ![r] = PhaseOf(r)']
        BY <1>1, <1>2, <2>2, <3>3, OnePhaseMoves
      <3>5. PhaseOf(r)' = IF InQueue(r)' THEN "queued" ELSE "blocked"
        BY <1>1, <1>2, <2>2, <3>1, NextPhaseFromTasks
      <3>6. pendingBar' = pendingBar \ {r}
        BY <1>1, <2>2, PendingFromMarker DEF pendingBar
      <3> QED
        BY <3>2, <3>4, <3>5, <3>6
           DEF Abstract!AbsNext, Abstract!ReceiveAndQueue, Abstract!Reject,
               Abstract!Moves, phaseBar
    <2>3. CASE /\ underProcessing' = underProcessing
               /\ eventingState' = em
               /\ queue' = queue
      <3>1. pendingBar' = pendingBar \cup {r}
        BY <1>1, <2>3, PendingFromMarker DEF pendingBar
      <3> QED
        BY <1>3, <2>3, <3>1 DEF Abstract!AbsNext, Abstract!Receive
    <2> QED
      BY <2>1, <2>2, <2>3
  <1> QED
    BY <1>4, <1>5, <1>6 DEF HandleEvent, CleanupForDeletedEvent

\* What a task on a thread says of its resource, and that the resource is
\* on no thread once the task has ended.
LEMMA TaskOnThread ==
    ASSUME TasksInv, NEW t \in Threads, active[t] # None, t # lockHolder
    PROVE  /\ active[t].res \in Resources
           /\ active[t].res \in underProcessing
           /\ ~InQueue(active[t].res)
           /\ PhaseOf(active[t].res) = "running"
           /\ \/ /\ active' = [active EXCEPT ![t] = None]
                 /\ UNCHANGED lockHolder
              \/ UNCHANGED active /\ lockHolder = None /\ lockHolder' = t
              => \A x : OnThread(x)' <=> OnThread(x) /\ x # active[t].res
  <1> DEFINE r == active[t].res
  <1>1. EPTypeOK /\ active[t] \in ExecutionScope
    BY DEF TasksInv, EPTypeOK
  <1>2. /\ r \in Resources /\ r \in underProcessing
        /\ ~InQueue(r) /\ OnThread(r)
    BY <1>1 DEF ExecutionScope, TasksInv, Tasks, ThreadsMarked, QueueApart,
                InQueue, OnThread
  <1>3. PhaseOf(r) = "running"
    <2> HIDE DEF r
    <2> QED
      BY <1>1, <1>2, PhaseFromTasks
  <1>4. ASSUME \/ /\ active' = [active EXCEPT ![t] = None]
                  /\ UNCHANGED lockHolder
               \/ UNCHANGED active /\ lockHolder = None /\ lockHolder' = t,
               NEW x
        PROVE  OnThread(x)' <=> OnThread(x) /\ x # r
    <2>1. \A s \in Threads : s # t /\ active[s] # None => active[s].res # r
      BY DEF TasksInv, Tasks, ThreadsUnique
    <2>2. \A s \in Threads :
              active'[s] # None /\ s # lockHolder' <=>
                 active[s] # None /\ s # lockHolder /\ s # t
      BY <1>1, <1>4, NoneAssumption DEF EPTypeOK
    <2>3. \A s \in Threads : s # t => active'[s] = active[s]
      BY <1>1, <1>4 DEF EPTypeOK
    <2> QED
      BY <2>1, <2>2, <2>3 DEF OnThread
  <1> QED
    BY <1>2, <1>3, <1>4

\* A thread takes the execution that waits longest.
LEMMA StartExecutionRefines ==
    ASSUME TasksInv, TasksInv', NEW t \in Threads, StartExecution(t)
    PROVE  Abstract!AbsNext
  <1>1. /\ EPTypeOK /\ EPTypeOK'
        /\ active[t] = None /\ queue # <<>>
        /\ active' = [active EXCEPT ![t] = Head(queue)]
        /\ queue' = Tail(queue)
        /\ UNCHANGED <<lockHolder, underProcessing, eventingState>>
    BY DEF TasksInv, StartExecution
  <1>2. /\ Head(queue) = queue[1] /\ 1 \in 1..Len(queue)
        /\ queue[1] \in ExecutionScope /\ queue[1] # None
        /\ Len(queue) \in Nat
        /\ Len(queue') = Len(queue) - 1
        /\ \A i \in 1..Len(queue') :
              i + 1 \in 1..Len(queue) /\ i + 1 # 1 /\ queue'[i] = queue[i + 1]
    BY <1>1, TakenFromQueue, LenProperties, NoTaskAssumption DEF EPTypeOK
  <1>3. /\ active'[t] = queue[1]
        /\ \A s \in Threads : s # t => active'[s] = active[s]
    BY <1>1, <1>2 DEF EPTypeOK
  <1>4. lockHolder # t
    BY <1>1, NoneAssumption DEF TasksInv, Tasks, PostponedUnmarked
  <1>5. PICK r \in Resources : r = queue[1].res
    BY <1>2 DEF ExecutionScope
  <1>6. \A x : InQueue(x)' <=> InQueue(x) /\ x # r
    <2>1. ASSUME NEW x, InQueue(x)' PROVE InQueue(x) /\ x # r
      BY <1>2, <1>5, <2>1 DEF InQueue, TasksInv, Tasks, QueueUnique
    <2>2. ASSUME NEW x, InQueue(x), x # r PROVE InQueue(x)'
      <3>1. PICK i \in 1..Len(queue) : queue[i].res = x
        BY <2>2 DEF InQueue
      <3>2. i - 1 \in 1..Len(queue') /\ queue'[i - 1] = queue[i]
        BY <1>2, <1>5, <2>2, <3>1
      <3> QED
        BY <3>1, <3>2 DEF InQueue
    <2> QED
      BY <2>1, <2>2
  <1>7. \A x : OnThread(x)' <=> OnThread(x) \/ x = r
    BY <1>1, <1>2, <1>3, <1>4, <1>5 DEF OnThread
  <1>8. phaseBar' = [phaseBar EXCEPT ![r] = PhaseOf(r)']
    BY <1>1, <1>5, <1>6, <1>7, OnePhaseMoves
  <1>9. PhaseOf(r) = "queued" /\ PhaseOf(r)' = "running"
    <2>1. InQueue(r)
      BY <1>2, <1>5 DEF InQueue
    <2> QED
      BY <1>1, <1>6, <1>7, <2>1, PhaseFromTasks, NextPhaseFromTasks
  <1>10. UNCHANGED pendingBar
    BY <1>1 DEF pendingBar, EventPresent
  <1> QED
    BY <1>5, <1>8, <1>9, <1>10
       DEF Abstract!AbsNext, Abstract!Start, Abstract!Moves, phaseBar

\* An execution that ends with an Error blocks its resource.
LEMMA ExecutionDiesRefines ==
    ASSUME TasksInv, TasksInv', NEW t \in Threads, ExecutionDies(t)
    PROVE  Abstract!AbsNext
  <1>1. /\ EPTypeOK /\ EPTypeOK'
        /\ active[t] # None /\ result[t] = None
        /\ active' = [active EXCEPT ![t] = None]
        /\ UNCHANGED <<lockHolder, underProcessing, eventingState, queue>>
    BY DEF TasksInv, ExecutionDies
  <1>2. t # lockHolder
    BY <1>1, NoneAssumption DEF TasksInv, Tasks, PostponedUnmarked
  <1>3. PICK r \in Resources : r = active[t].res
    BY <1>1, <1>2, TaskOnThread
  <1>4. /\ r \in underProcessing /\ ~InQueue(r)
        /\ PhaseOf(r) = "running"
        /\ \A x : OnThread(x)' <=> OnThread(x) /\ x # r
    BY <1>1, <1>2, <1>3, TaskOnThread
  <1>5. \A x : InQueue(x)' <=> InQueue(x)
    BY <1>1 DEF InQueue
  <1>6. phaseBar' = [phaseBar EXCEPT ![r] = PhaseOf(r)']
    BY <1>1, <1>4, <1>5, OnePhaseMoves
  <1>7. PhaseOf(r)' = "blocked"
    BY <1>1, <1>4, <1>5, NextPhaseFromTasks
  <1>8. UNCHANGED pendingBar
    BY <1>1 DEF pendingBar, EventPresent
  <1> QED
    BY <1>4, <1>6, <1>7, <1>8
       DEF Abstract!AbsNext, Abstract!Block, Abstract!Moves, phaseBar

\* eventProcessingFinished ends an execution, hands a pending event over to
\* the next one, leaves the retry pending, or blocks the resource when the
\* processor is stopped.
LEMMA FinishedRefines ==
    ASSUME TasksInv, TasksInv', NEW t \in Threads, EventProcessingFinished(t)
    PROVE  Abstract!AbsNext
  <1>1. /\ EPTypeOK /\ EPTypeOK'
        /\ eventingState \in [Resources -> EventingState]
        /\ lockHolder = None /\ result[t] # None
    BY DEF TasksInv, EPTypeOK, EventProcessingFinished
  <1>2. active[t] # None /\ t # lockHolder
    BY <1>1, NoneAssumption DEF TasksInv, Tasks, ResultOfTask
  <1>3. PICK r \in Resources : r = active[t].res
    BY <1>2, TaskOnThread
  <1> DEFINE up == UnsetUnderExecution(r)
  <1> DEFINE em == MarkEventReceived(eventingState, r)
  <1>4. /\ \/ ThreadDone(t) /\ UNCHANGED lockHolder
           \/ UNCHANGED active /\ lockHolder' = t
        /\ \A x : OnThread(x)' <=> OnThread(x) /\ x # r
    <2>1. \/ ThreadDone(t) /\ UNCHANGED lockHolder
          \/ UNCHANGED active /\ lockHolder' = t
      BY DEF EventProcessingFinished, HandleRetryOnException, FinishWithoutRetry
    <2> QED
      BY <1>1, <1>2, <1>3, <2>1, TaskOnThread DEF ThreadDone
  <1>5. /\ r \in underProcessing /\ ~InQueue(r)
        /\ PhaseOf(r) = "running"
    BY <1>2, <1>3, TaskOnThread
  <1>6. up = underProcessing \ {r} /\ r \notin up
    BY DEF UnsetUnderExecution
  <1>7. /\ {x \in Resources : EventPresent(em, x)} = pendingBar \cup {r}
        /\ {x \in Resources : EventPresent(UnMarkEventReceived(em, r), x)}
              = pendingBar \ {r}
        /\ {x \in Resources :
               EventPresent(UnMarkEventReceived(eventingState, r), x)}
              = pendingBar \ {r}
        /\ {x \in Resources : EventPresent(CleanupMarker(eventingState, r), x)}
              = pendingBar \ {r}
    BY <1>1, <1>5, PendingFromMarker DEF pendingBar
  <1>8. r \in pendingBar <=> EventPresent(eventingState, r)
    BY <1>5 DEF pendingBar
  <1>9. ASSUME NEW m \in {em, eventingState}, NEW rs \in [Resources -> Int],
               SubmitReconciliationExecution(r, up, m, rs)
        PROVE  \/ /\ underProcessing' = underProcessing
                  /\ pendingBar' = pendingBar \ {r}
                  /\ queue' = queue \/ \A x : InQueue(x)' <=> InQueue(x) \/ x = r
               \/ /\ underProcessing' = up
                  /\ eventingState' = m
                  /\ queue' = queue
    <2>1. \/ /\ underProcessing' = up \cup {r}
             /\ eventingState' = UnMarkEventReceived(m, r)
             /\ queue' = queue \/ \A x : InQueue(x)' <=> InQueue(x) \/ x = r
          \/ /\ underProcessing' = up
             /\ eventingState' = m
             /\ queue' = queue
      <3> HIDE DEF up, em
      <3> QED
        BY <1>1, <1>5, <1>9, SubmissionOutcome
    <2> HIDE DEF up, em
    <2> QED
      BY <1>5, <1>6, <1>7, <1>9, <2>1 DEF pendingBar
  <1>10. ASSUME underProcessing' = underProcessing,
                pendingBar' = pendingBar \ {r},
                queue' = queue \/ \A x : InQueue(x)' <=> InQueue(x) \/ x = r,
                EventPresent(eventingState, r)
        PROVE  Abstract!AbsNext
    <2> HIDE DEF up, em
    <2>1. queue' = queue => \A x : InQueue(x)' <=> InQueue(x)
      BY DEF InQueue
    <2>2. phaseBar' = [phaseBar EXCEPT ![r] = PhaseOf(r)']
      BY <1>1, <1>4, <1>5, <1>10, <2>1, OnePhaseMoves
    <2>3. PhaseOf(r)' = IF InQueue(r)' THEN "queued" ELSE "blocked"
      BY <1>1, <1>4, <1>5, <1>10, NextPhaseFromTasks
    <2> QED
      BY <1>5, <1>8, <1>10, <2>2, <2>3
         DEF Abstract!AbsNext, Abstract!FinishAndQueue, Abstract!Reject,
             Abstract!Moves, phaseBar
  <1>11. ASSUME queue' = queue,
                underProcessing' \in {up, underProcessing}
         PROVE  /\ phaseBar' = [phaseBar EXCEPT ![r] = PhaseOf(r)']
                /\ PhaseOf(r)' = IF r \in underProcessing' THEN "blocked" ELSE "idle"
    <2> HIDE DEF em
    <2>1. \A x : InQueue(x)' <=> InQueue(x)
      BY <1>11 DEF InQueue
    <2>2. \A x : x # r => (x \in underProcessing' <=> x \in underProcessing)
      BY <1>6, <1>11
    <2>3. phaseBar' = [phaseBar EXCEPT ![r] = PhaseOf(r)']
      BY <1>1, <1>4, <1>5, <2>1, <2>2, OnePhaseMoves
    <2> QED
      BY <1>1, <1>4, <1>5, <2>1, <2>3, NextPhaseFromTasks
  <1>12. ASSUME queue' = queue, underProcessing' = up,
                pendingBar' \in {pendingBar, pendingBar \cup {r}}
         PROVE  Abstract!AbsNext
    <2> HIDE DEF up, em
    <2>1. /\ phaseBar' = [phaseBar EXCEPT ![r] = PhaseOf(r)']
          /\ PhaseOf(r)' = "idle"
      BY <1>6, <1>11, <1>12
    <2> QED
      BY <1>5, <1>12, <2>1
         DEF Abstract!AbsNext, Abstract!Finish, Abstract!FinishToRetry,
             Abstract!Moves, phaseBar
  <1>13. CASE /\ ~AcceptsEvents
              /\ UNCHANGED <<underProcessing, eventingState, queue>>
    <2> HIDE DEF up, em
    <2>1. /\ phaseBar' = [phaseBar EXCEPT ![r] = PhaseOf(r)']
          /\ PhaseOf(r)' = "blocked"
      BY <1>5, <1>11, <1>13
    <2>2. UNCHANGED pendingBar
      BY <1>13 DEF pendingBar, EventPresent
    <2> QED
      BY <1>5, <2>1, <2>2
         DEF Abstract!AbsNext, Abstract!Block, Abstract!Moves, phaseBar
  <1>14. CASE HandleRetryOnException(t, r)
    <2>1. CASE EventPresent(eventingState, r)
      <3>1. /\ SubmitReconciliationExecution(r, up, em, GetOrInitRetry(retryState, r))
            /\ GetOrInitRetry(retryState, r) \in [Resources -> Int]
        BY <1>1, <1>5, <1>14, <2>1, RetryTypes DEF HandleRetryOnException
      <3> HIDE DEF up
      <3> QED
        BY <1>7, <1>9, <1>10, <1>12, <2>1, <3>1 DEF pendingBar
    <2>2. CASE ~EventPresent(eventingState, r)
      <3>1. underProcessing' = up /\ eventingState' = em /\ queue' = queue
        BY <1>14, <2>2 DEF HandleRetryOnException
      <3> HIDE DEF up, em
      <3> QED
        BY <1>7, <1>12, <3>1 DEF pendingBar
    <2> QED
      BY <2>1, <2>2
  <1>15. CASE FinishWithoutRetry(t, r)
    <2>1. CASE /\ DeleteEventPresent(eventingState, r)
               /\ eventingState' \in {CleanupMarker(eventingState, r), eventingState}
               /\ underProcessing' = up
               /\ queue' = queue
      <3>1. r \notin pendingBar
        BY <1>8, <2>1 DEF EventPresent, DeleteEventPresent
      <3> HIDE DEF up, em
      <3> QED
        BY <1>7, <1>12, <2>1, <3>1 DEF pendingBar
    <2>2. CASE /\ EventPresent(eventingState, r)
               /\ SubmitReconciliationExecution(r, up, eventingState, ForgetRetry(r))
      <3>1. ForgetRetry(r) \in [Resources -> Int]
        BY <1>1, <1>5, RetryTypes
      <3> HIDE DEF up, em
      <3> QED
        BY <1>9, <1>10, <1>12, <2>2, <3>1 DEF pendingBar
    <2>3. CASE /\ UNCHANGED <<eventingState, queue>>
               /\ underProcessing' = up
      <3> HIDE DEF up, em
      <3> QED
        BY <1>12, <2>3 DEF pendingBar
    <2> HIDE DEF up, em
    <2> QED
      BY <1>15, <2>1, <2>2, <2>3 DEF FinishWithoutRetry, CleanupForDeletedEvent, up
  <1> QED
    BY <1>3, <1>13, <1>14, <1>15 DEF EventProcessingFinished

\* The rest of the steps are none of the serial executor's.
LEMMA OthersStutter ==
    ASSUME TasksInv, TasksInv',
           \/ UNCHANGED <<lockHolder, underProcessing, eventingState, queue, active>>
           \/ \E t \in Threads : PostponeReconciliation(t)
    PROVE  UNCHANGED <<phaseBar, pendingBar>>
  <1>1. EPTypeOK /\ EPTypeOK' /\ UNCHANGED <<underProcessing, eventingState, queue>>
    BY DEF TasksInv, PostponeReconciliation
  <1>2. \A x : InQueue(x)' <=> InQueue(x)
    BY <1>1 DEF InQueue
  <1>3. \A x : OnThread(x)' <=> OnThread(x)
    <2>1. CASE UNCHANGED <<lockHolder, active>>
      BY <2>1 DEF OnThread
    <2>2. ASSUME NEW t \in Threads, PostponeReconciliation(t)
          PROVE  \A x : OnThread(x)' <=> OnThread(x)
      <3>1. /\ lockHolder = t /\ lockHolder' = None
            /\ active' = [active EXCEPT ![t] = None]
        BY <2>2 DEF PostponeReconciliation, ThreadDone
      <3>2. \A s \in Threads :
                /\ active'[s] # None /\ s # lockHolder'
                      <=> active[s] # None /\ s # lockHolder
                /\ s # t => active'[s] = active[s]
        BY <1>1, <3>1, NoneAssumption DEF EPTypeOK
      <3> QED
        BY <3>1, <3>2 DEF OnThread
    <2> QED
      BY <2>1, <2>2
  <1>4. \A x \in Resources : PhaseOf(x)' = PhaseOf(x)
    BY <1>1, <1>2, <1>3, PhaseFromTasks, NextPhaseFromTasks
  <1> QED
    BY <1>1, <1>4 DEF phaseBar, pendingBar

\* The processor implements the serial executor: whatever events, results,
\* errors and stops occur, a resource has one execution at a time, and what is
\* received for it is pending until an execution is queued for it, the retry
\* of a failure included, or until it is deleted (EventProcessor.java 76-207).
THEOREM SerialExecutorIsImplemented == EPSpec => ImplementsSerialExecutor
  <1>1. EPInit => Abstract!AbsInit
    <2> SUFFICES ASSUME EPInit PROVE Abstract!AbsInit
      OBVIOUS
    <2>1. EPTypeOK
      BY InitialTasks DEF TasksInv
    <2>2. \A r \in Resources : PhaseOf(r) = "idle"
      BY <2>1, PhaseFromTasks DEF EPInit, InQueue, OnThread
    <2> QED
      BY <2>2 DEF EPInit, Abstract!AbsInit, phaseBar, pendingBar, EventPresent
  <1>2. TasksInv /\ TasksInv' /\ [EPNext]_epVars
            => [Abstract!AbsNext]_(Abstract!absVars)
    <2> SUFFICES ASSUME TasksInv, TasksInv', [EPNext]_epVars
                 PROVE  Abstract!AbsNext \/ UNCHANGED <<phaseBar, pendingBar>>
      BY DEF Abstract!absVars
    <2>1. ASSUME NEW r \in Resources,
                 \/ \E action \in {"DELETED", "OTHER"} : EventReceived(r, action)
                 \/ TimerEventReceived(r)
          PROVE  Abstract!AbsNext \/ UNCHANGED <<phaseBar, pendingBar>>
      BY <2>1, HandleEventRefines DEF EventReceived, TimerEventReceived
    <2>2. CASE UNCHANGED <<lockHolder, underProcessing, eventingState, queue, active>>
      BY <2>2, OthersStutter
    <2>3. ASSUME NEW t \in Threads, ProcessorStep(t)
          PROVE  Abstract!AbsNext \/ UNCHANGED <<phaseBar, pendingBar>>
      <3>1. ASSUME NEW p, HandleExecution(t, p)
            PROVE  UNCHANGED <<lockHolder, underProcessing, eventingState,
                               queue, active>>
        BY <3>1 DEF HandleExecution
      <3> QED
        BY <2>2, <2>3, <3>1, StartExecutionRefines, ExecutionDiesRefines,
           FinishedRefines, OthersStutter DEF ProcessorStep
    <2>4. CASE \/ \E r \in Resources :
                     \/ TimerFires(r) \/ WhitelistedEvent(r)
                     \/ \E v \in Versions \cup {None} : CacheChange(r, v)
               \/ TimerLifecycle
               \/ StopProcessor
               \/ UNCHANGED epVars
      BY <2>2, <2>4 DEF TimerFires, WhitelistedEvent, CacheChange,
           TimerLifecycle, StopProcessor, otherThanTimer, taskVars, epVars
    <2> QED
      BY <2>1, <2>3, <2>4 DEF EPNext
  <1> QED
    BY <1>1, <1>2, TasksInvariant, PTL
       DEF EPSpec, ImplementsSerialExecutor, Abstract!AbsSpec
===============================================================================
