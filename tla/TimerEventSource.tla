--------------------------- MODULE TimerEventSource ---------------------------
(***************************************************************************)
(* TimerEventSource.java: one pending one-shot task per resource, used by  *)
(* the event processor for retries and for rescheduled reconciliations.    *)
(*                                                                         *)
(* onceTasks holds the resources whose task is scheduled and has not begun *)
(* to run.  The Java map also keeps the entry of a task that has run: it   *)
(* is inert there, since replacing or cancelling it does nothing more than *)
(* removing it.  java.util.Timer owns ONE thread: timerThread is the       *)
(* resource whose task is in run(), waiting for the lock of the event      *)
(* processor, or None.  Delays are abstracted: a scheduled task may run at *)
(* any later time.                                                         *)
(***************************************************************************)
EXTENDS ResourceID

VARIABLES timerState,  \* "new", "running" (running.get()), or "stopped", which
                       \* is also a Timer that an exception has ended
          onceTasks,   \* the resources with a task waiting for its delay
          timerThread  \* the resource whose task is executing, or None

timerVars == <<timerState, onceTasks, timerThread>>

TimerState == {"new", "running", "stopped"}

TimerTypeOK ==
    /\ timerState \in TimerState
    /\ onceTasks \subseteq Resources
    /\ timerThread \in Resources \cup {None}

TimerInit ==
    /\ timerState = "new"
    /\ onceTasks = {}
    /\ timerThread = None

\* scheduleOnce: replaces the task of r.  When the timer event source has
\* not been started yet, or is stopped, the call throws an
\* IllegalStateException and nothing is scheduled.
ScheduleOnce(tasks, r) ==
    IF timerState = "running" THEN tasks \cup {r} ELSE tasks

\* cancelOnceSchedule, also called by cleanupForResource.  A task whose run
\* has begun is not affected.
CancelOnceSchedule(tasks, r) == tasks \ {r}

StartTimer ==
    /\ timerState = "new"
    /\ timerState' = "running"
    /\ UNCHANGED <<onceTasks, timerThread>>

\* stop: every task is cancelled, and the Timer with them.
StopTimer ==
    /\ timerState = "running"
    /\ timerState' = "stopped"
    /\ onceTasks' = {}
    /\ UNCHANGED timerThread

\* The Timer's thread takes a due task and enters EventProducerTimeTask.run.
FireTimer(r) ==
    /\ timerState = "running"
    /\ timerThread = None
    /\ r \in onceTasks
    /\ onceTasks' = onceTasks \ {r}
    /\ timerThread' = r
    /\ UNCHANGED timerState
===============================================================================
