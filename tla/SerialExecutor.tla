---------------------------- MODULE SerialExecutor ----------------------------
(***************************************************************************)
(* What the event processor promises, without its locks, timers, threads   *)
(* and caches: a resource has at most one execution, queued or running;    *)
(* an event is either pending or handed to the execution that is queued    *)
(* with it; and what is pending is forgotten only with a deletion.         *)
(*                                                                         *)
(* This is the specification the README and the class comments of          *)
(* EventProcessor.java and EventMarker.java describe; EventProcessor is    *)
(* shown to implement it.                                                  *)
(***************************************************************************)
CONSTANT Resources

VARIABLES phase,     \* of the execution of each resource
          pending    \* the resources with an event not handed over yet

absVars == <<phase, pending>>

\* A blocked resource is not executed any more: the processor was stopped
\* before its execution ended, the execution died, or it was rejected.
Phase == {"idle", "queued", "running", "blocked"}

AbsTypeOK ==
    /\ phase \in [Resources -> Phase]
    /\ pending \subseteq Resources

AbsInit ==
    /\ phase = [r \in Resources |-> "idle"]
    /\ pending = {}

\* A step of the execution of r, from one phase to another.
Moves(r, from, to) ==
    /\ phase[r] = from
    /\ phase' = [phase EXCEPT ![r] = to]

\* The event waits: r is busy, or not in the cache.
Receive(r) ==
    /\ pending' = pending \cup {r}
    /\ UNCHANGED phase

\* The event is handed over at once, with what was pending.
ReceiveAndQueue(r) ==
    /\ Moves(r, "idle", "queued")
    /\ pending' = pending \ {r}

Start(r) ==
    /\ Moves(r, "queued", "running")
    /\ UNCHANGED pending

Finish(r) ==
    /\ Moves(r, "running", "idle")
    /\ UNCHANGED pending

\* After a failure the retry is itself a pending event.
FinishToRetry(r) ==
    /\ Moves(r, "running", "idle")
    /\ pending' = pending \cup {r}

FinishAndQueue(r) ==
    /\ r \in pending
    /\ Moves(r, "running", "queued")
    /\ pending' = pending \ {r}

Block(r) ==
    /\ Moves(r, "running", "blocked")
    /\ UNCHANGED pending

\* The executor has been shut down: it rejects the execution that was to be
\* queued, with the events that had been handed to it.
Reject(r) ==
    /\ Moves(r, "idle", "blocked") \/ Moves(r, "running", "blocked")
    /\ pending' = pending \ {r}

\* The resource was deleted.
Forget(r) ==
    /\ pending' = pending \ {r}
    /\ UNCHANGED phase

AbsNext ==
    \E r \in Resources :
        \/ Receive(r) \/ ReceiveAndQueue(r)
        \/ Start(r)
        \/ Finish(r) \/ FinishToRetry(r) \/ FinishAndQueue(r)
        \/ Block(r) \/ Reject(r) \/ Forget(r)

AbsSpec == AbsInit /\ [][AbsNext]_absVars
===============================================================================
