--------------------------- MODULE MCEventProcessor ---------------------------
(***************************************************************************)
(* EventProcessor with the whole environment free: any event, any change   *)
(* of the cache and any outcome of an execution, at any time.              *)
(***************************************************************************)
EXTENDS EventProcessor, TLC

\* Retries, queues and timers are bounded by the code; nothing is bounded
\* here but the constants.
Symmetry ==
    Permutations(Resources) \cup Permutations(Threads) \cup Permutations(Versions)
===============================================================================
