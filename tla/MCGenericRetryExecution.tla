------------------------ MODULE MCGenericRetryExecution ------------------------
(***************************************************************************)
(* Retries without limit, without a retry, and with a few; multipliers     *)
(* below 1, of 1, of 3 / 2 (the default) and of 2; maxima below, at and    *)
(* above the initial interval.  A long ends at 40, which a few delays      *)
(* reach.                                                                  *)
(***************************************************************************)
EXTENDS GenericRetryExecution

Multipliers == {<<1, 2>>, <<1, 1>>, <<3, 2>>, <<2, 1>>}

MCConfigurations ==
    {[maxAttempts |-> a, initialInterval |-> i, num |-> m[1], den |-> m[2],
      maxInterval |-> x] :
        a \in {-1, 0, 1, 4}, i \in {0, 1, 3, 5}, m \in Multipliers,
        x \in {-1, 0, 3, 11, 40}}
===============================================================================
