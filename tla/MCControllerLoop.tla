--------------------------- MODULE MCControllerLoop ---------------------------
(***************************************************************************)
(* ControllerLoop with one custom resource, or with two ids of which one   *)
(* comes to exist.  Users change it a bounded number of times              *)
(* (MaxUserVersions); everything else is bounded by that, by the limit of  *)
(* the retries, and by the numbers of restarts, relists and changes of the *)
(* secondary resource.                                                     *)
(***************************************************************************)
EXTENDS ControllerLoop

\* A secondary object maps to the custom resources of the controller, or to
\* one that nobody watches as well.
OwnTargets == {Resources}
AllTargets == {Resources, Resources \cup {Unwatched}}
===============================================================================
