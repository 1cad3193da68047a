------------------------- MODULE MCEventSourceManager -------------------------
(***************************************************************************)
(* The manager's own two event sources, and one of a reconciler that may   *)
(* register it at any time.                                                *)
(***************************************************************************)
EXTENDS EventSourceManager
===============================================================================
