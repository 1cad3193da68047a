------------------------------ MODULE ResourceID ------------------------------
(***************************************************************************)
(* ResourceID.java: the name and namespace of a custom resource, the key   *)
(* of every map of the event processor.  A deleted resource that is        *)
(* created again has the same ResourceID.                                  *)
(***************************************************************************)
CONSTANTS Resources,   \* the ResourceIDs of the controller's custom resources
          None         \* null, Optional.empty(), an idle thread, a free lock

ASSUME ResourceIDAssumption == None \notin Resources
===============================================================================
