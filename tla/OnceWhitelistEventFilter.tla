----------------------- MODULE OnceWhitelistEventFilter -----------------------
(***************************************************************************)
(* OnceWhitelistEventFilterEventFilter.java and its creation by            *)
(* ControllerResourceEventSource: the resources whose next event is to be  *)
(* accepted although every other filter rejects it.  The filter exists     *)
(* only for a generation aware controller; for any other one               *)
(* whitelistNextEvent does nothing.                                        *)
(***************************************************************************)
EXTENDS ResourceID

CONSTANT GenerationAware   \* ControllerConfiguration.isGenerationAware()

ASSUME GenerationAwareAssumption == GenerationAware \in BOOLEAN

VARIABLE whiteList    \* a subset of Resources

WhitelistTypeOK == whiteList \subseteq Resources

WhitelistInit == whiteList = {}

WhitelistNextEvent(r) ==
    whiteList' = IF GenerationAware THEN whiteList \cup {r} ELSE whiteList

\* acceptChange: it accepts, and is consumed by, one event of a whitelisted
\* resource.
WhitelistAccepts(r) == r \in whiteList

ConsumeWhitelist(r) ==
    /\ r \in whiteList
    /\ whiteList' = whiteList \ {r}
===============================================================================
