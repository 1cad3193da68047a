------------------------- MODULE ResourceEventFilters -------------------------
(***************************************************************************)
(* ResourceEventFilters.java, and the filter ControllerResourceEventSource *)
(* combines from them: whether a change of a custom resource becomes an    *)
(* event of the processor.  old is None for onAdd and onDelete.            *)
(***************************************************************************)
EXTENDS OnceWhitelistEventFilter, Naturals

CONSTANTS UseFinalizer,             \* ControllerConfiguration.useFinalizer()
          ObservedGenerationAware,  \* every resource has a status that is
          EventFilter               \* ControllerConfiguration.getEventFilter()

ASSUME FilterAssumption ==
    /\ UseFinalizer \in BOOLEAN
    /\ ObservedGenerationAware \in BOOLEAN
    /\ EventFilter \in {"passthrough", "specChanges"}

\* Mutant of the next definition: the addition of the finalizer is no event.
FinalizerNeeded(old, new) == UseFinalizer /\ ~new.fin

\* USE_FINALIZER.
FinalizerNeededAndApplied(old, new) ==
    /\ UseFinalizer
    /\ ~new.fin \/ (old # None /\ ~old.fin)

\* MARKED_FOR_DELETION.
MarkedForDeletion(new) == new.del

\* Mutant of the next definition: the status is not looked at.
GenerationIsCompared(old, new) ==
    old = None \/ ~GenerationAware \/ old.gen < new.gen

\* GENERATION_AWARE; a null observedGeneration is 0.
GenerationAwareAccepts(old, new) ==
    IF GenerationAware /\ ObservedGenerationAware
      THEN new.gen > new.obs
      ELSE old = None \/ ~GenerationAware \/ old.gen < new.gen

\* A filter of the user's: everything, or what leaves the spec unchanged out.
EventFilterAccepts(old, new) ==
    EventFilter = "passthrough" \/ old = None \/ old.gen # new.gen

\* The filters or() evaluates before the whitelist, which is thus consumed
\* only by a change that all of them reject.
OtherFiltersAccept(old, new) ==
    \/ FinalizerNeededAndApplied(old, new)
    \/ MarkedForDeletion(new)
    \/ EventFilterAccepts(old, new) /\ GenerationAwareAccepts(old, new)

AcceptChange(r, old, new) == OtherFiltersAccept(old, new) \/ WhitelistAccepts(r)
===============================================================================
