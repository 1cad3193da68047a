------------------------- MODULE InformerEventSource -------------------------
(***************************************************************************)
(* InformerEventSource.java: an informer of secondary resources, whose     *)
(* changes become events of the primary resources a function maps them to  *)
(* (Mappers.java has some).  There is one secondary resource.  Its server  *)
(* and its informer are not part of this repository: the informer's store  *)
(* follows the server, merging changes when it lists anew, and notifies    *)
(* its handler later, in order.                                            *)
(***************************************************************************)
EXTENDS ResourceID, Naturals, Sequences

CONSTANTS Unwatched,          \* a ResourceID of a namespace no informer watches
          SecondaryTargets,   \* the sets of ResourceIDs an object may map to
          SkipUpdateIfNoChange, \* skipUpdateEventPropagationIfNoChange
          MaxSecondaryChanges \* bound: changes of the secondary resource

ASSUME InformerAssumption ==
    /\ Unwatched \notin Resources
    /\ SecondaryTargets \subseteq SUBSET (Resources \cup {Unwatched})
    /\ SkipUpdateIfNoChange \in BOOLEAN
    /\ MaxSecondaryChanges \in Nat

VARIABLES secondary,       \* the server's object: its version, where it maps
          secondaryStore,  \* the version in the informer's store, 0 is none
          secondaryNotifications, \* those the handler has not seen
          propagating      \* what the handler's forEach has still to visit

informerVars == <<secondary, secondaryStore, secondaryNotifications, propagating>>

Secondary == [version : Nat, to : SUBSET (Resources \cup {Unwatched})]

\* The object of onAdd, onUpdate or onDelete, with its version, and for onUpdate
\* that of the old object; old is 0 for the others.
SecondaryNotification ==
    [to : SUBSET (Resources \cup {Unwatched}), old : Nat, new : Nat]

InformerTypeOK ==
    /\ secondary \in Secondary
    /\ secondaryStore \in Nat
    /\ secondaryNotifications \in Seq(SecondaryNotification)
    /\ propagating \subseteq Resources \cup {Unwatched}

InformerInit ==
    /\ secondary = [version |-> 0, to |-> {}]
    /\ secondaryStore = 0
    /\ secondaryNotifications = <<>>
    /\ propagating = {}
-------------------------------------------------------------------------------
\* The secondary resource is created or changed.  Of a deletion the handler is
\* notified in the same way, with the last object.
SecondaryChanges ==
    /\ secondary.version < MaxSecondaryChanges
    /\ \E to \in SecondaryTargets :
          secondary' = [version |-> secondary.version + 1, to |-> to]
    /\ UNCHANGED <<secondaryStore, secondaryNotifications, propagating>>

SecondaryInformerStores ==
    /\ secondaryStore # secondary.version
    /\ secondaryStore' = secondary.version
    /\ secondaryNotifications' = Append(secondaryNotifications,
                                   [to |-> secondary.to, old |-> secondaryStore,
                                    new |-> secondary.version])
    /\ UNCHANGED <<secondary, propagating>>

\* A resync; the bound is one notification of it at a time.
SecondaryInformerResyncs ==
    /\ secondaryStore > 0 /\ secondaryStore = secondary.version
    /\ secondaryNotifications = <<>>
    /\ secondaryNotifications' = <<[to |-> secondary.to, old |-> secondaryStore,
                                    new |-> secondaryStore]>>
    /\ UNCHANGED <<secondary, secondaryStore, propagating>>

\* Mutant of the next definition: an update is skipped whether or not it changes
\* anything.
SkipsUpdates(n) == SkipUpdateIfNoChange /\ n.old # 0

\* The condition of onUpdate, which onAdd and onDelete do not have.
SkipsPropagation(n) == SkipUpdateIfNoChange /\ n.old = n.new

\* onAdd, onUpdate and onDelete, up to the forEach of propagateEvent.
PropagateEvent ==
    /\ propagating = {}
    /\ secondaryNotifications # <<>>
    /\ LET n == Head(secondaryNotifications)
       IN  propagating' = IF SkipsPropagation(n) THEN {} ELSE n.to
    /\ secondaryNotifications' = Tail(secondaryNotifications)
    /\ UNCHANGED <<secondary, secondaryStore>>

\* The next id of the forEach, in any order, as it is a set.
Visits(r) ==
    /\ r \in propagating
    /\ propagating' = propagating \ {r}
    /\ UNCHANGED <<secondary, secondaryStore, secondaryNotifications>>

\* handleEvent throws for an id whose namespace has no informer in
\* ControllerResourceCache.  That ends the forEach.
VisitThrows(id) ==
    /\ id \in propagating
    /\ propagating' = {}
    /\ UNCHANGED <<secondary, secondaryStore, secondaryNotifications>>

\* The operator starts anew: the informer has still to list.
InformerRestarts ==
    /\ secondaryStore' = 0
    /\ secondaryNotifications' = <<>>
    /\ propagating' = {}
    /\ UNCHANGED secondary
===============================================================================
