----------------------------- MODULE EventMarker -----------------------------
(***************************************************************************)
(* EventMarker.java: what has been received for each resource, and not yet *)
(* processed.  The Java class wraps a HashMap in which an absent entry     *)
(* reads as NO_EVENT_PRESENT; here the map is a total function es, and     *)
(* every operator takes the map as it is in the middle of a handler.       *)
(***************************************************************************)

EventingState == {"NO_EVENT_PRESENT", "EVENT_PRESENT", "DELETE_EVENT_PRESENT"}

EventPresent(es, r) == es[r] = "EVENT_PRESENT"

DeleteEventPresent(es, r) == es[r] = "DELETE_EVENT_PRESENT"

\* markEventReceived throws when a delete event is present; both callers
\* check that there is none.
MarkEventReceived(es, r) == [es EXCEPT ![r] = "EVENT_PRESENT"]

\* Mutant of the next definition: the mark stays.
UnMarkNothing(es, r) == es

\* unMarkEventReceived throws on a delete event and does nothing when no
\* event is present.
UnMarkEventReceived(es, r) ==
    [es EXCEPT ![r] = IF @ = "EVENT_PRESENT" THEN "NO_EVENT_PRESENT" ELSE @]

MarkDeleteEventReceived(es, r) == [es EXCEPT ![r] = "DELETE_EVENT_PRESENT"]

\* Mutant of the next definition: the entry is nulled but kept.
CleanupToNull(es, r) == [es EXCEPT ![r] = "NULL"]

CleanupMarker(es, r) == [es EXCEPT ![r] = "NO_EVENT_PRESENT"]
===============================================================================
