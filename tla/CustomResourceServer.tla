------------------------- MODULE CustomResourceServer -------------------------
(***************************************************************************)
(* What the operator relies on of the Kubernetes API server and of the     *)
(* client's informer, which are not part of this repository.  The server   *)
(* keeps one object for each ResourceID, gives every change a new          *)
(* resourceVersion, refuses a write that carries an old one, and sends the *)
(* changes, in order, to the informer.  The informer applies a change to   *)
(* its store, the cache, and notifies its handler of it later.             *)
(***************************************************************************)
EXTENDS ResourceID, Naturals, SequencesExt

CONSTANTS MaxUserVersions,   \* bound: users change nothing from this version on
          ForeignFinalizers  \* may an object have a finalizer of others?

ASSUME ServerAssumption ==
    /\ IsFiniteSet(Resources)
    /\ MaxUserVersions \in Nat
    /\ ForeignFinalizers \subseteq BOOLEAN

\* A custom resource: its metadata (resourceVersion, uid, generation, our
\* finalizer, a foreign one, deletionTimestamp, an annotation that a reconciler
\* may set) and its status (the generation it was written for, an error
\* reported in it).
CustomResource ==
    [rv : Nat, uid : Nat, gen : Nat, fin : BOOLEAN, foreign : BOOLEAN,
     del : BOOLEAN, ann : BOOLEAN, obs : Nat, err : BOOLEAN]

VARIABLES store,           \* the objects of the server
          resourceVersion, \* the latest one given
          watch,           \* changes not yet in the informer's store
          notifications    \* changes in the store the handler has not seen

serverVars == <<store, resourceVersion, watch, notifications>>

\* A change: the object is now obj, or has been removed as obj.
Change == [res : Resources, obj : CustomResource, gone : BOOLEAN]

Notification ==
    [res : Resources, action : {"ADDED", "UPDATED", "DELETED"},
     old : CustomResource \cup {None}, new : CustomResource]

ServerTypeOK ==
    /\ store \in [Resources -> CustomResource \cup {None}]
    /\ resourceVersion \in Nat
    /\ watch \in Seq(Change)
    /\ notifications \in Seq(Notification)

ServerInit ==
    /\ store = [r \in Resources |-> None]
    /\ resourceVersion = 0
    /\ watch = <<>>
    /\ notifications = <<>>

\* The object as the server keeps it after a change to obj.
Stamped(obj) == [obj EXCEPT !.rv = resourceVersion + 1]

\* An object marked for deletion goes when its last finalizer does.
Removed(obj) == obj.del /\ ~obj.fin /\ ~obj.foreign

Commit(r, obj) ==
    /\ resourceVersion' = resourceVersion + 1
    /\ store' = [store EXCEPT ![r] = IF Removed(obj) THEN None ELSE Stamped(obj)]
    /\ watch' = Append(watch, [res |-> r, obj |-> Stamped(obj),
                               gone |-> Removed(obj)])
    /\ UNCHANGED notifications

\* A PUT of obj must carry the current version.  It is of the resource
\* without its status, or of the status alone.
IsCurrent(r, obj) == store[r] # None /\ store[r].rv = obj.rv
PutResource(r, obj) ==
    [store[r] EXCEPT !.fin = obj.fin, !.ann = obj.ann]
PutStatus(r, obj) ==
    [store[r] EXCEPT !.obs = obj.obs, !.err = obj.err]

\* A write that changes nothing creates no new version.
Write(r, obj) ==
    IF obj = store[r] THEN UNCHANGED serverVars ELSE Commit(r, obj)
Written(r, obj) == IF obj = store[r] THEN obj ELSE Stamped(obj)

\* The informer lists anew: of the changes that are not yet in its store only
\* the last of each resource is left, and of an object that is gone only what
\* the store, known, has of it.  A list has its objects in any order.
Overtaken(i) == \E j \in DOMAIN watch : j > i /\ watch[j].res = watch[i].res
Listed(known, c) == IF c.gone THEN [c EXCEPT !.obj = known[c.res]] ELSE c
Relists(known) ==
    LET left == {i \in DOMAIN watch : ~Overtaken(i)
                    /\ ~(watch[i].gone /\ known[watch[i].res] = None)}
    IN  {[k \in DOMAIN order |-> Listed(known, watch[order[k]])] :
            order \in SetToSeqs(left)}

\* The lists with which the informer of a new process may begin.
InitialLists ==
    {[k \in DOMAIN order |-> [res |-> order[k], obj |-> store[order[k]],
                              gone |-> FALSE]] :
        order \in SetToSeqs({r \in Resources : store[r] # None})}
-------------------------------------------------------------------------------
(***************************************************************************)
(* The users of the custom resources.                                      *)
(***************************************************************************)
UserCreates(r) ==
    /\ resourceVersion < MaxUserVersions
    /\ store[r] = None
    /\ \E foreign \in ForeignFinalizers :
          Commit(r, [rv |-> 0, uid |-> resourceVersion + 1, gen |-> 1,
                     fin |-> FALSE, foreign |-> foreign, del |-> FALSE,
                     ann |-> FALSE, obs |-> 0, err |-> FALSE])

\* The server increases the generation with a change of the spec, and with
\* the deletionTimestamp.
UserUpdatesSpec(r) ==
    /\ resourceVersion < MaxUserVersions
    /\ store[r] # None
    /\ Commit(r, [store[r] EXCEPT !.gen = @ + 1])

UserUpdatesMetadata(r) ==
    /\ resourceVersion < MaxUserVersions
    /\ store[r] # None
    /\ Commit(r, [store[r] EXCEPT !.ann = FALSE])

UserDeletes(r) ==
    /\ resourceVersion < MaxUserVersions
    /\ store[r] # None
    /\ ~store[r].del
    /\ IF store[r].fin \/ store[r].foreign
         THEN Commit(r, [store[r] EXCEPT !.del = TRUE, !.gen = @ + 1])
         ELSE /\ resourceVersion' = resourceVersion + 1
              /\ store' = [store EXCEPT ![r] = None]
              /\ watch' = Append(watch, [res |-> r, obj |-> Stamped(store[r]),
                                         gone |-> TRUE])
              /\ UNCHANGED notifications

\* The owner of the foreign finalizer, after a deletion.
ForeignFinalizerRemoved(r) ==
    /\ store[r] # None
    /\ store[r].del /\ store[r].foreign
    /\ Commit(r, [store[r] EXCEPT !.foreign = FALSE])

UserAction ==
    \E r \in Resources :
        \/ UserCreates(r)
        \/ UserUpdatesSpec(r)
        \/ UserUpdatesMetadata(r)
        \/ UserDeletes(r)
        \/ ForeignFinalizerRemoved(r)
===============================================================================
