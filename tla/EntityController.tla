-------------------------- MODULE EntityController --------------------------
(***************************************************************************)
(* The Entity controller of the topo operator                              *)
(* (pkg/controller/topo/entity/reconciler.go): Entity resources of the     *)
(* Kubernetes API are propagated, one reconcile at a time, to objects of   *)
(* the onos-topo service.                                                  *)
(*                                                                         *)
(* Two instances of the controller run in the deployed program, see        *)
(* Cluster.                                                                *)
(***************************************************************************)
EXTENDS Cluster

-----------------------------------------------------------------------------
(* The Service's event handler lists the cached Entity resources.          *)
DeliverService ==
  /\ Len(services) > 1
  /\ services' = Tail(services)
  /\ queue' = [w \in Workers |-> queue[w] \cup Requests]
  /\ UNCHANGED <<versions, topo, pc, request, resource, fresh, topoFresh,
                 operations, outages, faults>>

-----------------------------------------------------------------------------
(* One reconcile of worker w, step by step.                                *)

WriteState(w, state, again) ==
  Write(w, [resource[w] EXCEPT !.state = state], again)

(* The Service is looked up in the cache.                                  *)
ReadService(w) ==
  /\ pc[w] = "service"
  /\ Goto(w, IF Head(services) = "up" THEN "found" ELSE "notFound")
  /\ UNCHANGED <<versions, services, topo, topoFresh, operations, outages,
                 faults>>

(* Deviation: any error passes for a Service that is gone.                 *)
ReadServiceGivesUp(w) ==
  /\ pc[w] = "service"
  /\ Fault
  /\ Goto(w, "notFound")
  /\ UNCHANGED <<versions, services, topo, topoFresh, operations, outages>>

(* Any error but NotFound passes for a Service that is there.              *)
ReadServiceFails(w) ==
  /\ pc[w] = "service"
  /\ Fault
  /\ Goto(w, "found")
  /\ UNCHANGED <<versions, services, topo, topoFresh, operations, outages>>

(* Deviation: the wait for the Service is not an error.                    *)
SetPendingDone(w) ==
  /\ pc[w] = "notFound"
  /\ ~resource[w].deleting
  /\ WriteState(w, "Pending", Done)

(* Deviation: a resource to delete goes back to Pending too.               *)
SetPendingDeleting(w) ==
  /\ pc[w] = "notFound"
  /\ WriteState(w, "Pending", Requeue)

(* No Service: back to Pending; the NotFound error is returned.            *)
SetPending(w) ==
  /\ pc[w] = "notFound"
  /\ ~resource[w].deleting
  /\ WriteState(w, "Pending", Requeue)

(* No Service: give the object up; the NotFound error is returned.         *)
Abandon(w) ==
  /\ pc[w] = "notFound"
  /\ resource[w].deleting
  /\ Write(w, [resource[w] EXCEPT
                 !.finalizers = RemoveFinalizer(@, TopoFinalizer)], Requeue)

SetAdding(w) ==
  /\ pc[w] = "found"
  /\ ~resource[w].deleting /\ resource[w].state = "Pending"
  /\ WriteState(w, "Adding", Done)

AddTopoFinalizer(w) ==
  /\ pc[w] = "found"
  /\ ~resource[w].deleting /\ resource[w].state = "Adding"
  /\ ~HasTopoFinalizer(resource[w])
  /\ Write(w, [resource[w] EXCEPT
                 !.finalizers = AddFinalizer(@, TopoFinalizer)], Done)

(* Deviation: the object is created whether the finalizer is there or not. *)
AddingUnheld(version) == ~version.deleting /\ version.state = "Adding"

Adding(version) ==
  /\ ~version.deleting /\ version.state = "Adding"
  /\ HasTopoFinalizer(version)

Removing(version) == version.deleting /\ version.state = "Removing"

(* ConnectService lists the cached Services and does not wait for a link.  *)
ConnectService(w) ==
  /\ pc[w] = "found"
  /\ Adding(resource[w]) \/ Removing(resource[w])
  /\ Head(services) = "up"
  /\ Goto(w, IF resource[w].deleting THEN "delete" ELSE "exists")
  /\ UNCHANGED <<versions, services, topo, topoFresh, operations, outages,
                 faults>>

ServiceNotFound(w) ==
  /\ pc[w] = "found"
  /\ Adding(resource[w]) \/ Removing(resource[w])
  /\ Head(services) = "down"
  /\ Return(w, Requeue) /\ Drop(w)
  /\ UNCHANGED <<versions, services, topo, topoFresh, operations, outages,
                 faults>>

(* Deviation: an object that exists is taken for the one wanted.           *)
EntityExistsSuffices(w) ==
  /\ pc[w] = "exists"
  /\ ServiceUp
  /\ Goto(w, IF topo[ObjectID(w)] = NoObject THEN "create" ELSE "created")
  /\ UNCHANGED <<versions, services, topo, topoFresh, operations, outages,
                 faults>>

EntityExists(w) ==
  /\ pc[w] = "exists"
  /\ ServiceUp
  /\ LET object == topo[ObjectID(w)] IN
       /\ Goto(w, IF object = NoObject THEN "create" ELSE "update")
       /\ topoFresh' = IF object = NoObject THEN topoFresh \ {w}
                       ELSE topoFresh \cup {w}
  /\ UNCHANGED <<versions, services, topo, operations, outages, faults>>

(***************************************************************************)
(* Update is refused when the object is gone (NotFound) or was written by  *)
(* someone else (Conflict), and Reconcile passes over both refusals.       *)
(***************************************************************************)
UpdateEntity(w) ==
  /\ pc[w] = "update"
  /\ ServiceUp
  /\ IF w \in topoFresh
     THEN /\ topo' = [topo EXCEPT ![ObjectID(w)] =
                        SetAspects(@, resource[w].spec.aspects)]
          /\ Touch(ObjectID(w))
     ELSE UNCHANGED <<topo, topoFresh>>
  /\ Reply(w, "create")

(* Deviation: every error of Create is a success, Unavailable too.         *)
CreateEntityAnyway(w) ==
  /\ pc[w] = "create"
  /\ IF topo[ObjectID(w)] = NoObject /\ ServiceUp
     THEN topo' = [topo EXCEPT ![ObjectID(w)] =
                     SetAspects(NoAspects, resource[w].spec.aspects)]
     ELSE UNCHANGED topo
  /\ UNCHANGED topoFresh
  /\ Reply(w, "created")

(* Create is called after an update too, and AlreadyExists is a success.   *)
CreateEntity(w) ==
  /\ pc[w] = "create"
  /\ ServiceUp
  /\ IF topo[ObjectID(w)] = NoObject
     THEN topo' = [topo EXCEPT ![ObjectID(w)] =
                     SetAspects(NoAspects, resource[w].spec.aspects)]
     ELSE UNCHANGED topo
  /\ UNCHANGED topoFresh
  /\ Reply(w, "created")

SetAdded(w) ==
  /\ pc[w] = "created"
  /\ WriteState(w, "Added", Done)

(* Deviation: only an object known to be there is withdrawn.               *)
SetRemovingAdded(w) ==
  /\ pc[w] = "found"
  /\ resource[w].deleting /\ resource[w].state = "Added"
  /\ WriteState(w, "Removing", Done)

SetRemoving(w) ==
  /\ pc[w] = "found"
  /\ resource[w].deleting /\ resource[w].state \in {"Adding", "Added"}
  /\ WriteState(w, "Removing", Done)

DeleteEntity(w) ==
  /\ pc[w] = "delete"
  /\ ServiceUp
  /\ topo' = [topo EXCEPT ![ObjectID(w)] = NoObject]
  /\ Touch(ObjectID(w))
  /\ Reply(w, "deleted")

SetRemoved(w) ==
  /\ pc[w] = "deleted"
  /\ WriteState(w, "Removed", Done)

Release(w) ==
  /\ pc[w] = "found"
  /\ resource[w].deleting /\ resource[w].state = "Removed"
  /\ Write(w, [resource[w] EXCEPT
                 !.finalizers = RemoveFinalizer(@, TopoFinalizer)], Done)

(* No case of the switch: Added already, or a Pending one to delete.       *)
Ignore(w) ==
  /\ pc[w] = "found"
  /\ IF resource[w].deleting
     THEN resource[w].state = "Pending"
     ELSE resource[w].state \in {"Added", "Removing", "Removed"}
  /\ Return(w, Done) /\ Drop(w)
  /\ UNCHANGED <<versions, services, topo, topoFresh, operations, outages,
                 faults>>

-----------------------------------------------------------------------------

Step(w) ==
  \/ ReadService(w) \/ ReadServiceFails(w)
  \/ SetPending(w) \/ Abandon(w)
  \/ SetAdding(w) \/ AddTopoFinalizer(w)
  \/ ConnectService(w) \/ ServiceNotFound(w) \/ CallFails(w)
  \/ EntityExists(w) \/ UpdateEntity(w) \/ CreateEntity(w) \/ SetAdded(w)
  \/ SetRemoving(w) \/ DeleteEntity(w) \/ SetRemoved(w) \/ Release(w)
  \/ Ignore(w)

Next ==
  \/ \E e \in Resources : User(e) \/ CollectorRelease(e) \/ Deliver(e)
  \/ \E w \in Workers, e \in Resources : Take(w, e)
  \/ \E w \in Workers : Step(w)
  \/ \E u \in URIs : TopoClientWrite(u)
  \/ DeliverService \/ Resync \/ TopoInstall \/ TopoUninstall \/ Restart

(***************************************************************************)
(* Watches deliver, the garbage collector collects, a worker finishes the  *)
(* reconcile it has begun and its queue is first in, first out.  Nothing   *)
(* obliges users, and faults are limited by their bound.                   *)
(***************************************************************************)
Fairness ==
  /\ \A e \in Resources : /\ WF_vars(Deliver(e))
                          /\ WF_vars(CollectorRelease(e))
  /\ WF_vars(DeliverService)
  /\ \A w \in Workers : WF_vars(Step(w))
  /\ \A w \in Workers, e \in Resources : SF_vars(Take(w, e))

Spec == Init /\ [][Next]_vars

FairSpec == Spec /\ Fairness

-----------------------------------------------------------------------------
(* Properties.                                                             *)

(* e answers for its object: the deletion of e will withdraw it.           *)
Held(version) ==
  /\ Exists(version)
  /\ HasTopoFinalizer(version)
  /\ version.state # "Removed"

(* Object u is in onos-topo, and no Entity will withdraw it.               *)
Orphan(u) ==
  /\ topo[u] # NoObject
  /\ ~\E e \in Resources : Held(Current(e)) /\ Current(e).spec.uri = u

(***************************************************************************)
(* "When a topology resource is deleted, the operator will remove the      *)
(* associated object from the topology" (README.md:46-47): no object stays *)
(* in onos-topo without an Entity resource that still has to withdraw it.  *)
(***************************************************************************)
NoOrphan == \A u \in URIs : ~Orphan(u)

(* w has read that there is no Service, for a resource to delete.          *)
GivingUp(w) == pc[w] = "notFound" /\ resource[w].deleting

OrphansGivenUp ==
  \A u \in URIs : Orphan(u)' =>
    \/ Orphan(u)
    \/ /\ outages > 0
       /\ \E w \in Workers :
            GivingUp(w) /\ pc'[w] = "idle" /\ ObjectID(w) = u

(***************************************************************************)
(* A controller instance leaves an object behind in one way only: after    *)
(* onos-topo was removed once, a deletion that has read the cached Service *)
(* as missing gives its object up (reconciler.go:199-207).  Nothing else   *)
(* does: stale copies, refused writes, failed look-ups and calls, lost     *)
(* replies, restarts, Entities that share the object, or an onos-topo that *)
(* is not there yet.                                                       *)
(***************************************************************************)
OnlyGivenUp == [][OrphansGivenUp]_vars

(***************************************************************************)
(* status.state moves along Pending, Adding, Added, Removing, Removed, or  *)
(* back to Pending while the resource is wanted; deletion only starts a    *)
(* withdrawal, and only the two last states follow it.  The concurrent     *)
(* writers are the controllers, the users and the garbage collector.       *)
(***************************************************************************)
Precedes == {<<"Pending", "Adding">>, <<"Adding", "Added">>,
             <<"Adding", "Removing">>, <<"Added", "Removing">>,
             <<"Removing", "Removed">>}

LegalEdge(before, after) ==
  /\ Exists(before) /\ Exists(after)
  /\ before.state # after.state
  => /\ before.deleting = after.deleting
     /\ \/ <<before.state, after.state>> \in Precedes
        \/ after.state = "Pending" /\ ~before.deleting
     /\ after.state \in {"Removing", "Removed"} <=> before.deleting

StateEdges ==
  [][\A e \in Resources : LegalEdge(Current(e), Current(e)')]_vars

(***************************************************************************)
(* "StateAdded when entity is added to topo" (entity.go:27): the step that *)
(* reports Added finds the aspects of the very spec that is on the server  *)
(* in the object, unless the Service was removed under the reconcile.      *)
(***************************************************************************)
AddedCarriesSpec ==
  [][\A e \in Resources :
       /\ Exists(Current(e)) /\ Exists(Current(e)')
       /\ Current(e).state # "Added" /\ Current(e)'.state = "Added"
       => LET object == topo[Current(e)'.spec.uri]
          IN \/ object = NoObject /\ outages > 0
             \/ /\ object # NoObject
                /\ Carries(object, Current(e)'.spec.aspects)]_vars

(***************************************************************************)
(* The finalizer is on the server before the status claims an object, and  *)
(* stays until the object is withdrawn (reconciler.go:142-151): a resource *)
(* past Adding cannot vanish between two steps of a reconcile, whichever   *)
(* worker writes from whichever copy.                                      *)
(***************************************************************************)
FinalizerFirst ==
  \A e \in Resources :
    /\ Exists(Current(e))
    /\ Current(e).state \in {"Added", "Removing", "Removed"}
    => HasTopoFinalizer(Current(e))

(* A Pending resource to delete matches no case of the switch (line 210).  *)
StuckPending(version) ==
  version.deleting /\ version.state = "Pending" /\ HasTopoFinalizer(version)

(***************************************************************************)
(* No wake-up is lost: when no event and no retry is left for e, e is      *)
(* where the controller means to leave it.  In particular a resource that  *)
(* waits for the Service keeps being tried.  Two exceptions: StuckPending, *)
(* and a lookup of a removed Service that fails and passes for a Service   *)
(* that is there (lines 121-130), which leaves the resource Added.         *)
(***************************************************************************)
NoLostWakeup ==
  \A w \in Workers, e \in Resources : AtRest(w, e) =>
    LET c == Current(e) IN
    \/ ~Exists(c) \/ Finalized(c)
    \/ StuckPending(c)
    \/ ~c.deleting /\ c.state = "Added" /\ (ServiceUp \/ faults > 0)

(***************************************************************************)
(* As long as onos-topo keeps its objects, a resource at rest that is not  *)
(* to be deleted has its object in onos-topo (README.md:44-46), given that *)
(* no two resources name the same URI and that users leave it alone.       *)
(***************************************************************************)
RestMeansPublished ==
  \A w \in Workers, e \in Resources :
    /\ AtRest(w, e) /\ ObjectsKept
    /\ Exists(Current(e)) /\ ~Current(e).deleting
    => topo[Current(e).spec.uri] # NoObject

(* A wanted resource gets its object and learns of it (README.md:44-46).   *)
EventuallyPublished ==
  \A e \in Resources : Wanted(e) /\ ServiceUp ~>
    \/ ~Wanted(e) \/ ~ServiceUp
    \/ Current(e).state = "Added" /\ topo[Current(e).spec.uri] # NoObject

(* A resource to delete goes away (README.md:46-47), or it is stuck.       *)
EventuallyWithdrawn ==
  \A e \in Resources :
    Deleting(e) ~> ~Deleting(e) \/ StuckPending(Current(e))

(* The controller is never done with a resource it holds back from being   *)
(* deleted.                                                                *)
NeverStuck ==
  \A w \in Workers, e \in Resources :
    AtRest(w, e) /\ Deleting(e) => ~HasTopoFinalizer(Current(e))

(***************************************************************************)
(* "Remove the finalizer" (reconciler.go:200, 240): a step of the          *)
(* controller adds or removes its own finalizer and leaves those of others *)
(* alone, the garbage collector's among them.                              *)
(***************************************************************************)
OnlyItsFinalizer ==
  [][(\E w \in Workers : Step(w)) =>
     \A e \in Resources : Exists(Current(e)) /\ Exists(Current(e)') =>
       LET before == Current(e).finalizers
       IN Current(e)'.finalizers \in
            {before, AddFinalizer(before, TopoFinalizer),
             WithoutFinalizer(before, TopoFinalizer)}]_vars

-----------------------------------------------------------------------------
(* What the controller promises, in the terms of TopologySync.             *)

ChargeOf(version) == IF Held(version) THEN version.spec.uri ELSE NoObject

(***************************************************************************)
(* The controller implements TopologySync: a resource is in charge of its  *)
(* object while it is held, objects appear only under a resource in charge *)
(* and are withdrawn only for one that is not, or no longer, to be served. *)
(* It takes onos-topo for gone while a deletion has found no Service.      *)
(***************************************************************************)
Sync ==
  INSTANCE TopologySync WITH
    Nothing <- NoObject,
    Names <- [e \in Resources |-> {spec.uri : spec \in SpecsOf[e]}],
    wanted <- {e \in Resources : Wanted(e)},
    charge <- [e \in Resources |-> ChargeOf(Current(e))],
    objects <- {u \in URIs : topo[u] # NoObject},
    closed <- outages > 0 /\ \E w \in Workers : GivingUp(w)

ImplementsTopologySync == Sync!Spec

-----------------------------------------------------------------------------
(* Invariants that the proofs are built on.                                *)

(* Only a worker about to update counts on the revision it read.           *)
RevisionInv ==
  \A w \in topoFresh :
    pc[w] = "update" /\ topo[ObjectID(w)] # NoObject

(* The path a reconcile has taken.                                         *)
PathInv ==
  \A w \in Workers :
    /\ pc[w] \in {"exists", "update", "create", "created"} =>
         Adding(resource[w])
    /\ pc[w] \in {"delete", "deleted"} => Removing(resource[w])

(* Only a resource to be deleted is Removing or Removed.                   *)
WithdrawnInv ==
  \A e \in Resources :
    Exists(Current(e)) /\ Current(e).state \in {"Removing", "Removed"}
    => Current(e).deleting

(* What holds whatever the number of workers.                              *)
CoreInv ==
  /\ TypeOK /\ CopyInv /\ RevisionInv /\ FreshInv /\ PathInv
  /\ WithdrawnInv /\ FinalizerFirst

(* Whoever may still see e about to be created cannot outlive its hold.    *)
AddingInv ==
  /\ \A e \in Resources : \A version \in ToSet(versions[e]) :
       Exists(version) /\ Adding(version) => Held(Current(e))
  /\ \A w \in Workers :
       Busy(w) /\ Adding(resource[w]) => Held(Current(request[w]))

(* Before the status says Removed the object is gone.                      *)
AbsentInv ==
  \A w \in Workers : pc[w] = "deleted" => topo[ObjectID(w)] = NoObject

(***************************************************************************)
(* Before the first removal of onos-topo the cache is behind at most by    *)
(* its installation: whoever finds no Service finds no objects either.     *)
(***************************************************************************)
EarlyInv ==
  outages = 0 =>
    /\ services \in {<<"up">>, <<"down">>, <<"down", "up">>}
    /\ services # <<"up">> =>
         /\ \A u \in URIs : topo[u] = NoObject
         /\ \A w \in Workers : pc[w] \notin {"exists", "update", "create"}
    /\ \A w \in Workers : pc[w] = "notFound" =>
         \A u \in URIs : topo[u] = NoObject

(***************************************************************************)
(* The inductive invariant behind OnlyGivenUp.  It needs a single worker   *)
(* and resources whose URI does not change; any number of resources may    *)
(* name the same URI, onos-topo may keep its objects or lose them when it  *)
(* is removed, and the Service may be read as late as it may.              *)
(***************************************************************************)
IInv == CoreInv /\ SpecInv /\ AddingInv /\ AbsentInv /\ EarlyInv

(* The controller keeps the object of such a resource in onos-topo.        *)
Served(version) == Held(version) /\ ~version.deleting

(* Whoever may still see e about to be deleted does not see it late: e has *)
(* not been created and put in charge again since.                         *)
DeletedInv ==
  /\ \A e \in Resources : \A version \in ToSet(versions[e]) :
       Exists(version) /\ version.deleting => ~Served(Current(e))
  /\ \A w \in Workers :
       Busy(w) /\ resource[w].deleting => ~Served(Current(request[w]))

(* The inductive invariant behind ImplementsTopologySync, likewise.        *)
SyncInv == IInv /\ DeletedInv

(* A reconcile that is past the look-up has found the Service, or is to be *)
(* repeated, or the look-up has failed.                                    *)
FoundInv ==
  \A w \in Workers : pc[w] = "found" =>
    Head(services) = "up" \/ faults > 0 \/ Alerted(w)

(* Where the controller leaves a resource whatever becomes of the Service. *)
Settled(version) ==
  ~Exists(version) \/ Finalized(version) \/ StuckPending(version)

(* Where it leaves a resource as long as it knows of the Service.          *)
Added(version) == ~version.deleting /\ version.state = "Added"

ServiceExpected == ServiceUp \/ faults > 0 \/ Len(services) > 1

SettledInv ==
  \A w \in Workers, e \in Resources : Seen(w, e) =>
    Settled(Current(e)) \/ (Added(Current(e)) /\ ServiceExpected)

(* The inductive invariant behind NoLostWakeup, for any number of workers. *)
WakeInv == CoreInv /\ OutdatedInv /\ FoundInv /\ SettledInv

(* The object is there when the status is about to say so, and from then.  *)
AddedInv ==
  ObjectsKept =>
    /\ \A w \in Workers : pc[w] = "created" => topo[ObjectID(w)] # NoObject
    /\ \A e \in Resources : Exists(Current(e)) /\ Added(Current(e)) =>
         topo[Current(e).spec.uri] # NoObject

(* The inductive invariant behind RestMeansPublished, for a single worker. *)
PublishedInv == CoreInv /\ SpecInv /\ DeletedInv /\ AddedInv

(* What the object lacks of the aspects of the copy until it is written.   *)
CarriedInv ==
  \A w \in Workers :
    LET object == topo[ObjectID(w)] IN
    /\ pc[w] = "update" => object = NoObject \/ w \in topoFresh
    /\ pc[w] \in {"create", "created"} =>
         object = NoObject \/ Carries(object, resource[w].spec.aspects)
    /\ pc[w] = "created" => object # NoObject \/ outages > 0

=============================================================================
