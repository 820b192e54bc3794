----------------------- MODULE KindRelationController -----------------------
(***************************************************************************)
(* The Kind and the Relation controller of the topo operator               *)
(* (pkg/controller/topo/kind/reconciler.go and relation/reconciler.go),    *)
(* which differ in one call: updateKind sends an Update to onos-topo,      *)
(* updateRelation a Create.  They keep no state in the status of their     *)
(* resources: every reconcile takes a wanted resource to its object and a  *)
(* deleting one to its end, and nothing wakes them but events of their own *)
(* resources.                                                              *)
(*                                                                         *)
(* Resources are Kinds or Relations, as the behaviour's controller says.   *)
(* The object of a Kind bears its name: give each Kind specs of one URI of *)
(* its own.                                                                *)
(***************************************************************************)
EXTENDS Cluster

CONSTANT Controllers  \* the controllers to look at

ASSUME ControllersAssumption == Controllers \subseteq {"kind", "relation"}

VARIABLES
  controller,  \* "kind" or "relation", for the whole behaviour
  namespaces,  \* "active" or "terminating", from the cached to the last
  object       \* object[w]: the object worker w read from onos-topo

allVars == <<vars, namespaces, object>>

Terminating == Last(namespaces) = "terminating"

KRInit ==
  /\ Init
  /\ controller \in Controllers
  /\ namespaces = <<"active">>
  /\ object = [w \in Workers |-> NoObject]

Forget(w) == object' = [object EXCEPT ![w] = NoObject]

-----------------------------------------------------------------------------
(* The namespace of the resources and of onos-topo.                        *)

DeleteNamespace ==
  /\ ~Terminating
  /\ Operation
  /\ namespaces' = Append(namespaces, "terminating")
  /\ UNCHANGED <<versions, fresh, object>>

(* The namespace controller of Kubernetes deletes what the namespace holds.*)
PurgeNamespace(e) ==
  /\ Terminating
  /\ Exists(Current(e)) /\ ~Current(e).deleting
  /\ Store(e, Stored([Current(e) EXCEPT !.deleting = TRUE]))
  /\ UNCHANGED <<services, topo, queue, pc, request, resource, topoFresh,
                 operations, outages, faults, namespaces, object>>

DeliverNamespace ==
  /\ Len(namespaces) > 1
  /\ namespaces' = Tail(namespaces)
  /\ UNCHANGED <<vars, object>>

(* Deviation: the cache drops the Service it serves.                       *)
CacheServiceTooMuch ==
  /\ Len(services) > 0
  /\ services' = Tail(services)
  /\ UNCHANGED <<versions, topo, queue, pc, request, resource, fresh,
                 topoFresh, operations, outages, faults>>

(* No watch of Services: the cache alone learns of them.                   *)
CacheService ==
  /\ Len(services) > 1
  /\ services' = Tail(services)
  /\ UNCHANGED <<versions, topo, queue, pc, request, resource, fresh,
                 topoFresh, operations, outages, faults>>

-----------------------------------------------------------------------------
(* One reconcile of worker w, step by step.                                *)

(***************************************************************************)
(* The finalizer comes first, and the same reconcile goes on with the copy *)
(* that the Update has brought up to date.                                 *)
(***************************************************************************)
AddTopoFinalizer(w) ==
  LET e == request[w]
      version == [resource[w] EXCEPT
                    !.finalizers = AddFinalizer(@, TopoFinalizer)]
  IN /\ pc[w] = "service"
     /\ ~resource[w].deleting /\ ~HasTopoFinalizer(resource[w])
     /\ \/ /\ w \in fresh
           /\ versions' = [versions EXCEPT ![e] = Append(@, version)]
           /\ fresh' = {x \in fresh : request[x] # e} \cup {w}
           /\ resource' = [resource EXCEPT ![w] = version]
           /\ pc' = [pc EXCEPT ![w] = "found"]
           /\ UNCHANGED <<queue, request, faults>>
        \/ /\ w \in fresh
           /\ Store(e, version) /\ Return(w, Requeue) /\ Fault
        \/ /\ Return(w, Requeue)
           /\ \/ w \notin fresh /\ UNCHANGED faults
              \/ Fault
           /\ Drop(w) /\ UNCHANGED versions
     /\ UNCHANGED <<services, topo, topoFresh, operations, outages>>

(* Deviation: the namespace is not looked at.                              *)
ReadNamespaceNot(w) ==
  /\ pc[w] = "service"
  /\ resource[w].deleting
  /\ Goto(w, "found")
  /\ UNCHANGED <<versions, services, topo, topoFresh, operations, outages,
                 faults>>

(* A terminating namespace takes onos-topo with it: no call is made.       *)
ReadNamespace(w) ==
  /\ pc[w] = "service"
  /\ resource[w].deleting
  /\ Goto(w, IF Head(namespaces) = "active" THEN "found" ELSE "deleted")
  /\ UNCHANGED <<versions, services, topo, topoFresh, operations, outages,
                 faults>>

ReadNamespaceFails(w) ==
  /\ pc[w] = "service"
  /\ resource[w].deleting
  /\ Fault
  /\ Return(w, Requeue) /\ Drop(w)
  /\ UNCHANGED <<versions, services, topo, topoFresh, operations, outages>>

(* The finalizer is there, or the namespace is.                            *)
Connects(w) ==
  \/ pc[w] = "found"
  \/ /\ pc[w] = "service"
     /\ ~resource[w].deleting /\ HasTopoFinalizer(resource[w])

ConnectService(w) ==
  /\ Connects(w)
  /\ Head(services) = "up"
  /\ Goto(w, IF resource[w].deleting THEN "delete" ELSE "exists")
  /\ UNCHANGED <<versions, services, topo, topoFresh, operations, outages,
                 faults>>

(* Deviation: without the Service the object passes for deleted.           *)
ServiceNotFoundAbandon(w) ==
  /\ Connects(w)
  /\ Head(services) = "down"
  /\ IF resource[w].deleting
     THEN Goto(w, "deleted")
     ELSE Return(w, Requeue) /\ Drop(w)
  /\ UNCHANGED <<versions, services, topo, topoFresh, operations, outages,
                 faults>>

(* Deviation: without the Service there is nothing to do.                  *)
ServiceNotFoundDone(w) ==
  /\ Connects(w)
  /\ Head(services) = "down"
  /\ Return(w, Done) /\ Drop(w)
  /\ UNCHANGED <<versions, services, topo, topoFresh, operations, outages,
                 faults>>

ServiceNotFound(w) ==
  /\ Connects(w)
  /\ Head(services) = "down"
  /\ Return(w, Requeue) /\ Drop(w)
  /\ UNCHANGED <<versions, services, topo, topoFresh, operations, outages,
                 faults>>

(* Deviation: the NotFound of the look-up is an error.                     *)
ObjectExistsOrFails(w) ==
  /\ pc[w] = "exists"
  /\ ServiceUp
  /\ IF topo[ObjectID(w)] = NoObject
     THEN Return(w, Requeue) /\ Drop(w) ELSE Goto(w, "update")
  /\ object' = [object EXCEPT ![w] = topo[ObjectID(w)]]
  /\ topoFresh' = IF topo[ObjectID(w)] = NoObject THEN topoFresh \ {w}
                  ELSE topoFresh \cup {w}
  /\ UNCHANGED <<versions, services, topo, operations, outages, faults>>

ObjectExists(w) ==
  /\ pc[w] = "exists"
  /\ ServiceUp
  /\ Goto(w, IF topo[ObjectID(w)] = NoObject THEN "create" ELSE "update")
  /\ object' = [object EXCEPT ![w] = topo[ObjectID(w)]]
  /\ topoFresh' = IF topo[ObjectID(w)] = NoObject THEN topoFresh \ {w}
                  ELSE topoFresh \cup {w}
  /\ UNCHANGED <<versions, services, topo, operations, outages, faults>>

(* The end of a reconcile by a call that took effect, its reply lost or not*)
Finish(w) ==
  /\ \/ Return(w, Done) /\ UNCHANGED faults
     \/ Return(w, Requeue) /\ Fault
  /\ Drop(w)

(* Deviation: a refused update passes for a success.                       *)
UpdateKindOnce(w) ==
  /\ controller = "kind"
  /\ pc[w] = "update"
  /\ ServiceUp
  /\ IF w \in topoFresh
     THEN /\ topo' = [topo EXCEPT ![ObjectID(w)] =
                        SetAspects(object[w], resource[w].spec.aspects)]
          /\ Touch(ObjectID(w))
     ELSE UNCHANGED <<topo, topoFresh>>
  /\ Finish(w)
  /\ UNCHANGED <<versions, services, operations, outages>>

(* updateKind: an Update of the object that was read, refused (NotFound or *)
(* Conflict) when the object is no longer at that revision.                *)
UpdateKind(w) ==
  /\ controller = "kind"
  /\ pc[w] = "update"
  /\ ServiceUp
  /\ \/ /\ w \in topoFresh
        /\ topo' = [topo EXCEPT ![ObjectID(w)] =
                      SetAspects(object[w], resource[w].spec.aspects)]
        /\ Touch(ObjectID(w))
        /\ Finish(w)
     \/ /\ w \notin topoFresh
        /\ Return(w, Requeue) /\ Drop(w)
        /\ UNCHANGED <<topo, topoFresh, faults>>
  /\ UNCHANGED <<versions, services, operations, outages>>

(* updateRelation: a Create of the object that was read, with the aspects  *)
(* of the spec; AlreadyExists is a success.                                *)
UpdateRelation(w) ==
  /\ controller = "relation"
  /\ pc[w] = "update"
  /\ ServiceUp
  /\ IF topo[ObjectID(w)] = NoObject
     THEN topo' = [topo EXCEPT ![ObjectID(w)] =
                     SetAspects(object[w], resource[w].spec.aspects)]
     ELSE UNCHANGED topo
  /\ topoFresh' = topoFresh \ {w}
  /\ Finish(w)
  /\ UNCHANGED <<versions, services, operations, outages>>

CreateObject(w) ==
  /\ pc[w] = "create"
  /\ ServiceUp
  /\ IF topo[ObjectID(w)] = NoObject
     THEN topo' = [topo EXCEPT ![ObjectID(w)] =
                     SetAspects(NoAspects, resource[w].spec.aspects)]
     ELSE UNCHANGED topo
  /\ Finish(w)
  /\ UNCHANGED <<versions, services, topoFresh, operations, outages>>

(* Deviation: the NotFound of a repeated deletion is an error.             *)
DeleteObjectOnce(w) ==
  /\ pc[w] = "delete"
  /\ ServiceUp
  /\ topo' = [topo EXCEPT ![ObjectID(w)] = NoObject]
  /\ Touch(ObjectID(w))
  /\ IF topo[ObjectID(w)] = NoObject
     THEN /\ Return(w, Requeue) /\ Drop(w)
          /\ UNCHANGED <<versions, services, operations, outages, faults>>
     ELSE Reply(w, "deleted")

DeleteObject(w) ==
  /\ pc[w] = "delete"
  /\ ServiceUp
  /\ topo' = [topo EXCEPT ![ObjectID(w)] = NoObject]
  /\ Touch(ObjectID(w))
  /\ Reply(w, "deleted")

Release(w) ==
  /\ pc[w] = "deleted"
  /\ Write(w, [resource[w] EXCEPT
                 !.finalizers = RemoveFinalizer(@, TopoFinalizer)], Done)

-----------------------------------------------------------------------------

(* The steps that keep the object in mind, and those that are done with it.*)
Step(w) ==
  \/ /\ \/ AddTopoFinalizer(w) \/ ReadNamespace(w) \/ ReadNamespaceFails(w)
        \/ ConnectService(w) \/ ServiceNotFound(w)
        \/ CreateObject(w) \/ DeleteObject(w) \/ Release(w)
     /\ UNCHANGED <<namespaces, object>>
  \/ ObjectExists(w) /\ UNCHANGED namespaces
  \/ /\ UpdateKind(w) \/ UpdateRelation(w) \/ CallFails(w)
     /\ Forget(w) /\ UNCHANGED namespaces

(* In a terminating namespace nothing is created.                          *)
Environment ==
  /\ \/ \E e \in Resources :
          \/ UserCreate(e) /\ ~Terminating
          \/ UserUpdate(e) \/ UserDelete(e) \/ CollectorRelease(e)
     \/ \E u \in URIs : TopoClientWrite(u)
     \/ TopoInstall /\ ~Terminating
     \/ TopoUninstall
  /\ UNCHANGED <<namespaces, object>>

KRResync == Resync /\ UNCHANGED <<namespaces, object>>

KRDeliver(e) == Deliver(e) /\ UNCHANGED <<namespaces, object>>

KRCacheService == CacheService /\ UNCHANGED <<namespaces, object>>

KRTake(w, e) == Take(w, e) /\ UNCHANGED <<namespaces, object>>

KRRelease(e) == CollectorRelease(e) /\ UNCHANGED <<namespaces, object>>

KRRestart ==
  /\ Restart
  /\ namespaces' = <<Last(namespaces)>>
  /\ object' = [w \in Workers |-> NoObject]

KRNext ==
  /\ \/ Environment \/ KRResync
     \/ \E e \in Resources : KRDeliver(e) \/ PurgeNamespace(e)
     \/ \E w \in Workers, e \in Resources : KRTake(w, e)
     \/ \E w \in Workers : Step(w)
     \/ KRCacheService \/ DeliverNamespace \/ DeleteNamespace \/ KRRestart
  /\ UNCHANGED controller

(***************************************************************************)
(* As for the Entity controller: caches catch up, Kubernetes purges a      *)
(* terminating namespace and collects garbage, workers work.               *)
(***************************************************************************)
Fairness ==
  /\ \A e \in Resources : /\ WF_allVars(KRDeliver(e))
                          /\ WF_allVars(PurgeNamespace(e))
                          /\ WF_allVars(KRRelease(e))
  /\ WF_allVars(KRCacheService) /\ WF_allVars(DeliverNamespace)
  /\ \A w \in Workers : WF_allVars(Step(w))
  /\ \A w \in Workers, e \in Resources : SF_allVars(KRTake(w, e))

KRSpec == KRInit /\ [][KRNext]_<<allVars, controller>>

FairSpec == KRSpec /\ Fairness

-----------------------------------------------------------------------------
(* Properties.                                                             *)

(* Every variable has its type.                                            *)
KRTypeOK ==
  /\ TypeOK
  /\ controller \in Controllers
  /\ namespaces \in Seq({"active", "terminating"}) /\ Len(namespaces) > 0
  /\ object \in [Workers -> Aspects \cup {NoObject}]

(***************************************************************************)
(* "Once the kind has been deleted, remove the topology finalizer"         *)
(* (kind/reconciler.go:159): while the namespace lives, an object in       *)
(* onos-topo has a resource with the finalizer on the server, through      *)
(* stale caches, lost replies, restarts and outages of onos-topo.          *)
(***************************************************************************)
ObjectHeld ==
  ~Terminating => \A u \in URIs : topo[u] # NoObject =>
    \E e \in Resources : /\ Exists(Current(e))
                         /\ HasTopoFinalizer(Current(e))
                         /\ Current(e).spec.uri = u

(***************************************************************************)
(* When no event and no retry is left for a wanted resource, its object is *)
(* in onos-topo, as long as onos-topo keeps its objects.                   *)
(***************************************************************************)
RestMeansPublished ==
  \A w \in Workers, e \in Resources :
    /\ AtRest(w, e) /\ Wanted(e) /\ ObjectsKept
    => topo[Current(e).spec.uri] # NoObject

(***************************************************************************)
(* The same, and the object carries the aspects the spec now has: edits of *)
(* the spec reach onos-topo (kind/reconciler.go:111, "Check if the kind    *)
(* exists in the topology and return it for update if so").                *)
(***************************************************************************)
RestMeansCurrent ==
  \A w \in Workers, e \in Resources :
    /\ AtRest(w, e) /\ Wanted(e) /\ ObjectsKept
    => LET found == topo[Current(e).spec.uri]
       IN found # NoObject /\ Carries(found, Current(e).spec.aspects)

(* The Kind controller keeps that promise of both controllers.             *)
KindsCurrent == controller = "kind" => RestMeansCurrent

(***************************************************************************)
(* An outage that loses the objects goes unseen, for the controllers watch *)
(* no Service: only the resync of the informers brings them back, if the   *)
(* reconcile of an unchanged resource creates its object again.            *)
(***************************************************************************)
EventuallyPublished ==
  WF_allVars(KRResync) =>
    \A e \in Resources :
      Wanted(e) ~> (\/ ~Wanted(e) \/ ~ServiceUp
                   \/ topo[Current(e).spec.uri] # NoObject)

(* A resource to delete goes away, unless onos-topo does (README.md:46-47).*)
EventuallyWithdrawn ==
  \A e \in Resources : Deleting(e) ~> ~Deleting(e) \/ ~ServiceUp

(* The resources do not keep a terminating namespace from going away, even *)
(* when onos-topo has gone before them (kind/reconciler.go:134-157).       *)
NamespaceReleased ==
  Terminating ~> \A e \in Resources : ~Exists(Current(e))

(* A resource is in charge of its object while it carries the finalizer.   *)
Charge(version) ==
  IF Exists(version) /\ HasTopoFinalizer(version)
  THEN version.spec.uri ELSE NoObject

Sync == INSTANCE TopologySync WITH
  Nothing <- NoObject,
  Names <- [e \in Resources |-> {spec.uri : spec \in SpecsOf[e]}],
  wanted <- {e \in Resources : Wanted(e)},
  charge <- [e \in Resources |-> Charge(Current(e))],
  objects <- {u \in URIs : topo[u] # NoObject},
  closed <- Terminating

(***************************************************************************)
(* The controllers implement the abstract specification: onos-topo shows   *)
(* objects of resources in charge only, and no resource leaves its object  *)
(* behind while the namespace lives, whatever the code does in between.    *)
(***************************************************************************)
ImplementsTopologySync == Sync!Spec

-----------------------------------------------------------------------------
(* Invariants that the proofs are built on.                                *)

(* A worker about to update has read an object.                            *)
ObjectInv == \A w \in Workers : pc[w] = "update" => object[w] # NoObject

(* A namespace that is terminating somewhere is terminating.               *)
NamespaceInv == "terminating" \in ToSet(namespaces) => Terminating

(***************************************************************************)
(* A fresh copy is the last version; nothing is in the cache behind it,    *)
(* unless the reconcile itself has just added the finalizer.               *)
(***************************************************************************)
LatestInv ==
  \A w \in fresh : Busy(w) =>
    /\ Current(request[w]) = resource[w]
    /\ pc[w] = "service" \/ resource[w].deleting =>
         versions[request[w]] = <<resource[w]>>

(* The path a reconcile has taken.                                         *)
PathInv ==
  \A w \in Workers :
    /\ pc[w] = "found" => resource[w].deleting \/ HasTopoFinalizer(resource[w])
    /\ pc[w] \in {"exists", "update", "create"} =>
         ~resource[w].deleting /\ HasTopoFinalizer(resource[w])
    /\ pc[w] \in {"delete", "deleted"} => resource[w].deleting

(* The controller keeps the object of such a resource in onos-topo.        *)
Served(version) ==
  Exists(version) /\ ~version.deleting /\ HasTopoFinalizer(version)

(***************************************************************************)
(* What an outdated version still says truly of the current one: if it is  *)
(* served, that the resource is in charge of the same object; if it is     *)
(* being deleted, that the resource is not served (again).                 *)
(***************************************************************************)
Truthful(version, current) ==
  /\ Served(version) => Charge(current) = version.spec.uri
  /\ Exists(version) /\ version.deleting => ~Served(current)

TruthInv ==
  /\ \A e \in Resources : \A version \in ToSet(versions[e]) :
       Truthful(version, Current(e))
  /\ \A w \in Workers : Busy(w) => Truthful(resource[w], Current(request[w]))

(* Before the finalizer is given up the object is gone, or will be.        *)
GoneInv ==
  \A w \in Workers :
    pc[w] = "deleted" => Terminating \/ topo[ObjectID(w)] = NoObject

(***************************************************************************)
(* The inductive invariant behind ObjectHeld.  It needs a single worker    *)
(* and resources whose URI does not change; any number of resources may    *)
(* name the same URI, and the cached Service may be as old as it likes.    *)
(***************************************************************************)
KRInv ==
  /\ KRTypeOK /\ CopyInv /\ ObjectInv /\ NamespaceInv /\ LatestInv
  /\ PathInv /\ SpecInv /\ TruthInv /\ GoneInv /\ ObjectHeld

(* A worker about to create an object has not found it.                    *)
CreateInv ==
  \A w \in Workers : pc[w] = "create" => topo[ObjectID(w)] = NoObject

(* What a reconcile leaves of a wanted resource, whatever comes after it.  *)
PublishedInv ==
  \A w \in Workers, e \in Resources :
    Seen(w, e) /\ Wanted(e) /\ ObjectsKept =>
      LET found == topo[Current(e).spec.uri]
      IN /\ found # NoObject
         /\ controller = "kind" => Carries(found, Current(e).spec.aspects)

(***************************************************************************)
(* The inductive invariant behind RestMeansPublished and KindsCurrent.  It *)
(* needs a single worker and that no two resources may name the same URI;  *)
(* the URI of a resource may change.                                       *)
(***************************************************************************)
RestInv ==
  /\ KRTypeOK /\ CopyInv /\ ObjectInv /\ LatestInv /\ PathInv /\ SpecInv
  /\ OutdatedInv /\ CreateInv /\ PublishedInv

=============================================================================
