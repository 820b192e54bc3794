------------------------------- MODULE Cluster -------------------------------
(***************************************************************************)
(* What the controllers of the topo operator have in common: the API       *)
(* server, the informer caches and work queues of controller-runtime, the  *)
(* onos-topo service, and how a reconcile fetches a resource, writes it    *)
(* back and returns.                                                       *)
(*                                                                         *)
(* The API server keeps the truth.  A controller reads it through the      *)
(* informer cache of the manager, which trails behind: versions[e] is the  *)
(* sequence of the versions of resource e from the one in the cache        *)
(* (Head) to the one on the server (Last), and services is the same for    *)
(* the existence of the topo Service.  Writes carry the resourceVersion of *)
(* the copy that was fetched, and the server rejects them when the copy is *)
(* no longer the last version; fresh stands for that comparison.           *)
(*                                                                         *)
(* Workers are the instances of one controller.  Each has a work queue of  *)
(* its own and one goroutine.  The code means to run one instance of each  *)
(* controller; cmd/topo-operator/main.go adds them twice (line 81 and      *)
(* lines 87-102), so that the deployed program runs two of each.           *)
(***************************************************************************)
EXTENDS Naturals, SequencesExt, Finalizers

CONSTANTS
  Resources,       \* names of the resources reconciled
  URIs,            \* values of spec.uri: object IDs in onos-topo
  Workers,         \* instances of the controller
  AspectKeys, AspectValues,
  SpecsOf,         \* SpecsOf[e]: the specs users give to resource e
  TopoFinalizer,   \* "topo.onosproject.org/entity" or "topo"
  GCFinalizer,     \* "foregroundDeletion", put and removed by Kubernetes
  NoResource, NoRequest, NoObject, NoValue

CONSTANTS
  StoreSurvives,   \* TRUE: topo objects outlive the removal of the Service
  TopoClients,     \* TRUE: other clients write the objects of onos-topo
  MaxOperations,   \* bound on user requests and writes of other clients
  MaxOutages,      \* bound on removals of the topo Service
  MaxFaults        \* bound on failed calls, lost replies and restarts

ASSUME NoneAssumption ==
  /\ NoRequest \notin Resources
  /\ NoValue \notin AspectValues
  /\ TopoFinalizer # GCFinalizer

ASSUME SwitchAssumption ==
  StoreSurvives \in BOOLEAN /\ TopoClients \in BOOLEAN

ASSUME BoundAssumption ==
  MaxOperations \in Nat /\ MaxOutages \in Nat /\ MaxFaults \in Nat

(* Aspects of a spec or of a topo object; a key without value is NoValue.  *)
Aspects == [AspectKeys -> AspectValues \cup {NoValue}]

Specs == [uri : URIs, aspects : Aspects]

ASSUME SpecsAssumption == SpecsOf \in [Resources -> SUBSET Specs]

ASSUME NoObjectAssumption == NoObject \notin Aspects /\ NoObject \notin URIs

States == {"Pending", "Adding", "Added", "Removing", "Removed"}

Finalizer == {TopoFinalizer, GCFinalizer}

(* A resource: deletionTimestamp, finalizers, spec, status.state.  Kinds   *)
(* and Relations have no status; theirs stays at the default.              *)
Resource == [deleting : BOOLEAN, finalizers : SUBSET Finalizer,
             spec : Specs, state : States]

ASSUME NoResourceAssumption == NoResource \notin Resource

VARIABLES
  versions,    \* versions[e]: versions of e from the cached to the last
  services,    \* "up" or "down": the topo Service, from cached to last
  topo,        \* topo[u]: aspects of object u in onos-topo, or NoObject
  queue,       \* queue[w]: the work queue of worker w
  pc,          \* pc[w]: where worker w is in its reconcile
  request,     \* request[w]: the resource it reconciles
  resource,    \* resource[w]: the copy it fetched
  fresh,       \* the workers whose copy is still the last version
  topoFresh,   \* those whose topo object still has the revision they read
  operations, outages, faults  \* counters of the bounds

vars == <<versions, services, topo, queue, pc, request, resource, fresh,
          topoFresh, operations, outages, faults>>

Cached(e) == Head(versions[e])
Current(e) == Last(versions[e])
ServiceUp == Last(services) = "up"

Exists(version) == version # NoResource

PCs == {"idle", "service", "notFound", "found", "exists", "update",
        "create", "created", "delete", "deleted"}

Init ==
  /\ versions = [e \in Resources |-> <<NoResource>>]
  /\ \E service \in {"up", "down"} : services = <<service>>
  /\ topo = [u \in URIs |-> NoObject]
  /\ queue = [w \in Workers |-> {}]
  /\ pc = [w \in Workers |-> "idle"]
  /\ request = [w \in Workers |-> NoRequest]
  /\ resource = [w \in Workers |-> NoResource]
  /\ fresh = {}
  /\ topoFresh = {}
  /\ operations = 0
  /\ outages = 0
  /\ faults = 0

-----------------------------------------------------------------------------
(* The API server.                                                         *)

(* A deleting resource without finalizers is removed.                      *)
Stored(version) ==
  IF version.deleting /\ version.finalizers = {} THEN NoResource ELSE version

(***************************************************************************)
(* The server stores a new version of e; a write that changes nothing      *)
(* makes no version.  Copies fetched earlier are no longer fresh.          *)
(***************************************************************************)
Store(e, version) ==
  IF version = Current(e)
  THEN UNCHANGED <<versions, fresh>>
  ELSE /\ versions' = [versions EXCEPT ![e] = Append(@, version)]
       /\ fresh' = {w \in fresh : request[w] # e}

(* The status default of the CRD (deploy/crds.yaml) is Pending.            *)
NewResource(spec) ==
  [deleting |-> FALSE, finalizers |-> {}, spec |-> spec, state |-> "Pending"]

Operation ==
  /\ operations < MaxOperations
  /\ operations' = operations + 1
  /\ UNCHANGED <<services, topo, queue, pc, request, resource, topoFresh,
                 outages, faults>>

UserCreate(e) ==
  /\ Operation
  /\ ~Exists(Current(e))
  /\ \E spec \in SpecsOf[e] : Store(e, NewResource(spec))

UserUpdate(e) ==
  /\ Operation
  /\ Exists(Current(e))
  /\ \E spec \in SpecsOf[e] :
       /\ spec # Current(e).spec
       /\ Store(e, [Current(e) EXCEPT !.spec = spec])

(* kubectl delete, in the background or with --cascade=foreground.         *)
UserDelete(e) ==
  /\ Operation
  /\ Exists(Current(e))
  /\ ~Current(e).deleting
  /\ \E added \in {{}, {GCFinalizer}} :
       Store(e, Stored([Current(e) EXCEPT !.deleting = TRUE,
                                          !.finalizers = @ \cup added]))

(* The garbage collector is done with the dependents of a resource.        *)
CollectorRelease(e) ==
  /\ Exists(Current(e))
  /\ Current(e).deleting
  /\ GCFinalizer \in Current(e).finalizers
  /\ Store(e, Stored([Current(e) EXCEPT !.finalizers = @ \ {GCFinalizer}]))
  /\ UNCHANGED <<services, topo, queue, pc, request, resource, topoFresh,
                 operations, outages, faults>>

-----------------------------------------------------------------------------
(* The informer cache and the event handler of the watch of resources.     *)

(* Deviation: the cache drops the version it serves.                       *)
DeliverTooMuch(e) ==
  /\ Len(versions[e]) > 0
  /\ versions' = [versions EXCEPT ![e] = Tail(@)]
  /\ queue' = [w \in Workers |-> queue[w] \cup {e}]
  /\ UNCHANGED <<services, topo, pc, request, resource, fresh, topoFresh,
                 operations, outages, faults>>

(* EnqueueRequestForObject: every event of e reaches every work queue.     *)
Deliver(e) ==
  /\ Len(versions[e]) > 1
  /\ versions' = [versions EXCEPT ![e] = Tail(@)]
  /\ queue' = [w \in Workers |-> queue[w] \cup {e}]
  /\ UNCHANGED <<services, topo, pc, request, resource, fresh, topoFresh,
                 operations, outages, faults>>

(* The resources the cache lists.                                          *)
Requests == {e \in Resources : Exists(Cached(e))}

(* The periodic resync of the informers replays what is in the cache.      *)
Resync ==
  /\ queue' = [w \in Workers |-> queue[w] \cup Requests]
  /\ UNCHANGED <<versions, services, topo, pc, request, resource, fresh,
                 topoFresh, operations, outages, faults>>

-----------------------------------------------------------------------------
(* The topo service and its other clients.                                 *)

TopoInstall ==
  /\ ~ServiceUp
  /\ services' = Append(services, "up")
  /\ UNCHANGED <<versions, topo, queue, pc, request, resource, fresh,
                 topoFresh, operations, outages, faults>>

TopoUninstall ==
  /\ outages < MaxOutages
  /\ outages' = outages + 1
  /\ ServiceUp
  /\ services' = Append(services, "down")
  /\ topo' = IF StoreSurvives THEN topo ELSE [u \in URIs |-> NoObject]
  /\ topoFresh' = IF StoreSurvives THEN topoFresh ELSE {}
  /\ UNCHANGED <<versions, queue, pc, request, resource, fresh, operations,
                 faults>>

(* Object u gets a new revision: whoever read it before is outdated.       *)
Touch(u) ==
  topoFresh' = {w \in topoFresh : resource[w].spec.uri # u}

(***************************************************************************)
(* Another client writes an aspect that no resource mentions: all a        *)
(* controller can see of it is that the revision has changed.              *)
(***************************************************************************)
TopoClientWrite(u) ==
  /\ TopoClients
  /\ operations < MaxOperations
  /\ operations' = operations + 1
  /\ ServiceUp
  /\ topo[u] # NoObject
  /\ Touch(u)
  /\ UNCHANGED <<versions, services, topo, queue, pc, request, resource,
                 fresh, outages, faults>>

(* SetAspectBytes for every aspect of a spec.                              *)
SetAspects(object, aspects) ==
  [k \in AspectKeys |->
     IF aspects[k] = NoValue THEN object[k] ELSE aspects[k]]

Carries(object, aspects) == object = SetAspects(object, aspects)

NoAspects == [k \in AspectKeys |-> NoValue]

-----------------------------------------------------------------------------
(* What every reconcile of worker w is made of.                            *)

(* A call that fails, a reply that is lost or a restart.                   *)
Fault ==
  /\ faults < MaxFaults
  /\ faults' = faults + 1

(***************************************************************************)
(* Reconcile returns: with an error, the request goes back to the queue    *)
(* (after a back-off); without, only a new event brings it back.           *)
(***************************************************************************)
Return(w, again) ==
  /\ pc' = [pc EXCEPT ![w] = "idle"]
  /\ request' = [request EXCEPT ![w] = NoRequest]
  /\ resource' = [resource EXCEPT ![w] = NoResource]
  /\ queue' = [queue EXCEPT ![w] = @ \cup {r \in {request[w]} : again}]

(* The copy is dropped without a write.                                    *)
Drop(w) == fresh' = fresh \ {w}

Done == FALSE
Requeue == TRUE

Goto(w, label) ==
  /\ pc' = [pc EXCEPT ![w] = label]
  /\ UNCHANGED <<queue, request, resource, fresh>>

(* Deviation: the last write wins, no resourceVersion is compared.         *)
WriteAnyway(w, version, again) ==
  /\ IF Exists(Current(request[w]))
     THEN Store(request[w], Stored(version))
     ELSE UNCHANGED <<versions, fresh>>
  /\ Return(w, again)
  /\ UNCHANGED <<services, topo, topoFresh, operations, outages, faults>>

(***************************************************************************)
(* An Update or Status().Update of the copy, which is the last call of the *)
(* reconcile: stored, stored but reported as failed, or refused (conflict, *)
(* or the server does not answer) and tried again from the start.          *)
(***************************************************************************)
Write(w, version, again) ==
  /\ \/ /\ w \in fresh
        /\ Store(request[w], Stored(version))
        /\ \/ Return(w, again) /\ UNCHANGED faults
           \/ Return(w, Requeue) /\ Fault
     \/ /\ Return(w, Requeue)
        /\ \/ w \notin fresh /\ UNCHANGED faults
           \/ Fault
        /\ Drop(w) /\ UNCHANGED versions
  /\ UNCHANGED <<services, topo, topoFresh, operations, outages>>

HasTopoFinalizer(version) == HasFinalizer(version.finalizers, TopoFinalizer)

Finalized(version) == version.deleting /\ ~HasTopoFinalizer(version)

(* The resource is gone or already finalized: nothing to do.               *)
Skip(w, e) ==
  /\ pc[w] = "idle"
  /\ e \in queue[w]
  /\ Exists(Cached(e)) => Finalized(Cached(e))
  /\ queue' = [queue EXCEPT ![w] = @ \ {e}]
  /\ UNCHANGED <<versions, services, topo, pc, request, resource, fresh,
                 topoFresh, operations, outages, faults>>

Fetch(w, e) ==
  /\ pc[w] = "idle"
  /\ e \in queue[w]
  /\ Exists(Cached(e)) /\ ~Finalized(Cached(e))
  /\ queue' = [queue EXCEPT ![w] = @ \ {e}]
  /\ pc' = [pc EXCEPT ![w] = "service"]
  /\ request' = [request EXCEPT ![w] = e]
  /\ resource' = [resource EXCEPT ![w] = Cached(e)]
  /\ fresh' = IF Len(versions[e]) = 1 THEN fresh \cup {w} ELSE fresh \ {w}
  /\ UNCHANGED <<versions, services, topo, topoFresh, operations, outages,
                 faults>>

Take(w, e) == Skip(w, e) \/ Fetch(w, e)

(* Deviation: the error of the call is not returned.                       *)
CallFailsSilently(w) ==
  /\ pc[w] \in {"exists", "update", "create", "delete"}
  /\ \/ ~ServiceUp /\ UNCHANGED faults
     \/ Fault
  /\ Return(w, Done)
  /\ Drop(w) /\ topoFresh' = topoFresh \ {w}
  /\ UNCHANGED <<versions, services, topo, operations, outages>>

(* A call to onos-topo without a service behind it, or one that fails.     *)
CallFails(w) ==
  /\ pc[w] \in {"exists", "update", "create", "delete"}
  /\ \/ ~ServiceUp /\ UNCHANGED faults
     \/ Fault
  /\ Return(w, Requeue)
  /\ Drop(w) /\ topoFresh' = topoFresh \ {w}
  /\ UNCHANGED <<versions, services, topo, operations, outages>>

(* After a call to onos-topo took effect: go on, or the reply is lost.     *)
Reply(w, label) ==
  /\ \/ Goto(w, label) /\ UNCHANGED faults
     \/ Fault /\ Return(w, Requeue) /\ Drop(w)
  /\ UNCHANGED <<versions, services, operations, outages>>

ObjectID(w) == resource[w].spec.uri

(***************************************************************************)
(* The operator stops and starts again: reconciles are cut short, and the  *)
(* informers list everything anew, an event for each resource there is.    *)
(***************************************************************************)
Restart ==
  /\ Fault
  /\ versions' = [e \in Resources |-> <<Current(e)>>]
  /\ services' = <<Last(services)>>
  /\ queue' = [w \in Workers |-> {e \in Resources : Exists(Current(e))}]
  /\ pc' = [w \in Workers |-> "idle"]
  /\ request' = [w \in Workers |-> NoRequest]
  /\ resource' = [w \in Workers |-> NoResource]
  /\ fresh' = {}
  /\ topoFresh' = {}
  /\ UNCHANGED <<topo, operations, outages>>

User(e) == UserCreate(e) \/ UserUpdate(e) \/ UserDelete(e)

-----------------------------------------------------------------------------
(* What the properties of the controllers are made of.                     *)

(* Every variable has its type; the caches are never empty.                *)
TypeOK ==
  /\ versions \in [Resources -> Seq(Resource \cup {NoResource})]
  /\ \A e \in Resources : Len(versions[e]) > 0
  /\ services \in Seq({"up", "down"}) /\ Len(services) > 0
  /\ topo \in [URIs -> Aspects \cup {NoObject}]
  /\ queue \in [Workers -> SUBSET Resources]
  /\ pc \in [Workers -> PCs]
  /\ request \in [Workers -> Resources \cup {NoRequest}]
  /\ resource \in [Workers -> Resource \cup {NoResource}]
  /\ fresh \subseteq Workers
  /\ topoFresh \subseteq Workers
  /\ operations \in 0..MaxOperations
  /\ outages \in 0..MaxOutages
  /\ faults \in 0..MaxFaults

(* Nothing is under way or to come for e at worker w.                      *)
AtRest(w, e) ==
  /\ Len(versions[e]) = 1 /\ Len(services) = 1
  /\ e \notin queue[w] /\ request[w] # e

(* No outage has taken objects along.                                      *)
ObjectsKept == outages = 0 \/ StoreSurvives

Wanted(e) == Exists(Current(e)) /\ ~Current(e).deleting

Deleting(e) == Exists(Current(e)) /\ Current(e).deleting

Busy(w) == pc[w] # "idle"

(* A worker works on a resource, with a copy of it, exactly while busy.    *)
CopyInv ==
  \A w \in Workers :
    IF Busy(w)
    THEN /\ request[w] \in Resources /\ Exists(resource[w])
         /\ ~Finalized(resource[w])
    ELSE request[w] = NoRequest

(* A fresh copy is the one version of its resource.                        *)
FreshInv ==
  \A w \in fresh : Busy(w) => versions[request[w]] = <<resource[w]>>

(* The resource that worker w works on will be reconciled once more.       *)
Alerted(w) ==
  Len(versions[request[w]]) > 1 \/ request[w] \in queue[w]

(* A copy that is no longer the last version does not go unnoticed.        *)
OutdatedInv == \A w \in Workers : Busy(w) => w \in fresh \/ Alerted(w)

(* Every event of e has been seen, and no retry is left, at worker w.      *)
Seen(w, e) ==
  Len(versions[e]) = 1 /\ e \notin queue[w] /\ request[w] # e

(* Users edit specs but not the URI.                                       *)
FixedURIs ==
  \A e \in Resources : \A s, t \in SpecsOf[e] : s.uri = t.uri

(* No two resources name the same URI.                                     *)
DistinctURIs ==
  \A d, e \in Resources : d # e =>
    \A s \in SpecsOf[d], t \in SpecsOf[e] : s.uri # t.uri

(* Resources keep the specs, hence the URI, their users give them.         *)
SpecInv ==
  /\ \A e \in Resources : \A version \in ToSet(versions[e]) :
       Exists(version) => version.spec \in SpecsOf[e]
  /\ \A w \in Workers : Busy(w) => resource[w].spec \in SpecsOf[request[w]]

=============================================================================
