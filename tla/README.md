# Verification of onos-operator

This directory holds TLA+ models of the µONOS operator (`pkg/`, `cmd/`), the TLC
configurations that check them on small instances, and TLAPS proofs of their most
important properties for every instance. Source lines are quoted as
`file:line`; `reconciler.go` alone means
`pkg/controller/topo/entity/reconciler.go`.

## 1. The system

The repository builds three programs. The **topo operator** runs controllers that
propagate custom resources (Entity, Kind, Relation) to objects of the onos-topo
service. The **app operator** serves a webhook that adds a proxy container to pods.
**admission-init** prepares the certificates of that webhook in the init container
of the app operator's pods.

| Component | State | Operations | Interacts with | What is hard |
|---|---|---|---|---|
| Entity controller (`topo/entity`) | none in memory; `status.state` and the finalizer of each Entity | `reconcileCreate` and `reconcileDelete`, one case of `status.state` per reconcile; watches of Entity and of the core Service | API server (cached reads, direct writes), onos-topo (Get, Create, Update, Delete) | stale copies, conflicts, lost replies, outages between two reconciles, errors passed over, two instances |
| Kind, Relation controllers (`topo/kind`, `topo/relation`) | none; the finalizer | the same without a status: everything in one reconcile; no watch of the Service; deletion asks for the namespace first | as above, and the namespace | the same, edits of the spec, unseen outages, a terminating namespace |
| Finalizer helpers (`util/k8s/finalizers.go`) | none | Has, Add, Remove on the list | the controllers | other finalizers in the list |
| Topo operator process (`cmd/topo-operator`, `topo/manager.go`) | caches and queues of controller-runtime | `AddControllers`, then a second `Add` of each controller | all of the above | two instances per controller, restarts, start-up order |
| gRPC connections (`util/grpc`) | none | `ConnectService` picks a Service from the cache | onos-topo | no deadline, no wait for a link |
| Service controller (`topo/service`) | none | `Reconcile` reads and returns | - | does nothing of what the README promises |
| Leader election (`util/leader`), readiness (`util/ready`) | a ConfigMap; a file | `Become`, `Set`, `Unset` | API server, garbage collector, Deployment | pods that restart, lock names, dropped errors, rolling updates |
| Proxy injector (`app/sidecar`), app operator | the pod's annotations and containers | `Handle` | API server | repeated invocation, malformed annotations, the path, failed calls |
| admission-init | two files, `caBundle` of the webhook | generate, write, `Get`, `Update` | API server | several pods, conflicts, restarts half-way |
| API types, deep copies, clientset | the cached copies of a resource | `DeepCopy`, `Get`, `List`, `Create`, `Update`, `UpdateStatus`, `Patch`, `Delete`, `Watch` | API server, informer caches | shared references, stale copies |
| CRDs, environment | - | schemas, environment variables | - | schemas and types that differ |

What makes each correct:

* Entity: an object in onos-topo never outlives the Entity that asked for it; the
  status follows its state machine and tells the truth; nothing waits for an event
  that will not come; every Entity is published and, once deleted, withdrawn.
* Kind and Relation: the same on one finalizer, plus: edits reach onos-topo, what an
  outage took is published again, and a terminating namespace is not held.
* All three: they implement one short abstract specification, `TopologySync`.
* Finalizer helpers: the finalizers of others are left alone.
* Leader election and readiness: at most one leader at a time, a leader holds its
  lock, locks do not stay behind, rolling updates end and keep a pod that serves.
* Injector: one proxy container exactly where it is asked for.
* admission-init: the API server trusts the certificate that the serving pod uses.
* Deep copies and clients: what one holder of a resource does to its copy is not seen
  by another, nor by the cache.

`PROJECT.json` lists the components with their status and, under "hazards", what
is hard to test, each at its line.

## 2. Modules

| Module | Content |
|---|---|
| `Finalizers` | the three helpers, and `WithoutFinalizer`, what their callers expect |
| `TopologySync` | abstract: what the topo operator promises of resources and objects |
| `Cluster` | API server, informer caches, work queues, onos-topo, and the steps every reconcile is made of (`Take`, `Write`, `CallFails`, `Reply`, `Restart`) |
| `EntityController` | extends `Cluster`: the Entity controller, its properties, the invariants the proofs use, its refinement mapping to `TopologySync` |
| `KindRelationController` | extends `Cluster`: the Kind and the Relation controller (variable `controller`, fixed at start among `Controllers`), the namespace, properties, invariants, refinement mapping |
| `Operator` | the pods of a Deployment: leader election, readiness, process exits, restarts, rolling updates, garbage collection |
| `AppOperator` | extends `Operator`: admission-init, the CA bundle, the webhook and the pods it sees |
| `ResourceObjects` | one resource of one of the six API types in memory: references, deep copies, informer cache, clients |
| `MCEntityController`, `MCKindRelationController` | small sets of specs and the symmetry of workers for TLC (the other modules are checked as they stand) |
| `Cluster_proofs` | lemmas on the steps of `Cluster`, used for all three controllers |
| `EntityController_proofs` | theorems on the Entity controller for any number of workers: types, status and finalizer, no lost wake-up |
| `EntityObjects_proofs`, `EntitySync_proofs` | theorems for one worker: what Added means for the object; the one way to an orphan, and refinement |
| `KindRelation_proofs` | theorems on the Kind and Relation controllers: types; what rest means for the object |
| `KindRelationSync_proofs` | `ObjectHeld` and refinement |
| `AppOperator_proofs`, `ResourceObjects_proofs` | theorems on these modules |

Operators whose comment begins with "Deviation" are not used by any specification.
Each is a plausible mistake in the operator that follows it, and each property is
known to fail when a certain one of them takes that operator's place
(`PROJECT.json`, "mutants").

### State and code: the topo operator

* `versions[e]` - the versions of resource `e` that the informer cache has yet to
  serve: `Head` is what `r.client.Get` returns (`reconciler.go:95`), `Last` is what
  the API server stores. `NoResource` stands for absence.
* `services` - the same for the existence of the core Service that fronts onos-topo;
  `namespaces` for the phase of the namespace.
* `topo[u]` - the object with ID `u` in onos-topo: its aspects, or `NoObject`.
* `queue`, `pc`, `request`, `resource` - per worker: work queue, place in the
  reconcile, request, fetched copy. Each worker is one instance of the controller
  with the single goroutine that controller-runtime gives it.
* `fresh`, `topoFresh` - which copies still bear the last resourceVersion, and
  which objects read from onos-topo still have the last revision. They replace
  unbounded version numbers by the one comparison the servers make.
* `object` (Kind, Relation) - the object read by `kindExists`, sent back by the
  update.

A call to the API server or to onos-topo, and everything the reconcile does up to
the next call, is one step. Between two steps anything else may happen: users
create, edit and delete resources (in the background or with
`--cascade=foreground`, which adds a finalizer that the garbage collector removes),
caches catch up one event at a time, the Service goes and comes, other clients
write to onos-topo, calls fail before or after they took effect, the operator
restarts. A status update touches the status only and an `Update` everything else;
both are refused unless the copy is fresh, so that storing the whole copy is the
same.

What a step does after an error is the code's: `Return(w, Requeue)` where it
returns an error, `Return(w, Done)` where it does not. The errors it passes over -
a failed look-up of the Service (`reconciler.go:121`), `NotFound` and `Conflict` of
an update (164), `AlreadyExists` of a create (169), `NotFound` of a delete (229) -
are passed over in the model.

The refinement mapping to `TopologySync`, for both modules: a resource is *wanted*
while it is on the server and not being deleted; it is in *charge* of its object
while it carries the finalizer of the controller (and, for an Entity, its
state is not yet Removed: `Held`); the *objects* are those
onos-topo has; it is *closed* while the operator takes onos-topo for gone: once the
namespace is terminating (Kinds, Relations), or while a deletion, after an outage, has
found no Service (Entities). Only then may the last resource in charge leave its
object behind. Caches, queues, copies, statuses and calls have no counterpart:
whatever they do must be a stutter or one of the steps `TakeCharge`, `Publish`,
`Withdraw`, `GiveUp`, `Close`.

### State and code: pods, locks and certificates

* `pod`, `pc`, `readyFile` - per pod: its phase, the place of its main process, and
  whether the readiness file is there (`ready.go`; the file is removed by the
  deferred `Unset`, which `os.Exit` skips, and with the container).
* `lock[p]` - the owner of the ConfigMap named after pod `p` (`leader.go:45,73`),
  which the garbage collector removes once the owner is gone; `leads` - the pods
  whose `Become` ended with the lock.
* `pair`, `crt`, `key` - per pod: the key pair in the memory of its init container,
  and the pair whose certificate and key its volume holds. A pair is a number.
* `bundle`, `fresh` - the CA bundle of the one MutatingWebhookConfiguration, and the
  pods whose `Get` is still current when they `Update` (`admission-init/main.go:140`).
* `app` - an application pod as the webhook sees it: does it ask for a proxy, do its
  quantities parse, has it been injected, how many proxies has it. It may be
  submitted again as it came out.

### State and code: resources in memory

A behaviour of `ResourceObjects` is about one `field`, a reference (map, slice or
pointer) of one of the six types. `log` is the contents the API server has had,
version by version; `object[h]` what holder `h` - the informer cache, or a client -
has: the version it read and the cell of `memory` its reference points to.
`DeepCopy` gives the references listed for a type a cell of their own, as the type's
`DeepCopyInto` in `zz_generated.deepcopy.go` does after `*out = *in`; a reference it
did not list would be shared. The cached reads of controller-runtime and the typed
clients hand out such copies, which their clients change in place and send back.

### Constants and assumptions

`Resources`, `URIs`, `Workers`, `AspectKeys`, `AspectValues` are any sets;
`SpecsOf[e]` limits the specs users give to `e`. `StoreSurvives` says whether
onos-topo keeps its objects while it is away, `TopoClients` whether it has other
clients that write. `MaxOperations`, `MaxOutages` and `MaxFaults` bound the requests
of users (and writes of other clients), the removals of the Service, and the
failed calls, lost replies and restarts; `MaxPods` bounds the pods ever created and
`MaxWrites` the changes of a resource. `FirstStep` is the step a pod starts with:
`"generate"` with an init container, `"owner"` without. `WebhookPath`, `NameEnv` and
`ConfigurationName` are the deployment's. The assumptions on them
(`NoneAssumption`, `SwitchAssumption`, ...) only say that switches are Boolean,
bounds natural numbers, and "none" values different from the real ones.

## 3. Properties and runs

Properties are stated in the modules, each with the code it is about.

| Run | Instance | Shows |
|---|---|---|
| `entity_single` | 1 worker, 2 Entities naming 1 object, 3 requests, 1 outage, 1 fault | `OnlyGivenUp`, `NoLostWakeup`, `ImplementsTopologySync`, `StateEdges`, `AddedCarriesSpec` hold |
| `entity_deployed` | 2 workers, 1 Entity with 2 specs, 3 requests or foreign writes, 1 outage, outdated Service | `TypeOK`, `FinalizerFirst`, `NoLostWakeup`, `StateEdges` hold for the program as deployed |
| `entity_live` | 1 worker, 2 Entities with an object each, 2 requests, 1 outage, 1 fault, outdated Service, surviving store | `RestMeansPublished`, `EventuallyPublished`, `EventuallyWithdrawn` hold |
| `entity_stuck` | 1 worker, 1 Entity, 1 outage | `NeverStuck` fails: deleted while Pending |
| `entity_orphan` | 2 workers, 1 Entity | `NoOrphan` fails: the two instances race |
| `entity_finalizers` | 1 worker, 1 Entity, foreground deletion | `OnlyItsFinalizer` fails: `RemoveFinalizer` |
| `kinds_relations` | either controller, 1 resource with 2 specs, 3 requests, foreign writes or namespace deletion, 1 outage that loses the objects, 1 fault | `KRTypeOK`, `ObjectHeld`, `RestMeansPublished`, `KindsCurrent`, `ImplementsTopologySync`, `EventuallyPublished`, `EventuallyWithdrawn`, `NamespaceReleased` hold |
| `relation_edit` | 1 Relation with 2 specs | `RestMeansCurrent` fails: an update by `Create` |
| `leader_two` | 2 pods, no fault | `AtMostOneLeader` fails: a lock per pod |
| `rollout_gap` | 2 pods, no fault | `RolloutServes` fails: ready before it serves |
| `app_operator` | 2 pods, 2 faults | `AppTypeOK`, `LeaderHoldsLock`, `ProxyOnce`, `TrustedUntilOvertaken`, `InjectedWhenCurrent`, `LocksCollected`, `EventuallyServing`, `RolloutEnds` hold |
| `resource_objects` | each of the six types, 2 clients, 2 values, 3 writes | `TypeOK`, `CacheFaithful`, `Isolation` hold |

Why the bounds are enough: a resource passes through its whole life with two
requests (create, delete); the third is an edit, a second life of the same name, or
the life of a second resource with the same object. One outage suffices to lose
objects, to meet a Pending Entity with a finalizer and to read a Service that is
gone; one fault is a lost reply, a failed call or a restart at every place. Two
workers are what the deployed program has. With one outage and a surviving store,
everything the code does about the Service happens. The Kind and the Relation
controller differ in `updateKind` and `updateRelation` only, so that one run with
both starts covers both. Two pods meet in one rolling update, in which either may be
deleted; at no time are there more, and they interact through the bundle, the locks
and readiness only. What a third pod could add, in a second update, is covered by the
theorems, which are about any number of pods. Two faults in the life of a pod are a
crash after a lost reply, or a start that fails twice. Two clients and the cache are
the holders any pair of which could share a reference.

Deadlock is not checked: a system whose users are done may stop. That nothing stops
too early is `NoLostWakeup`, the `RestMeans...` invariants and the liveness
properties.

### The counterexamples

* **Stuck Pending** (`reconciler.go:210`). The Service is removed and an Added
  Entity goes back to Pending with its finalizer; the Service returns and the Entity
  is deleted before it is Adding. No case of the switch applies, no error is
  returned, and the finalizer keeps the Entity for ever. `EventuallyWithdrawn`,
  `NoLostWakeup` name it as their exception (`StuckPending`).
* **Two controllers** (`cmd/topo-operator/main.go:81` and `87`). One instance
  withdraws an Entity while the other, which still has the Adding version, is about
  to call Create.
* **RemoveFinalizer** (`finalizers.go:31`). It appends the wrong variable.
* **Relation updates** (`relation/reconciler.go:241`). A `CreateRequest` where the
  Kind controller sends an `UpdateRequest`.
* **Two leaders** (`leader.go:73`). The lock is named after the pod, so that pods
  never contend for one.
* **Ready too early** (`cmd/topo-operator/main.go:49`). The file of the readiness probe
  is written before the manager is created: the Deployment removes the serving pod
  while the new one is still setting up, and nobody serves.

Provisos of the properties that hold are limits of the code as well:

* `OnlyGivenUp` names its exception: after a removal of onos-topo (`outages > 0`), a
  deletion that finds no Service gives its object up. The Service is read from the cache
  (`reconciler.go:199`), so that one worker suffices for an orphan: a reconcile finds
  the Service; the Service is removed and installed again, and the reconcile creates its
  object in the new onos-topo; the Entity is deleted, and the next reconcile, whose cache
  has reached the removal only, releases it. `NoOrphan` fails in `entity_single` in this
  way. Before the first removal the cache lags at most by the installation, and where no
  Service has been there are no objects.
* A failed look-up of the Service may leave an Entity Added without onos-topo
  (`faults > 0` in `NoLostWakeup`).
* An Added Entity whose object an outage took is not repaired: nothing compares it with
  onos-topo (`reconciler.go:180`), so that `entity_live` has a store that survives.
* `AddedCarriesSpec` holds only without other clients of onos-topo: the Conflict of an
  update is passed over (`reconciler.go:164`), and the create that follows is refused too.
* `TrustedUntilOvertaken` says when a pod stops to be trusted: when the init container of
  another one writes the bundle (`admission-init/main.go:140`). Nothing writes it back. If
  the new pod of a rolling update is deleted after that (an eviction, an update that is
  undone), the old pod is the only one, serves, and is not trusted, and application pods
  get no proxy until it is replaced. `InjectedWhenCurrent` therefore speaks of a pod that
  the bundle is of.
* `InjectedWhenCurrent` says two things, for the path `/inject-proxy` that the operator
  serves and for any other. The deployment registers another one, `/registry`
  (`deploy/onos-operator.yaml:405`): the call is answered with 404, `failurePolicy: Ignore`
  admits the pod as it is, and the theorem says that it gets no proxy (`PathInv`, in the
  inductive invariant, says so of every pod at any time). The run has the path that is
  served, for the rest to be worth checking.

## 4. Fairness

Both controllers (`FairSpec`):

* weak fairness of the delivery of events, of the garbage collector and, in a
  terminating namespace, of the namespace controller: these are loops of
  Kubernetes and of controller-runtime that go on as long as they have work;
* weak fairness of `Step(w)`: the goroutine of a worker finishes the reconcile it
  has begun (a failed call is a step too);
* strong fairness of `Take(w, e)`: the work queue is first in, first out, so that a
  request that keeps coming back is taken though others are served before it.

The periodic resync of the informers is no part of it. One property needs it and
says so: `EventuallyPublished` of `KindRelationController` has `WF(KRResync)` as its
hypothesis, for after an unseen outage nothing else makes the controller look.

App operator (`FairAppSpec`): weak fairness of the steps of each process (a failed
step is a step too), of the kubelet that restarts a container and ends a terminating
pod, of the Deployment that replaces a missing pod and removes the old one once the
new one is ready (`RemoveOld`), and of the garbage collector. Nothing obliges a rollout,
the deletion of any other pod or an application pod to come.

Nothing obliges users, the Service or other clients to act. Faults end because
`MaxFaults` ends them: the liveness properties are about what happens after the last
one.

## 5. Proofs

Proved by TLAPS from the named assumptions of the modules only, for any sets of
resources, objects, workers, aspects, clients, any number of pods, and any bounds.

**Entity controller**

* `TypeCorrect` (`Spec => []TypeOK`): one step per action. `Cluster_proofs` has
  lemmas that give the type of what `Touch`, `Store`, `Write`, `Return`, `Reply`
  produce. `CopyInv` is part of the induction: a step of a worker is typed only
  because a busy worker has a request and a copy.
* `FinalizerFirstHolds` and `StateEdgesHold`, for **any number of workers**. The
  inductive invariant is `CoreInv`: `FinalizerFirst` alone is not inductive, because
  a worker writes `Added` from its copy. `FreshInv` ties a fresh copy to the one
  version there is, `PathInv` says what the copy was when the reconcile took its
  path (Adding with the finalizer, or Removing), and `WithdrawnInv` that only a
  deleting resource is Removing or Removed. `StateEdges` follows from `CoreInv` by
  looking at each write.
* `NoLostWakeupHolds`, for **any number of workers**, any users, outages and failed
  calls. The inductive invariant is `WakeInv`: `OutdatedInv` - a copy that is no longer
  the last version has an event under way, or a retry, at its worker, so that a refused
  write is never the last word; `FoundInv` - a reconcile that is past a look-up of the
  Service that is now wrong will be repeated; `SettledInv` - a resource of which a
  worker has seen every event, and which it neither works on nor retries, is where the
  controller means to leave it, or Added with a Service that is expected to be there.
  `NoLostWakeup` is what `SettledInv` says once the Service's events are delivered too.
* `RestMeansPublishedHolds`, assuming one worker, URIs that users leave alone
  (`FixedURIs`) and that no two Entities name (`DistinctURIs`); the Service may be
  outdated. By `WakeInv` the Entity is Added; `PublishedInv` shows that the object has
  been there since: `AddedInv` - it is there from the create on, and for every Added
  Entity - and `DeletedInv` (below), by which no late Delete comes.
* `AddedCarriesSpecHolds`, assuming one worker and no other client of onos-topo; Entities
  may share URIs and change them. `CarriedInv` says what the object has when the
  reconcile is about to create it or to write the status: the aspects of the copy; the
  write goes through only if the copy is the last version.
* `OnlyGivenUpHolds`, assuming `SingleController`: one worker, and resources that keep
  their URI. Any number of Entities may share a URI, onos-topo may keep or lose its
  objects when it is removed, and the Service may be read as late as it may. The
  invariant `IInv` adds to `CoreInv`: `AddingInv` - every version of an Entity that a
  cache may still serve as Adding, and every copy of one, has an Entity on the server
  that holds the object, so that a create is never late; `AbsentInv` - before Removed is
  written the object is gone; `EarlyInv` - until onos-topo is removed for the first time,
  who finds no Service finds no objects; `SpecInv` - specs come from users.
* `EntityImplementsTopologySync`, under the same assumptions. `SyncInv` adds to
  `IInv` only `DeletedInv`: while a cache or the worker may still see a resource as
  deleting, the resource has not been created and put in charge again - else a late
  Delete would withdraw an object that is wanted, which `TopologySync` forbids.
  `AddingInv` makes a create a `Publish`, `AbsentInv` and `EarlyInv` make the write of
  Removed, or the removal of the finalizer, a `GiveUp`. The other steps stutter, but for
  `closed` (`Close`).

**Kind and Relation controllers**

* `KRTypeCorrect` (`KRSpec => []KRTypeOK`), for any number of workers.
* `KRRestMeansPublishedHolds` and `KindsCurrentHolds`, assuming one worker and
  `DistinctURIs`; users may edit everything, the URI included, and the Service may be
  outdated. The invariant is `RestInv`. Its core, `PublishedInv`, states the two
  properties of every resource whose own events are seen, whatever those of the
  Service and of the namespace: a reconcile ends without a retry only after an update
  or a create that worked. `OutdatedInv` carries the rest of the argument: an edit
  during the reconcile leaves an event.
* `ObjectHeldHolds`, assuming one worker and resources that keep their URI; the
  cached Service may be outdated and the store may survive. `ObjectHeld` is not
  inductive: a create, and the removal of a finalizer, follow a copy that may be as
  old as the cache. `TruthInv` says what outdated versions still say truly - a served
  one that the resource is in charge of the same object, a deleting one that it is
  not served again; `LatestInv` that a fresh copy is the last version; `PathInv` what
  the copy was when the reconcile took its path; `GoneInv` that a finalizer is given
  up only when the object is gone; `NamespaceInv` that a namespace once seen
  terminating is. Together they are `KRInv`.
* `KRImplementsTopologySync`: under the same assumptions, from `KRInv` and `KRInv'`,
  every step maps to a step of `TopologySync` or to a stutter, action by action.

**What the hypotheses exclude.** Each is a limit of the code, met by TLC when the
hypothesis is dropped:

* *Two workers* (the program as deployed): objects are left behind without any outage
  (`entity_orphan`), so that `OnlyGivenUp` and the refinement are about one instance,
  which is what `AddControllers` alone would start, and stay with it.
  `RestMeansPublished` of both modules fails as well: the slower worker, which still has
  the deleting version, withdraws the object of the resource that was created again
  under the same name. `AddedCarriesSpec` fails when both workers write one object.
* *Shared URIs*: the deletion of one resource withdraws the object of the other.
* *Edited URIs*: an Added Entity is not compared with onos-topo again, so that the
  object of the new URI is never created. Kinds and Relations are reconciled anew at
  every event, and `RestMeansPublished` needs no such hypothesis; the old object stays
  behind all the same, so that `OnlyGivenUp` and `ObjectHeld` do.
* *Other clients*: see `AddedCarriesSpec` in section 3.

**App operator.** `AppTypes`, `LeaderHoldsLockHolds`, `ProxyOnceHolds`,
`TrustedUntilOvertakenHolds` and `InjectedWhenCurrentHolds`, for any number of pods of
which any may be deleted at any time, and for any path of the webhook. The invariant
`IInv` adds: `ProcessInv` - processes run in pods that are there; `LeadInv` - who leads
owns its lock and runs; `PairInv` - what the init container has written so far is of one
pair, whatever an earlier run of it left in the volume; `PathInv` - at another path
nothing is injected.

**Resources in memory.** `TypeCorrect`, `CacheFaithfulHolds` and `IsolationHolds`, for any
number of clients and writes: `Owned` says that no two holders share a cell - so that of the
cells a client may use, one is always free -, `Past` that what a holder has is a version the API server had.

Only model-checked: liveness under fairness, for which this TLAPS would have to reason
about `ENABLED` and cannot: `EventuallyPublished` and `EventuallyWithdrawn` of both modules,
`NamespaceReleased`, `LocksCollected`, `EventuallyServing`, `RolloutEnds`. Every other
property of a passing run - invariant, action property or refinement - is a theorem,
some of them under the hypotheses above.

Check with `tlapm <module>.tla` for the `..._proofs` modules, and for instance with
`tlc -config EntitySingle.cfg MCEntityController`.

## 6. Abstractions, and what is not modelled

* A resource has a URI and aspects; `spec.kind`, the end points of a Relation and
  `spec.serviceName` (taken as constant, `onos-topo`) are left out. Aspects are only
  ever set, never removed, by `SetAspectBytes`, and so in the model. The object of a
  Kind bears its name: each Kind has specs of one URI.
* Users of the runs do not change a URI, and the theorems on orphans, on the
  refinement and on `RestMeansPublished` of Entities assume it. The code does nothing
  about such an edit; it is listed as a hazard.
* Finalizers form a set; the code asks only for membership and emptiness.
* Back-off and time are left out: a request that is to be tried again is in the
  queue.
* A status or metadata write of another party is a write of the garbage collector
  or of a user; annotations and labels of topology resources are not modelled.
* A Deployment has at most two live pods, as with one replica and a surge of one. A
  rolling update may begin whatever the pod that is there is doing, and either pod may
  be deleted at any time, so that updates that are undone, or overtaken by another, are
  covered. The number of a pod stands for its age, not for its revision: the Deployment
  is obliged (by fairness) to remove the older of two pods.
* A pair of keys is a number: generation, signing and encoding are cryptography and
  formatting. The content of the proxy container is left out, its presence is not.
* The CRD schemas in `deploy/crds.yaml` declare `attributes` where the Go types read
  `aspects`, and no `uri` for Relations. The model follows the Go types.
* The cache of namespaces is taken as filled, though `deploy/onos-operator.yaml`
  grants `get` only: permissions are configuration.
* Calls that take effect after the operator restarted are not modelled: a lost
  reply is followed by the retry, not by a later effect.
* Not modelled: `GetNamespace` and `GetScope` (where the operator looks, no state of
  its own), the field indexes (no code queries them), the choice among several
  Services, TLS and addresses of gRPC, the fake clientset, the registration of
  schemes, the rate limiter and options of the clients, and `Become` outside a
  cluster, which does nothing.

## 7. What could come next

In this order: an RPC in flight as a state of its own, for calls that take effect
late; edits of `spec.uri`, as runs that show the object left behind; theorems on what
still holds of objects when two controllers race.
