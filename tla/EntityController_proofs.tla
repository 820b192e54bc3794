----------------------- MODULE EntityController_proofs -----------------------
(***************************************************************************)
(* Theorems about the Entity controller, for any set of resources, URIs    *)
(* and workers and for any bounds: types, the life of status.state and     *)
(* that of the finalizer.                                                  *)
(***************************************************************************)
EXTENDS EntityController, Cluster_proofs

-----------------------------------------------------------------------------
(* Type correctness.                                                       *)

TypeInv == TypeOK /\ CopyInv /\ RevisionInv

LEMMA TypeInvParts == TypeInv <=> BaseInv /\ RevisionInv
BY DEF TypeInv, BaseInv

LEMMA TypeInvNextParts == TypeInv' <=> BaseInv' /\ RevisionInv'
BY DEF TypeInv, BaseInv

(* Every write of a worker is type correct.                                *)
LEMMA WriteType ==
  ASSUME TypeInv, NEW w \in Workers, Busy(w), pc[w] # "update",
         NEW version \in Resource, NEW again, Write(w, version, again)
  PROVE  TypeInv'
<1>1. /\ BaseInv'
      /\ \A x \in Workers : x # w => pc'[x] = pc[x] /\ resource'[x] = resource[x]
      /\ UNCHANGED <<topo, topoFresh>>
  BY WriteEffect, TypeInvParts
<1>2. RevisionInv'
  BY <1>1 DEF TypeInv, TypeOK, RevisionInv, ObjectID
<1>3. QED
  BY <1>1, <1>2, TypeInvNextParts

LEMMA TypeInvInit == Init => TypeInv
<1>1. Init => RevisionInv
  BY DEF Init, RevisionInv
<1>2. QED
  BY <1>1, BaseInvInit, TypeInvParts

(* Users and the garbage collector.                                        *)
LEMMA TypeInvUsers ==
  ASSUME TypeInv, NEW e \in Resources, User(e) \/ CollectorRelease(e)
  PROVE  TypeInv'
<1>1. BaseInv'
  BY BaseInvUsers, TypeInvParts
<1>2. UNCHANGED <<topo, pc, resource, topoFresh>>
  BY DEF User, UserCreate, UserUpdate, UserDelete, Operation, CollectorRelease
<1>3. RevisionInv'
  BY <1>2 DEF TypeInv, RevisionInv, ObjectID
<1>4. QED
  BY <1>1, <1>3, TypeInvNextParts

LEMMA TypeInvEnvironment ==
  ASSUME TypeInv,
         \/ \E e \in Resources : Deliver(e)
         \/ \E u \in URIs : TopoClientWrite(u)
         \/ DeliverService \/ Resync \/ TopoInstall \/ TopoUninstall
         \/ Restart
  PROVE  TypeInv'
<1>1. CASE DeliverService
  <2>1. services' \in Seq({"up", "down"}) /\ Len(services') > 0
    <3>1. services \in Seq({"up", "down"}) /\ Len(services) > 1
      BY <1>1 DEF DeliverService, TypeInv, TypeOK
    <3>2. QED
      BY <1>1, <3>1, TailLast DEF DeliverService
  <2>2. queue' \in [Workers -> SUBSET Resources]
    BY <1>1 DEF DeliverService, TypeInv, TypeOK, Requests
  <2>3. TypeOK'
    BY <1>1, <2>1, <2>2 DEF DeliverService, TypeInv, TypeOK
  <2>4. QED
    BY <1>1, <2>3 DEF DeliverService, TypeInv, CopyInv, RevisionInv, Busy, ObjectID
<1>2. CASE \/ \E e \in Resources : Deliver(e)
           \/ \E u \in URIs : TopoClientWrite(u)
           \/ Resync \/ TopoInstall \/ TopoUninstall \/ Restart
  <2>1. BaseInv'
    BY <1>2, BaseInvEnvironment, TypeInvParts
  <2>2. /\ topoFresh' \subseteq topoFresh
        /\ \/ UNCHANGED <<topo, pc, resource>>
           \/ topoFresh' = {}
    BY <1>2
    DEF Deliver, TopoClientWrite, Touch, Resync, TopoInstall, TopoUninstall,
        Restart
  <2>3. RevisionInv'
    BY <2>2 DEF TypeInv, RevisionInv, ObjectID
  <2>4. QED
    BY <2>1, <2>3, TypeInvNextParts
<1>3. QED
  BY <1>1, <1>2

Writes(w) ==
  \/ SetPending(w) \/ Abandon(w) \/ SetAdding(w) \/ AddTopoFinalizer(w)
  \/ SetAdded(w) \/ SetRemoving(w) \/ SetRemoved(w) \/ Release(w)

(* Each of these actions is one Write of an edited copy.                   *)
LEMMA WritesType ==
  ASSUME TypeInv, NEW w \in Workers, Writes(w)
  PROVE  TypeInv'
<1>1. Busy(w) /\ pc[w] # "update"
  BY DEF Writes, SetPending, Abandon, SetAdding, AddTopoFinalizer, SetAdded,
         SetRemoving, SetRemoved, Release, Busy
<1>2. \A state \in States, again \in BOOLEAN :
        WriteState(w, state, again) => TypeInv'
  BY <1>1, EditedCopyType, WriteType, TypeInvParts DEF WriteState
<1>3. CASE Abandon(w)
  BY <1>1, <1>3, EditedCopyType, WriteType, TypeInvParts DEF Abandon
<1>4. CASE AddTopoFinalizer(w)
  BY <1>1, <1>4, EditedCopyType, WriteType, TypeInvParts DEF AddTopoFinalizer
<1>5. CASE Release(w)
  BY <1>1, <1>5, EditedCopyType, WriteType, TypeInvParts DEF Release
<1>6. QED
  BY <1>2, <1>3, <1>4, <1>5
  DEF Writes, SetPending, SetAdding, SetAdded, SetRemoving, SetRemoved,
      Done, Requeue, States

(* A reconcile that gives up without a write or a call.                    *)
LEMMA GiveUpType ==
  ASSUME TypeInv, NEW w \in Workers,
         ServiceNotFound(w) \/ Ignore(w) \/ CallFails(w)
  PROVE  TypeInv'
<1>1. \E again \in BOOLEAN : Return(w, again)
  BY DEF ServiceNotFound, Ignore, CallFails, Done, Requeue
<1>2. Busy(w)
  BY DEF ServiceNotFound, Ignore, CallFails, Busy
<1>3. WorkerTypeOK' /\ CopyInv' /\ pc'[w] = "idle"
      /\ \A x \in Workers : x # w =>
           pc'[x] = pc[x] /\ resource'[x] = resource[x]
  BY <1>1, <1>2, ReturnEffect DEF TypeInv
<1>4. /\ UNCHANGED <<versions, services, topo, operations, outages>>
      /\ fresh' \subseteq fresh
      /\ topoFresh' \subseteq topoFresh \ {w}
      /\ faults' \in 0..MaxFaults
  BY BoundAssumption
  DEF ServiceNotFound, Ignore, CallFails, Drop, Fault, TypeInv, TypeOK,
      RevisionInv
<1>5. TypeOK'
  BY <1>3, <1>4 DEF TypeInv, TypeOK, WorkerTypeOK, Version
<1>6. RevisionInv'
  BY <1>3, <1>4 DEF TypeInv, TypeOK, RevisionInv, ObjectID
<1>7. QED
  BY <1>3, <1>5, <1>6 DEF TypeInv

(* Fetching a resource from the cache.                                     *)
LEMMA TakeType ==
  ASSUME TypeInv, NEW w \in Workers, NEW e \in Resources, Take(w, e)
  PROVE  TypeInv'
<1>1. BaseInv'
  BY TakeEffect, TypeInvParts
<1>2. /\ UNCHANGED <<topo, topoFresh>>
      /\ \A x \in Workers : pc[x] # "idle" =>
           pc'[x] = pc[x] /\ resource'[x] = resource[x]
  BY DEF Take, Skip, Fetch, TypeInv, TypeOK
<1>3. RevisionInv'
  BY <1>2 DEF TypeInv, TypeOK, RevisionInv, ObjectID
<1>4. QED
  BY <1>1, <1>3, TypeInvNextParts

(* Looking the Service up and connecting to it.                            *)
LEMMA ServiceType ==
  ASSUME TypeInv, NEW w \in Workers,
         ReadService(w) \/ ReadServiceFails(w) \/ ConnectService(w)
  PROVE  TypeInv'
<1>1. Busy(w) /\ pc[w] # "update"
  BY DEF ReadService, ReadServiceFails, ConnectService, Busy
<1>2. PICK label \in PCs \ {"idle"} : Goto(w, label)
  BY DEF ReadService, ReadServiceFails, ConnectService, PCs
<1>3. WorkerTypeOK' /\ CopyInv' /\ resource' = resource
      /\ \A x \in Workers : x # w => pc'[x] = pc[x]
  BY <1>1, <1>2, GotoEffect DEF TypeInv
<1>4. /\ UNCHANGED <<versions, services, topo, fresh, topoFresh, operations,
                     outages>>
      /\ faults' \in 0..MaxFaults
  BY BoundAssumption
  DEF ReadService, ReadServiceFails, ConnectService, Goto, Fault, TypeInv,
      TypeOK
<1>5. TypeOK'
  BY <1>3, <1>4 DEF TypeInv, TypeOK, WorkerTypeOK, Version
<1>6. RevisionInv'
  BY <1>1, <1>3, <1>4 DEF TypeInv, TypeOK, RevisionInv, ObjectID
<1>7. QED
  BY <1>3, <1>5, <1>6 DEF TypeInv

(* The calls to onos-topo.                                                 *)
LEMMA CallsType ==
  ASSUME TypeInv, NEW w \in Workers,
         \/ EntityExists(w) \/ UpdateEntity(w) \/ CreateEntity(w)
         \/ DeleteEntity(w)
  PROVE  TypeInv'
<1>1. Busy(w)
  BY DEF EntityExists, UpdateEntity, CreateEntity, DeleteEntity, Busy
<1>2. ObjectID(w) \in URIs /\ resource[w].spec.aspects \in Aspects
  BY <1>1, CopyType DEF TypeInv
<1>3. CASE EntityExists(w)
  <2>1. PICK label \in {"create", "update"} :
          /\ Goto(w, label)
          /\ label = "update" <=> topo[ObjectID(w)] # NoObject
          /\ topoFresh' = IF label = "create" THEN topoFresh \ {w}
                          ELSE topoFresh \cup {w}
    BY <1>3 DEF EntityExists
  <2>2. WorkerTypeOK' /\ CopyInv' /\ resource' = resource /\ pc'[w] = label
        /\ \A x \in Workers : x # w => pc'[x] = pc[x]
    BY <1>1, <2>1, GotoEffect DEF TypeInv, PCs
  <2>3. UNCHANGED <<versions, services, topo, fresh, operations, outages,
                    faults>>
    BY <1>3, <2>1 DEF EntityExists, Goto
  <2>4. TypeOK'
    BY <2>1, <2>2, <2>3 DEF TypeInv, TypeOK, WorkerTypeOK, Version
  <2>5. RevisionInv'
    BY <2>1, <2>2, <2>3 DEF TypeInv, TypeOK, RevisionInv, ObjectID
  <2>6. QED
    BY <2>2, <2>4, <2>5 DEF TypeInv
<1>4. CASE UpdateEntity(w)
  <2>1. /\ WorkerTypeOK' /\ CopyInv' /\ pc'[w] # "update"
        /\ \A x \in Workers : x # w =>
             pc'[x] = pc[x] /\ resource'[x] = resource[x]
        /\ fresh' \subseteq fresh /\ faults' \in 0..MaxFaults
        /\ UNCHANGED <<versions, services, operations, outages>>
    BY <1>1, <1>4, ReplyEffect, TypeInvParts DEF UpdateEntity, PCs
  <2>2. CASE w \in topoFresh
    <3>1. topo[ObjectID(w)] \in Aspects
      BY <1>2, <2>2 DEF TypeInv, TypeOK, RevisionInv
    <3>2. /\ topo' = [topo EXCEPT ![ObjectID(w)] =
                        SetAspects(@, resource[w].spec.aspects)]
          /\ topoFresh' = {x \in topoFresh :
                             resource[x].spec.uri # ObjectID(w)}
      BY <1>4, <2>2 DEF UpdateEntity, Touch
    <3>3. SetAspects(topo[ObjectID(w)], resource[w].spec.aspects) \in Aspects
      BY <1>2, <3>1, AspectsType
    <3>4. topo' \in [URIs -> Aspects \cup {NoObject}]
      BY <1>2, <3>2, <3>3 DEF TypeInv, TypeOK
    <3>5. TypeOK'
      BY <2>1, <3>2, <3>4 DEF TypeInv, TypeOK, WorkerTypeOK, Version
    <3>6. w \notin topoFresh'
      BY <3>2 DEF ObjectID
    <3>7. RevisionInv'
      BY <1>2, <2>1, <3>2, <3>6 DEF TypeInv, TypeOK, RevisionInv, ObjectID
    <3>8. QED
      BY <2>1, <3>5, <3>7 DEF TypeInv
  <2>3. CASE w \notin topoFresh
    <3>1. topo' = topo /\ topoFresh' = topoFresh
      BY <1>4, <2>3 DEF UpdateEntity
    <3>2. TypeOK'
      BY <2>1, <3>1 DEF TypeInv, TypeOK, WorkerTypeOK, Version
    <3>3. RevisionInv'
      BY <2>1, <2>3, <3>1 DEF TypeInv, TypeOK, RevisionInv, ObjectID
    <3>4. QED
      BY <2>1, <3>2, <3>3 DEF TypeInv
  <2>4. QED
    BY <2>2, <2>3
<1>5. CASE CreateEntity(w)
  <2>1. /\ WorkerTypeOK' /\ CopyInv'
        /\ \A x \in Workers : x # w =>
             pc'[x] = pc[x] /\ resource'[x] = resource[x]
        /\ fresh' \subseteq fresh /\ faults' \in 0..MaxFaults
        /\ UNCHANGED <<versions, services, operations, outages>>
    BY <1>1, <1>5, ReplyEffect, TypeInvParts DEF CreateEntity, PCs
  <2>2. SetAspects(NoAspects, resource[w].spec.aspects) \in Aspects
    BY <1>2, AspectsType DEF NoAspects, Aspects
  <2>3. /\ topo' \in [URIs -> Aspects \cup {NoObject}]
        /\ \A u \in URIs : topo[u] # NoObject => topo'[u] # NoObject
        /\ topoFresh' = topoFresh /\ pc[w] = "create"
    BY <1>2, <1>5, <2>2 DEF CreateEntity, TypeInv, TypeOK
  <2>4. TypeOK'
    BY <2>1, <2>3 DEF TypeInv, TypeOK, WorkerTypeOK, Version
  <2>5. RevisionInv'
    <3>1. \A x \in topoFresh : x # w /\ x \in Workers /\ Busy(x)
      BY <2>3 DEF TypeInv, TypeOK, RevisionInv, Busy
    <3>2. \A x \in topoFresh : ObjectID(x) \in URIs
      BY <3>1, CopyType DEF TypeInv
    <3>3. QED
      BY <2>1, <2>3, <3>1, <3>2 DEF TypeInv, RevisionInv, ObjectID
  <2>6. QED
    BY <2>1, <2>4, <2>5 DEF TypeInv
<1>6. CASE DeleteEntity(w)
  <2>1. /\ WorkerTypeOK' /\ CopyInv'
        /\ \A x \in Workers : x # w =>
             pc'[x] = pc[x] /\ resource'[x] = resource[x]
        /\ fresh' \subseteq fresh /\ faults' \in 0..MaxFaults
        /\ UNCHANGED <<versions, services, operations, outages>>
    BY <1>1, <1>6, ReplyEffect, TypeInvParts DEF DeleteEntity, PCs
  <2>2. /\ topo' = [topo EXCEPT ![ObjectID(w)] = NoObject]
        /\ topoFresh' = {x \in topoFresh : resource[x].spec.uri # ObjectID(w)}
    BY <1>6 DEF DeleteEntity, Touch
  <2>3. TypeOK'
    BY <1>2, <2>1, <2>2 DEF TypeInv, TypeOK, WorkerTypeOK, Version
  <2>4. w \notin topoFresh'
    BY <2>2 DEF ObjectID
  <2>5. RevisionInv'
    BY <1>2, <2>1, <2>2, <2>4 DEF TypeInv, TypeOK, RevisionInv, ObjectID
  <2>6. QED
    BY <2>1, <2>3, <2>5 DEF TypeInv
<1>7. QED
  BY <1>3, <1>4, <1>5, <1>6

LEMMA TypeInvStep == TypeInv /\ [Next]_vars => TypeInv'
<1> SUFFICES ASSUME TypeInv, [Next]_vars
             PROVE  TypeInv'
  OBVIOUS
<1>1. ASSUME NEW e \in Resources, User(e) \/ CollectorRelease(e)
      PROVE  TypeInv'
  BY <1>1, TypeInvUsers
<1>2. ASSUME NEW w \in Workers, NEW e \in Resources, Take(w, e)
      PROVE  TypeInv'
  BY <1>2, TakeType
<1>3. ASSUME NEW w \in Workers, Step(w)
      PROVE  TypeInv'
  BY <1>3, WritesType, GiveUpType, ServiceType, CallsType DEF Step, Writes
<1>4. CASE UNCHANGED vars
  BY <1>4
  DEF vars, TypeInv, TypeOK, CopyInv, RevisionInv, Busy, ObjectID
<1>5. QED
  BY <1>1, <1>2, <1>3, <1>4, TypeInvEnvironment DEF Next

LEMMA TypeInvCorrect == Spec => []TypeInv
BY TypeInvInit, TypeInvStep, PTL DEF Spec

(* Every variable keeps its type, for any number of workers.               *)
THEOREM TypeCorrect == Spec => []TypeOK
<1>1. TypeInv => TypeOK
  BY DEF TypeInv
<1>2. QED
  BY <1>1, TypeInvCorrect, PTL
-----------------------------------------------------------------------------
(* Any number of workers: CoreInv and the edges of status.state.           *)

(* A version that agrees with WithdrawnInv and FinalizerFirst.             *)
Lawful(version) ==
  Exists(version) =>
    /\ version.state \in {"Removing", "Removed"} => version.deleting
    /\ version.state \in {"Added", "Removing", "Removed"} =>
         HasTopoFinalizer(version)

LEMMA CoreInvParts ==
  CoreInv <=> /\ TypeInv /\ FreshInv /\ PathInv
              /\ \A e \in Resources : Lawful(Current(e))
BY DEF CoreInv, TypeInv, WithdrawnInv, FinalizerFirst, Lawful

LEMMA CoreInvNextParts ==
  CoreInv' <=> /\ TypeInv' /\ FreshInv' /\ PathInv'
               /\ \A e \in Resources : Lawful(Current(e))'
BY DEF CoreInv, TypeInv, WithdrawnInv, FinalizerFirst, Lawful

(* Steps that store nothing and at most drop versions from the cache.      *)
LEMMA NoStore ==
  ASSUME CoreInv,
         \A e \in Resources : Last(versions'[e]) = Last(versions[e])
  PROVE  \A e \in Resources : /\ Lawful(Current(e))'
                              /\ LegalEdge(Current(e), Current(e)')
BY CoreInvParts DEF Current, Lawful, LegalEdge, Exists, HasTopoFinalizer

(* A write at the server of a lawful version, on a legal edge.             *)
LEMMA StoreLawful ==
  ASSUME CoreInv, NEW e \in Resources, NEW version \in Version,
         Store(e, version), Lawful(version), LegalEdge(Current(e), version)
  PROVE  /\ \A d \in Resources : /\ Lawful(Current(d))'
                                 /\ LegalEdge(Current(d), Current(d)')
         /\ fresh' \subseteq fresh
         /\ \A w \in fresh' : Busy(w) => versions'[request[w]] = versions[request[w]]
<1>1. /\ Last(versions'[e]) = version
      /\ \A d \in Resources : d # e => versions'[d] = versions[d]
      /\ fresh' \subseteq fresh
      /\ \A w \in fresh' : request[w] = e => versions' = versions
  BY StoreEffect DEF CoreInv
<1>2. \A d \in Resources : /\ Lawful(Current(d))'
                           /\ LegalEdge(Current(d), Current(d)')
  <2>1. TAKE d \in Resources
  <2>2. Lawful(Current(d))
    BY CoreInvParts
  <2>3. CASE d = e
    BY <1>1, <2>3 DEF Current, Lawful, Exists, HasTopoFinalizer
  <2>4. CASE d # e
    BY <1>1, <2>2, <2>4
    DEF Current, Lawful, LegalEdge, Exists, HasTopoFinalizer
  <2>5. QED
    BY <2>3, <2>4
<1>3. \A w \in fresh' : Busy(w) => versions'[request[w]] = versions[request[w]]
  BY <1>1 DEF CoreInv, TypeOK, CopyInv
<1>4. QED
  BY <1>1, <1>2, <1>3

(* A fresh copy is what the server holds.                                  *)
LEMMA FreshCopy ==
  ASSUME CoreInv, NEW w \in Workers, Busy(w), w \in fresh
  PROVE  /\ Current(request[w]) = resource[w] /\ Cached(request[w]) = resource[w]
         /\ ToSet(versions[request[w]]) = {resource[w]}
         /\ Lawful(resource[w])
<1>1. versions[request[w]] = <<resource[w]>> /\ request[w] \in Resources
      /\ resource[w] \in Resource
  BY CopyType DEF CoreInv, FreshInv
<1>2. QED
  BY <1>1, OneElement, CoreInvParts DEF Current, Cached

(* The effect of a worker's write that is lawful whenever the copy is.     *)
LEMMA WriteCore ==
  ASSUME CoreInv, NEW w \in Workers, Busy(w), pc[w] # "update",
         NEW version \in Resource, NEW again, Write(w, version, again),
         w \in fresh => /\ Lawful(Stored(version))
                        /\ LegalEdge(resource[w], Stored(version))
  PROVE  /\ CoreInv'
         /\ \A e \in Resources : LegalEdge(Current(e), Current(e)')
<1>1. TypeInv'
  BY WriteType, CoreInvParts
<1>2. /\ pc'[w] = "idle"
      /\ \A x \in Workers : x # w =>
           /\ pc'[x] = pc[x] /\ request'[x] = request[x]
           /\ resource'[x] = resource[x]
  <2>1. Return(w, again) \/ Return(w, Requeue)
    BY DEF Write
  <2>2. QED
    BY <2>1, ReturnEffect DEF CoreInv
<1>3. /\ \A e \in Resources : /\ Lawful(Current(e))'
                              /\ LegalEdge(Current(e), Current(e)')
      /\ fresh' \subseteq fresh
      /\ \A x \in fresh' : Busy(x) =>
           versions'[request[x]] = versions[request[x]]
  <2>1. CASE w \in fresh /\ Store(request[w], Stored(version))
    BY <2>1, StoreLawful, FreshCopy, StoredType, CopyType DEF CoreInv
  <2>2. CASE UNCHANGED versions /\ Drop(w)
    BY <2>2, NoStore DEF Drop
  <2>3. QED
    BY <2>1, <2>2 DEF Write
<1>4. FreshInv'
  <2>1. fresh' \subseteq Workers
    BY <1>3 DEF CoreInv, TypeOK
  <2>2. SUFFICES ASSUME NEW x \in fresh', pc'[x] # "idle"
                 PROVE  versions'[request'[x]] = <<resource'[x]>>
    BY DEF FreshInv, Busy
  <2>3. x # w /\ x \in fresh /\ x \in Workers
    BY <1>2, <1>3, <2>1, <2>2
  <2>4. Busy(x) /\ request'[x] = request[x] /\ resource'[x] = resource[x]
    BY <1>2, <2>2, <2>3 DEF Busy
  <2>5. versions[request[x]] = <<resource[x]>>
    BY <2>3, <2>4 DEF CoreInv, FreshInv
  <2>6. QED
    BY <1>3, <2>2, <2>4, <2>5
<1>5. PathInv'
  BY <1>2 DEF CoreInv, PathInv
<1>6. CoreInv'
  BY <1>1, <1>3, <1>4, <1>5, CoreInvNextParts
<1>7. QED
  BY <1>3, <1>6

(* The writes of a worker, one by one.                                     *)
LEMMA WritesCore ==
  ASSUME CoreInv, NEW w \in Workers, Writes(w)
  PROVE  /\ CoreInv'
         /\ \A e \in Resources : LegalEdge(Current(e), Current(e)')
<1>1. Busy(w) /\ pc[w] # "update"
  BY DEF Writes, SetPending, Abandon, SetAdding, AddTopoFinalizer, SetAdded,
         SetRemoving, SetRemoved, Release, Busy
<1>2. /\ resource[w] \in Resource /\ resource[w].deleting \in BOOLEAN
      /\ Exists(resource[w]) /\ ~Finalized(resource[w])
      /\ w \in fresh => Lawful(resource[w])
  BY <1>1, CopyType, FreshCopy DEF CoreInv, CopyInv
<1>3. TypeInv
  BY CoreInvParts
<1>4. ASSUME NEW state \in States, NEW again,
             Write(w, [resource[w] EXCEPT !.state = state], again),
             \/ /\ ~resource[w].deleting
                /\ state \in {"Pending", "Adding"}
             \/ Adding(resource[w]) /\ state = "Added"
             \/ /\ resource[w].deleting
                /\ state \in {"Removing", "Removed"},
             \/ <<resource[w].state, state>> \in Precedes
             \/ state = "Pending"
      PROVE  /\ CoreInv'
             /\ \A e \in Resources : LegalEdge(Current(e), Current(e)')
  <2> DEFINE new == [resource[w] EXCEPT !.state = state]
  <2>1. /\ new \in Resource /\ new.state = state
        /\ new.deleting = resource[w].deleting
        /\ new.finalizers = resource[w].finalizers
    BY <1>1, <1>2, <1>3, EditedCopyType DEF TypeInv, BaseInv, Resource
  <2>2. new.deleting => HasTopoFinalizer(new)
    BY <1>2, <2>1 DEF Finalized, HasTopoFinalizer
  <2>3. Stored(new) = new
    BY <2>1, <2>2 DEF Stored, HasTopoFinalizer, HasFinalizer
  <2>4. HasTopoFinalizer(new) <=> HasTopoFinalizer(resource[w])
    BY <2>1 DEF HasTopoFinalizer
  <2>5. Lawful(new)
    BY <1>4, <2>1, <2>2, <2>4 DEF Lawful, Adding
  <2>6. LegalEdge(resource[w], new)
    BY <1>4, <2>1 DEF LegalEdge, Adding, Precedes
  <2>7. QED
    BY <1>1, <1>4, <2>1, <2>3, <2>5, <2>6, WriteCore
<1>5. CASE SetPending(w)
  BY <1>4, <1>5 DEF SetPending, WriteState, States
<1>6. CASE SetAdding(w)
  BY <1>4, <1>6 DEF SetAdding, WriteState, States, Precedes
<1>7. CASE SetAdded(w)
  <2>1. Adding(resource[w])
    BY <1>7 DEF SetAdded, CoreInv, PathInv
  <2>2. <<resource[w].state, "Added">> \in Precedes
    BY <2>1 DEF Adding, Precedes
  <2>3. QED
    BY <1>4, <1>7, <2>1, <2>2 DEF SetAdded, WriteState, States
<1>8. CASE SetRemoving(w)
  <2>1. resource[w].deleting /\ <<resource[w].state, "Removing">> \in Precedes
    BY <1>8 DEF SetRemoving, Precedes
  <2>2. QED
    BY <1>4, <1>8, <2>1 DEF SetRemoving, WriteState, States
<1>9. CASE SetRemoved(w)
  <2>1. Removing(resource[w])
    BY <1>9 DEF SetRemoved, CoreInv, PathInv
  <2>2. resource[w].deleting /\ <<resource[w].state, "Removed">> \in Precedes
    BY <2>1 DEF Removing, Precedes
  <2>3. QED
    BY <1>4, <1>9, <2>2 DEF SetRemoved, WriteState, States
<1>10. CASE AddTopoFinalizer(w)
  <2> DEFINE new == [resource[w] EXCEPT
                       !.finalizers = AddFinalizer(@, TopoFinalizer)]
  <2>1. /\ new \in Resource /\ new.state = resource[w].state
        /\ new.deleting = resource[w].deleting
        /\ new.finalizers = AddFinalizer(resource[w].finalizers, TopoFinalizer)
    BY <1>1, <1>2, <1>3, EditedCopyType DEF TypeInv, BaseInv, Resource
  <2>2. ~new.deleting /\ new.state = "Adding"
    BY <1>10, <2>1 DEF AddTopoFinalizer
  <2>3. Stored(new) = new
    BY <2>2 DEF Stored
  <2>4. Lawful(new) /\ LegalEdge(resource[w], new)
    BY <2>1, <2>2 DEF Lawful, LegalEdge
  <2>5. QED
    BY <1>1, <1>10, <2>1, <2>3, <2>4, WriteCore DEF AddTopoFinalizer
<1>11. ASSUME resource[w].deleting, NEW again,
              Write(w, [resource[w] EXCEPT
                     !.finalizers = RemoveFinalizer(@, TopoFinalizer)], again)
       PROVE  /\ CoreInv'
              /\ \A e \in Resources : LegalEdge(Current(e), Current(e)')
  <2> DEFINE new == [resource[w] EXCEPT
                       !.finalizers = RemoveFinalizer(@, TopoFinalizer)]
  <2>1. /\ new \in Resource /\ new.state = resource[w].state
        /\ new.deleting = resource[w].deleting
        /\ new.finalizers
             = RemoveFinalizer(resource[w].finalizers, TopoFinalizer)
    BY <1>1, <1>2, <1>3, EditedCopyType DEF TypeInv, BaseInv, Resource
  <2>2. CASE new.finalizers = {}
    <3>1. Stored(new) = NoResource
      BY <1>11, <2>1, <2>2 DEF Stored
    <3>2. QED
      BY <1>1, <1>11, <2>1, <3>1, WriteCore DEF Lawful, LegalEdge, Exists
  <2>3. CASE new.finalizers # {}
    <3>1. HasTopoFinalizer(new) /\ HasTopoFinalizer(resource[w])
      BY <1>2, <1>11, <2>1, <2>3
      DEF HasTopoFinalizer, HasFinalizer, RemoveFinalizer, Finalized
    <3>2. Stored(new) = new
      BY <2>3 DEF Stored
    <3>3. w \in fresh => Lawful(new)
      BY <1>2, <1>11, <2>1, <3>1 DEF Lawful
    <3>4. LegalEdge(resource[w], new)
      BY <2>1 DEF LegalEdge
    <3>5. QED
      BY <1>1, <1>11, <2>1, <3>2, <3>3, <3>4, WriteCore
  <2>4. QED
    BY <2>2, <2>3
<1>12. CASE Abandon(w)
  BY <1>11, <1>12 DEF Abandon
<1>13. CASE Release(w)
  BY <1>11, <1>13 DEF Release
<1>14. QED
  BY <1>5, <1>6, <1>7, <1>8, <1>9, <1>10, <1>12, <1>13 DEF Writes

(* Steps of the server that leave the workers alone.                       *)
LEMMA ServerCore ==
  ASSUME CoreInv, TypeInv', UNCHANGED <<pc, request, resource>>,
         \A d \in Resources : Lawful(Current(d))',
         fresh' \subseteq fresh,
         \A w \in fresh' : Busy(w) =>
           versions'[request[w]] = versions[request[w]]
  PROVE  CoreInv'
<1>1. FreshInv'
  BY DEF CoreInv, FreshInv, Busy
<1>2. PathInv'
  BY DEF CoreInv, PathInv
<1>3. QED
  BY <1>1, <1>2, CoreInvNextParts

(* Users and the garbage collector never undo a withdrawal.                *)
LEMMA UsersCore ==
  ASSUME CoreInv, NEW e \in Resources, User(e) \/ CollectorRelease(e)
  PROVE  /\ CoreInv'
         /\ \A d \in Resources : LegalEdge(Current(d), Current(d)')
<1>1. /\ Current(e) \in Version /\ Lawful(Current(e))
      /\ Exists(Current(e)) => /\ Current(e) \in Resource
                               /\ Current(e).finalizers \in SUBSET Finalizer
                               /\ Current(e).deleting \in BOOLEAN
  BY CurrentType, CoreInvParts DEF CoreInv, Resource
<1>2. TypeInv'
  BY TypeInvUsers, CoreInvParts
<1>3. UNCHANGED <<pc, request, resource>>
  BY DEF User, UserCreate, UserUpdate, UserDelete, CollectorRelease,
         Operation
<1>4. \E version \in Version : /\ Store(e, version)
                              /\ Lawful(version)
                              /\ LegalEdge(Current(e), version)
  <2>1. CASE UserCreate(e)
    <3>1. PICK spec \in SpecsOf[e] : Store(e, NewResource(spec))
      BY <2>1 DEF UserCreate
    <3>2. NewResource(spec) \in Version
      BY SpecsAssumption DEF NewResource, Version, Resource, States
    <3>3. Lawful(NewResource(spec)) /\ LegalEdge(Current(e), NewResource(spec))
      BY <2>1 DEF UserCreate, NewResource, Lawful, LegalEdge
    <3>4. QED
      BY <3>1, <3>2, <3>3
  <2>2. CASE UserUpdate(e)
    <3>1. PICK spec \in SpecsOf[e] :
            Store(e, [Current(e) EXCEPT !.spec = spec])
      BY <2>2 DEF UserUpdate
    <3> DEFINE new == [Current(e) EXCEPT !.spec = spec]
    <3>2. /\ new \in Resource /\ new.state = Current(e).state
          /\ new.deleting = Current(e).deleting
          /\ new.finalizers = Current(e).finalizers
          /\ Exists(Current(e))
      BY <1>1, <2>2, SpecsAssumption DEF UserUpdate, Resource
    <3>3. Lawful(new) /\ LegalEdge(Current(e), new)
      BY <1>1, <3>2 DEF Lawful, LegalEdge, HasTopoFinalizer
    <3>4. QED
      BY <3>1, <3>2, <3>3 DEF Version
  <2>3. CASE UserDelete(e)
    <3>1. PICK added \in {{}, {GCFinalizer}} :
            Store(e, Stored([Current(e) EXCEPT !.deleting = TRUE,
                                       !.finalizers = @ \cup added]))
      BY <2>3 DEF UserDelete
    <3> DEFINE new == [Current(e) EXCEPT !.deleting = TRUE,
                                         !.finalizers = @ \cup added]
    <3>2. /\ new \in Resource /\ new.state = Current(e).state
          /\ new.deleting /\ Exists(Current(e))
          /\ new.finalizers = Current(e).finalizers \cup added
      BY <1>1, <2>3 DEF UserDelete, Resource, Finalizer
    <3>3. HasTopoFinalizer(Current(e)) => HasTopoFinalizer(new)
      BY <3>2 DEF HasTopoFinalizer, HasFinalizer
    <3>4. Lawful(Stored(new)) /\ LegalEdge(Current(e), Stored(new))
      BY <1>1, <3>2, <3>3 DEF Stored, Lawful, LegalEdge, Exists
    <3>5. QED
      BY <3>1, <3>2, <3>4, StoredType
  <2>4. CASE CollectorRelease(e)
    <3> DEFINE new == [Current(e) EXCEPT !.finalizers = @ \ {GCFinalizer}]
    <3>1. /\ new \in Resource /\ new.state = Current(e).state
          /\ new.deleting /\ Exists(Current(e))
          /\ new.finalizers = Current(e).finalizers \ {GCFinalizer}
      BY <1>1, <2>4 DEF CollectorRelease, Resource, Finalizer
    <3>2. HasTopoFinalizer(Current(e)) => HasTopoFinalizer(new)
      BY <3>1, NoneAssumption DEF HasTopoFinalizer, HasFinalizer
    <3>3. Lawful(Stored(new)) /\ LegalEdge(Current(e), Stored(new))
      BY <1>1, <3>1, <3>2 DEF Stored, Lawful, LegalEdge, Exists
    <3>4. QED
      BY <2>4, <3>1, <3>3, StoredType DEF CollectorRelease
  <2>5. QED
    BY <2>1, <2>2, <2>3, <2>4 DEF User
<1>5. QED
  BY <1>2, <1>3, <1>4, StoreLawful, ServerCore

(* The cache, the topo service and a restart change no version the server  *)
(* holds.                                                                  *)
LEMMA EnvironmentCore ==
  ASSUME CoreInv,
         \/ \E e \in Resources : Deliver(e)
         \/ \E u \in URIs : TopoClientWrite(u)
         \/ DeliverService \/ Resync \/ TopoInstall \/ TopoUninstall
         \/ Restart
  PROVE  /\ CoreInv'
         /\ \A e \in Resources : Current(e)' = Current(e)
         /\ \A e \in Resources : LegalEdge(Current(e), Current(e)')
<1>1. TypeInv'
  BY TypeInvEnvironment, CoreInvParts
<1>2. CASE \/ \E u \in URIs : TopoClientWrite(u)
           \/ DeliverService \/ Resync \/ TopoInstall \/ TopoUninstall
  <2>1. UNCHANGED <<versions, pc, request, resource, fresh>>
    BY <1>2 DEF TopoClientWrite, DeliverService, Resync, TopoInstall,
                TopoUninstall
  <2>2. QED
    BY <1>1, <2>1, NoStore, ServerCore DEF Current
<1>3. ASSUME NEW e \in Resources, Deliver(e)
      PROVE  /\ CoreInv'
             /\ \A d \in Resources : Current(d)' = Current(d)
             /\ \A d \in Resources : LegalEdge(Current(d), Current(d)')
  <2>1. /\ versions \in [Resources -> Seq(Version)] /\ Len(versions[e]) > 1
        /\ versions' = [versions EXCEPT ![e] = Tail(@)]
        /\ UNCHANGED <<pc, request, resource, fresh>>
    BY <1>3 DEF Deliver, CoreInv, TypeOK, Version
  <2>2. \A d \in Resources : Last(versions'[d]) = Last(versions[d])
    BY <2>1, TailLast
  <2>3. \A w \in fresh : Busy(w) => versions'[request[w]] = versions[request[w]]
    <3>1. TAKE w \in fresh
    <3>2. HAVE Busy(w)
    <3>3. w \in Workers
      BY DEF CoreInv, TypeOK
    <3>4. versions[request[w]] = <<resource[w]>> /\ request[w] \in Resources
          /\ resource[w] \in Resource
      BY <3>2, <3>3, CopyType DEF CoreInv, FreshInv
    <3>5. request[w] # e
      BY <2>1, <3>4, OneElement
    <3>6. QED
      BY <2>1, <3>4, <3>5
  <2>4. QED
    BY <1>1, <2>1, <2>2, <2>3, NoStore, ServerCore DEF Current
<1>4. CASE Restart
  <2>1. \A d \in Resources : Last(versions'[d]) = Last(versions[d])
    BY <1>4, CurrentType, OneElement DEF Restart, Current, CoreInv
  <2>2. FreshInv' /\ PathInv'
    BY <1>4 DEF Restart, FreshInv, PathInv
  <2>3. QED
    BY <1>1, <2>1, <2>2, NoStore, CoreInvNextParts DEF Current
<1>5. QED
  BY <1>2, <1>3, <1>4

(* Steps of worker w that store nothing.                                   *)
LEMMA MoveCore ==
  ASSUME CoreInv, TypeInv', NEW w \in Workers, versions' = versions,
         fresh' \subseteq fresh,
         \A x \in Workers : x # w =>
           /\ pc'[x] = pc[x] /\ request'[x] = request[x]
           /\ resource'[x] = resource[x],
         \/ pc'[w] = "idle"
         \/ /\ Busy(w) /\ request'[w] = request[w] /\ resource'[w] = resource[w]
            /\ pc'[w] \in {"exists", "update", "create", "created"} =>
                 Adding(resource[w])
            /\ pc'[w] \in {"delete", "deleted"} => Removing(resource[w])
  PROVE  /\ CoreInv'
         /\ \A e \in Resources : LegalEdge(Current(e), Current(e)')
<1>1. FreshInv'
  <2>1. fresh' \subseteq Workers
    BY DEF CoreInv, TypeOK
  <2>2. QED
    BY <2>1 DEF CoreInv, FreshInv, Busy
<1>2. PathInv'
  BY DEF CoreInv, PathInv
<1>3. QED
  BY <1>1, <1>2, NoStore, CoreInvNextParts

LEMMA TakeCore ==
  ASSUME CoreInv, NEW w \in Workers, NEW e \in Resources, Take(w, e)
  PROVE  /\ CoreInv'
         /\ \A d \in Resources : Current(d)' = Current(d)
         /\ \A d \in Resources : LegalEdge(Current(d), Current(d)')
<1>1. TypeInv'
  BY TakeType, CoreInvParts
<1>2. \A d \in Resources : /\ Last(versions'[d]) = Last(versions[d])
                           /\ Current(d)' = Current(d)
  BY DEF Take, Skip, Fetch, Current
<1>3. CASE Skip(w, e)
  <2>1. FreshInv' /\ PathInv'
    BY <1>3 DEF Skip, CoreInv, FreshInv, PathInv, Busy
  <2>2. QED
    BY <1>1, <1>2, <2>1, NoStore, CoreInvNextParts
<1>4. CASE Fetch(w, e)
  <2>1. /\ pc' = [pc EXCEPT ![w] = "service"]
        /\ request' = [request EXCEPT ![w] = e]
        /\ resource' = [resource EXCEPT ![w] = Cached(e)]
        /\ fresh' \subseteq fresh \cup {w}
        /\ w \in fresh' => Len(versions[e]) = 1
        /\ versions' = versions
    BY <1>4 DEF Fetch
  <2>2. /\ pc'[w] = "service" /\ request'[w] = e /\ resource'[w] = Cached(e)
        /\ \A x \in Workers : x # w =>
             /\ pc'[x] = pc[x] /\ request'[x] = request[x]
             /\ resource'[x] = resource[x]
        /\ fresh \subseteq Workers
    BY <2>1 DEF CoreInv, TypeOK
  <2>3. FreshInv'
    <3>1. SUFFICES ASSUME NEW x \in fresh', pc'[x] # "idle"
                   PROVE  versions[request'[x]] = <<resource'[x]>>
      BY <2>1 DEF FreshInv, Busy
    <3>2. CASE x = w
      BY <2>1, <2>2, <3>1, <3>2, CurrentType DEF CoreInv
    <3>3. CASE x # w
      BY <2>1, <2>2, <3>1, <3>3 DEF CoreInv, FreshInv, Busy
    <3>4. QED
      BY <3>2, <3>3
  <2>4. PathInv'
    BY <2>2 DEF CoreInv, PathInv
  <2>5. QED
    BY <1>1, <1>2, <2>3, <2>4, NoStore, CoreInvNextParts
<1>5. QED
  BY <1>3, <1>4 DEF Take

(* The steps of a reconcile between the fetch and the write.               *)
Moves(w) ==
  \/ ReadService(w) \/ ReadServiceFails(w) \/ ConnectService(w)
  \/ ServiceNotFound(w) \/ CallFails(w) \/ Ignore(w)
  \/ EntityExists(w) \/ UpdateEntity(w) \/ CreateEntity(w)
  \/ DeleteEntity(w)

(* Where such a step leads: to an end, or onwards on the same path.        *)
LEMMA MovesEffect ==
  ASSUME CoreInv, NEW w \in Workers, Moves(w)
  PROVE  /\ versions' = versions /\ fresh' \subseteq fresh
         /\ \A x \in Workers : x # w =>
              /\ pc'[x] = pc[x] /\ request'[x] = request[x]
              /\ resource'[x] = resource[x]
         /\ \/ pc'[w] = "idle"
            \/ /\ Busy(w) /\ request'[w] = request[w]
               /\ resource'[w] = resource[w]
               /\ pc'[w] \in {"exists", "update", "create", "created"} =>
                    Adding(resource[w])
               /\ pc'[w] \in {"delete", "deleted"} => Removing(resource[w])
<1>1. Busy(w) /\ TypeInv
  BY CoreInvParts
  DEF Moves, ReadService, ReadServiceFails, ConnectService, ServiceNotFound,
      CallFails, Ignore, EntityExists, UpdateEntity, CreateEntity,
      DeleteEntity, Busy
<1>2. /\ pc[w] \in {"exists", "update", "create", "created"} =>
           Adding(resource[w])
      /\ pc[w] \in {"delete", "deleted"} => Removing(resource[w])
  BY DEF CoreInv, PathInv
<1>3. versions' = versions /\ fresh' \subseteq fresh
  BY DEF Moves, ReadService, ReadServiceFails, ConnectService,
         ServiceNotFound, CallFails, Ignore, EntityExists, UpdateEntity,
         CreateEntity, DeleteEntity, Goto, Reply, Drop
<1>4. ASSUME NEW again, Return(w, again)
      PROVE  /\ pc'[w] = "idle"
             /\ \A x \in Workers : x # w =>
                  /\ pc'[x] = pc[x] /\ request'[x] = request[x]
                  /\ resource'[x] = resource[x]
  BY <1>1, <1>4, ReturnEffect DEF TypeInv
<1>5. ASSUME NEW label \in PCs \ {"idle"}, Goto(w, label)
      PROVE  /\ pc'[w] = label /\ request' = request /\ resource' = resource
             /\ \A x \in Workers : x # w => pc'[x] = pc[x]
  BY <1>1, <1>5, GotoEffect DEF TypeInv
<1>6. CASE ServiceNotFound(w) \/ CallFails(w) \/ Ignore(w)
  BY <1>3, <1>4, <1>6 DEF ServiceNotFound, CallFails, Ignore
<1>7. CASE ReadService(w) \/ ReadServiceFails(w)
  <2>1. PICK label \in {"found", "notFound"} : Goto(w, label)
    BY <1>7 DEF ReadService, ReadServiceFails
  <2>2. QED
    BY <1>1, <1>3, <1>5, <2>1 DEF PCs
<1>8. CASE ConnectService(w)
  <2>1. Goto(w, IF resource[w].deleting THEN "delete" ELSE "exists")
    BY <1>8 DEF ConnectService
  <2>2. IF resource[w].deleting THEN Removing(resource[w]) ELSE Adding(resource[w])
    BY <1>8 DEF ConnectService, Adding, Removing
  <2>3. QED
    BY <1>1, <1>3, <1>5, <2>1, <2>2 DEF PCs
<1>9. CASE EntityExists(w)
  <2>1. PICK label \in {"create", "update"} : Goto(w, label)
    BY <1>9 DEF EntityExists
  <2>2. Adding(resource[w])
    BY <1>2, <1>9 DEF EntityExists
  <2>3. QED
    BY <1>1, <1>3, <1>5, <2>1, <2>2 DEF PCs
<1>10. CASE UpdateEntity(w) \/ CreateEntity(w)
  <2>1. PICK label \in {"create", "created"} :
          Goto(w, label) \/ Return(w, Requeue)
    BY <1>10 DEF UpdateEntity, CreateEntity, Reply
  <2>2. Adding(resource[w])
    BY <1>2, <1>10 DEF UpdateEntity, CreateEntity
  <2>3. QED
    BY <1>1, <1>3, <1>4, <1>5, <2>1, <2>2 DEF PCs
<1>11. CASE DeleteEntity(w)
  <2>1. Goto(w, "deleted") \/ Return(w, Requeue)
    BY <1>11 DEF DeleteEntity, Reply
  <2>2. Removing(resource[w])
    BY <1>2, <1>11 DEF DeleteEntity
  <2>3. QED
    BY <1>1, <1>3, <1>4, <1>5, <2>1, <2>2 DEF PCs
<1>12. QED
  BY <1>6, <1>7, <1>8, <1>9, <1>10, <1>11 DEF Moves

LEMMA MovesCore ==
  ASSUME CoreInv, NEW w \in Workers, Moves(w)
  PROVE  /\ CoreInv'
         /\ \A e \in Resources : LegalEdge(Current(e), Current(e)')
<1>1. TypeInv'
  BY CoreInvParts, GiveUpType, ServiceType, CallsType DEF Moves
<1>2. QED
  BY <1>1, MovesEffect, MoveCore

LEMMA CoreInvInit == Init => CoreInv
<1> SUFFICES ASSUME Init
             PROVE  CoreInv
  OBVIOUS
<1>1. \A e \in Resources : Current(e) = NoResource
  BY OneElement DEF Init, Current, Version
<1>2. QED
  BY <1>1, TypeInvInit, CoreInvParts
  DEF Init, FreshInv, PathInv, Lawful, Exists

LEMMA CoreInvStep ==
  CoreInv /\ [Next]_vars =>
    /\ CoreInv'
    /\ \A e \in Resources : LegalEdge(Current(e), Current(e)')
<1> SUFFICES ASSUME CoreInv, [Next]_vars
             PROVE  /\ CoreInv'
                    /\ \A e \in Resources : LegalEdge(Current(e), Current(e)')
  OBVIOUS
<1>1. ASSUME NEW w \in Workers, Step(w)
      PROVE  /\ CoreInv'
             /\ \A e \in Resources : LegalEdge(Current(e), Current(e)')
  BY <1>1, WritesCore, MovesCore DEF Step, Writes, Moves
<1>2. CASE UNCHANGED vars
  <2>1. TypeInv'
    BY <1>2, TypeInvStep, CoreInvParts
  <2>2. FreshInv' /\ PathInv' /\ versions' = versions
    BY <1>2 DEF vars, CoreInv, FreshInv, PathInv, Busy
  <2>3. QED
    BY <2>1, <2>2, NoStore, CoreInvNextParts
<1>3. QED
  BY <1>1, <1>2, UsersCore, TakeCore, EnvironmentCore DEF Next

LEMMA CoreInvCorrect == Spec => []CoreInv
<1>1. CoreInv /\ [Next]_vars => CoreInv'
  BY CoreInvStep
<1>2. QED
  BY <1>1, CoreInvInit, PTL DEF Spec

(* For any number of workers, the finalizer is on the server before the    *)
(* status claims an object and stays until it is withdrawn.                *)
THEOREM FinalizerFirstHolds == Spec => []FinalizerFirst
<1>1. CoreInv => FinalizerFirst
  BY DEF CoreInv
<1>2. QED
  BY <1>1, CoreInvCorrect, PTL

(* For any number of workers, status.state takes only legal edges.         *)
THEOREM StateEdgesHold == Spec => StateEdges
<1>1. CoreInv /\ [Next]_vars =>
        [\A e \in Resources : LegalEdge(Current(e), Current(e)')]_vars
  BY CoreInvStep
<1>2. QED
  BY <1>1, CoreInvCorrect, PTL DEF Spec, StateEdges

-----------------------------------------------------------------------------
(* Any number of workers: no wake-up is lost.                              *)

LEMMA WakeParts ==
  WakeInv => /\ BaseInv /\ CoreInv /\ OutdatedInv /\ FoundInv /\ SettledInv
             /\ faults \in Nat /\ services \in Seq({"up", "down"})
             /\ Len(services) \in Nat /\ Len(services) > 0
BY BoundAssumption DEF WakeInv, BaseInv, CoreInv, TypeOK

(* Nothing happens to the Service, as far as the controllers know.         *)
SameService ==
  UNCHANGED services /\ (UNCHANGED faults \/ faults' = faults + 1)

LEMMA StillExpected ==
  ASSUME faults \in Nat, SameService
  PROVE  /\ ServiceExpected => ServiceExpected'
         /\ faults > 0 => faults' > 0
<1>1. faults > 0 => faults' > 0
  BY DEF SameService
<1>2. Last(services)' = Last(services) /\ Len(services)' = Len(services)
  BY DEF SameService
<1>3. QED
  BY <1>1, <1>2 DEF ServiceExpected, ServiceUp

LEMMA FoundKept ==
  ASSUME FoundInv, \A w \in Workers : Undisturbed(w),
         \A w \in Workers : pc'[w] = "found" => pc[w] = "found",
         Head(services') = Head(services), faults > 0 => faults' > 0
  PROVE  FoundInv'
<1> SUFFICES ASSUME NEW w \in Workers, pc'[w] = "found"
             PROVE  \/ Head(services') = "up" \/ faults' > 0
                    \/ Alerted(w)'
  BY DEF FoundInv
<1>1. Head(services) = "up" \/ faults > 0 \/ Alerted(w)
  BY DEF FoundInv
<1>2. Alerted(w) => Alerted(w)'
  BY DEF Undisturbed
<1>3. QED
  BY <1>1, <1>2

(* A resource at rest stays as it is, or has come to rest well.            *)
LEMMA SettledKept ==
  ASSUME SettledInv,
         \A w \in Workers, e \in Resources : Seen(w, e)' =>
           \/ /\ Seen(w, e) /\ Current(e)' = Current(e)
              /\ ServiceExpected => ServiceExpected'
           \/ Settled(Current(e)')
           \/ Added(Current(e)') /\ ServiceExpected'
  PROVE  SettledInv'
<1> SUFFICES ASSUME NEW w \in Workers, NEW e \in Resources, Seen(w, e)'
             PROVE  \/ Settled(Current(e)')
                    \/ Added(Current(e)') /\ ServiceExpected'
  BY DEF SettledInv, Settled, Added, StuckPending, Finalized,
         HasTopoFinalizer, Exists
<1>1. CASE /\ Seen(w, e) /\ Current(e)' = Current(e)
           /\ ServiceExpected => ServiceExpected'
  <2>1. Settled(Current(e)) \/ (Added(Current(e)) /\ ServiceExpected)
    BY <1>1 DEF SettledInv
  <2>2. QED
    BY <1>1, <2>1
<1>2. QED
  BY <1>1

(* An event of e is on its way after users or Kubernetes have changed it.  *)
LEMMA UsersWake ==
  ASSUME WakeInv, NEW e \in Resources, User(e) \/ CollectorRelease(e)
  PROVE  OutdatedInv' /\ FoundInv' /\ SettledInv'
<1>1. PICK version \in Version : Store(e, version)
  BY UsersStoreVersion, WakeParts
<1>2. UNCHANGED <<services, queue, pc, request, faults>>
  BY DEF User, UserCreate, UserUpdate, UserDelete, CollectorRelease, Operation
<1>3. \A w \in Workers : Undisturbed(w)
  BY <1>1, <1>2, StoreUndisturbed, WakeParts
<1>4. OutdatedInv' /\ FoundInv'
  BY <1>2, <1>3, OutdatedKept, FoundKept, WakeParts
<1>5. SettledInv'
  <2>1. ServiceExpected => ServiceExpected'
    BY <1>2, StillExpected, WakeParts DEF SameService
  <2>2. \A d \in Resources :
          Len(versions'[d]) = 1 => versions'[d] = versions[d]
    BY <1>1, StoreLengths, WakeParts DEF BaseInv
  <2>3. \A w \in Workers, d \in Resources : Seen(w, d)' =>
          Seen(w, d) /\ Current(d)' = Current(d)
    <3>1. TAKE w \in Workers, d \in Resources
    <3>2. HAVE Seen(w, d)'
    <3>3. versions'[d] = versions[d]
      BY <2>2, <3>2 DEF Seen
    <3>4. QED
      BY <1>2, <3>2, <3>3 DEF Seen, Current
  <2>4. QED
    BY <2>1, <2>3, SettledKept, WakeParts
<1>6. QED
  BY <1>4, <1>5

(* A worker skips only resources that need nothing.                        *)
LEMMA TakeWake ==
  ASSUME WakeInv, NEW w \in Workers, NEW e \in Resources, Take(w, e)
  PROVE  OutdatedInv' /\ FoundInv' /\ SettledInv'
<1>1. /\ pc[w] = "idle" /\ request[w] = NoRequest /\ NoRequest # e
      /\ queue' = [queue EXCEPT ![w] = @ \ {e}]
      /\ UNCHANGED <<versions, services, faults>>
      /\ queue \in [Workers -> SUBSET Resources]
  BY NoneAssumption, WakeParts
  DEF Take, Skip, Fetch, BaseInv, TypeOK, CopyInv, Busy
<1>2. /\ queue'[w] = queue[w] \ {e}
      /\ \A x \in Workers : x # w => queue'[x] = queue[x]
  BY <1>1
<1>3. /\ ServiceExpected => ServiceExpected'
      /\ Head(services') = Head(services) /\ (faults > 0 => faults' > 0)
      /\ \A d \in Resources : Current(d)' = Current(d)
  BY <1>1, StillExpected, WakeParts DEF SameService, Current
<1>4. CASE Skip(w, e)
  <2>1. UNCHANGED <<pc, request, fresh>>
    BY <1>4 DEF Skip
  <2>2. \A x \in Workers : Undisturbed(x)
    BY <1>1, <1>2, <2>1 DEF Undisturbed, Alerted, Busy
  <2>3. Len(versions[e]) = 1 => Settled(Current(e)')
    BY <1>3, <1>4, CurrentType, OneElement, WakeParts
    DEF Skip, Settled, Current, BaseInv
  <2>4. SettledInv'
    BY <1>1, <1>2, <1>3, <2>1, <2>3, SettledKept, WakeParts DEF Seen
  <2>5. QED
    BY <1>3, <2>1, <2>2, <2>4, OutdatedKept, FoundKept, WakeParts
<1>5. CASE Fetch(w, e)
  <2>1. /\ pc'[w] = "service" /\ request'[w] = e
        /\ w \notin fresh' => Len(versions'[e]) > 1
        /\ \A x \in Workers : x # w =>
             /\ pc'[x] = pc[x] /\ request'[x] = request[x]
             /\ x \in fresh => x \in fresh'
    <3>1. /\ Len(versions[e]) \in Nat /\ Len(versions[e]) > 0
          /\ pc \in [Workers -> PCs]
          /\ request \in [Workers -> Resources \cup {NoRequest}]
      BY WakeParts DEF BaseInv, TypeOK
    <3>2. /\ pc' = [pc EXCEPT ![w] = "service"]
          /\ request' = [request EXCEPT ![w] = e]
          /\ fresh' = IF Len(versions[e]) = 1 THEN fresh \cup {w}
                      ELSE fresh \ {w}
      BY <1>5 DEF Fetch
    <3>3. w \notin fresh' => Len(versions'[e]) > 1
      <4>1. w \notin fresh' => Len(versions[e]) # 1
        BY <3>2
      <4>2. Len(versions[e]) # 1 => Len(versions[e]) > 1
        <5>1. \A n \in Nat : n > 0 /\ n # 1 => n > 1
          OBVIOUS
        <5>2. QED
          BY <3>1, <5>1
      <4>3. versions' = versions
        BY <1>1
      <4>4. QED
        BY <4>1, <4>2, <4>3
    <3>4. \A x \in Workers : x # w => (x \in fresh => x \in fresh')
      BY <3>2
    <3>5. QED
      BY <3>1, <3>2, <3>3, <3>4
  <2>2. OutdatedInv'
    <3>1. SUFFICES ASSUME NEW x \in Workers, pc'[x] # "idle"
                   PROVE  x \in fresh' \/ Alerted(x)'
      BY DEF OutdatedInv, Busy
    <3>2. CASE x = w
      BY <2>1, <3>2 DEF Alerted
    <3>3. CASE x # w
      BY <1>1, <1>2, <2>1, <3>1, <3>3, WakeParts
      DEF OutdatedInv, Alerted, Busy
    <3>4. QED
      BY <3>2, <3>3
  <2>3. FoundInv'
    <3>1. SUFFICES ASSUME NEW x \in Workers, pc'[x] = "found"
                   PROVE  \/ Head(services') = "up" \/ faults' > 0
                          \/ Alerted(x)'
      BY DEF FoundInv
    <3>2. x # w /\ pc[x] = "found" /\ (Alerted(x) => Alerted(x)')
      BY <1>1, <1>2, <2>1, <3>1 DEF Alerted
    <3>3. QED
      BY <1>3, <3>2, WakeParts DEF FoundInv
  <2>4. \A x \in Workers, d \in Resources : Seen(x, d)' => Seen(x, d)
    <3>1. SUFFICES ASSUME NEW x \in Workers, NEW d \in Resources, Seen(x, d)'
                   PROVE  Seen(x, d)
      OBVIOUS
    <3>2. CASE x = w
      BY <1>1, <1>2, <2>1, <3>1, <3>2, NoneAssumption DEF Seen
    <3>3. CASE x # w
      BY <1>1, <1>2, <2>1, <3>1, <3>3 DEF Seen
    <3>4. QED
      BY <3>2, <3>3
  <2>5. SettledInv'
    BY <1>3, <2>4, SettledKept, WakeParts
  <2>6. QED
    BY <2>2, <2>3, <2>5
<1>6. QED
  BY <1>4, <1>5 DEF Take

(* Steps that leave the workers and the resources alone.                   *)
LEMMA QuietWake ==
  ASSUME WakeInv, UNCHANGED <<versions, pc, request, fresh>>,
         \A w \in Workers : queue[w] \subseteq queue'[w],
         ServiceExpected => ServiceExpected',
         Head(services') = Head(services), faults > 0 => faults' > 0
  PROVE  OutdatedInv' /\ FoundInv' /\ SettledInv'
<1>1. \A w \in Workers : Undisturbed(w)
  BY NoStoreUndisturbed DEF Busy
<1>2. \A w \in Workers, e \in Resources : Seen(w, e)' =>
        Seen(w, e) /\ Current(e)' = Current(e)
  BY DEF Seen, Current
<1>3. QED
  BY <1>1, <1>2, OutdatedKept, FoundKept, SettledKept, WakeParts

(* An event of the Service reaches every resource the cache knows of.      *)
LEMMA ServiceWake ==
  ASSUME WakeInv, DeliverService
  PROVE  OutdatedInv' /\ FoundInv' /\ SettledInv'
<1>1. /\ UNCHANGED <<versions, pc, request, fresh>>
      /\ \A w \in Workers : /\ queue[w] \subseteq queue'[w]
                            /\ Requests \subseteq queue'[w]
      /\ \A e \in Resources : Current(e)' = Current(e)
  BY DEF DeliverService, Current
<1>2. \A w \in Workers : Undisturbed(w)
  BY <1>1, NoStoreUndisturbed DEF Busy
<1>3. OutdatedInv'
  BY <1>2, OutdatedKept, WakeParts
<1>4. FoundInv'
  <2>1. SUFFICES ASSUME NEW w \in Workers, pc'[w] = "found"
                 PROVE  Alerted(w)'
    BY DEF FoundInv
  <2>2. Busy(w) /\ (Alerted(w) => Alerted(w)')
    BY <1>1, <2>1 DEF Busy, Alerted
  <2>3. CASE w \in fresh
    <3>1. Cached(request[w]) = resource[w] /\ Exists(resource[w])
          /\ request[w] \in Resources
      BY <2>2, <2>3, FreshCopy, WakeParts DEF BaseInv, CopyInv
    <3>2. request[w] \in queue'[w]
      BY <1>1, <3>1 DEF Requests
    <3>3. QED
      BY <1>1, <3>2 DEF Alerted
  <2>4. QED
    BY <2>2, <2>3, WakeParts DEF OutdatedInv
<1>5. SettledInv'
  <2>1. \A w \in Workers, e \in Resources :
          Seen(w, e)' => Settled(Current(e)')
    <3>1. TAKE w \in Workers, e \in Resources
    <3>2. HAVE Seen(w, e)'
    <3>3. Len(versions[e]) = 1 /\ e \notin queue'[w]
      BY <1>1, <3>2 DEF Seen
    <3>4. ~Exists(Cached(e))
      BY <1>1, <3>3 DEF Requests
    <3>5. Cached(e) = Current(e)
      BY <3>3, CurrentType, OneElement, WakeParts DEF BaseInv, Current
    <3>6. QED
      BY <1>1, <3>4, <3>5 DEF Settled
  <2>2. QED
    BY <2>1, SettledKept, WakeParts
<1>6. QED
  BY <1>3, <1>4, <1>5

LEMMA EnvironmentWake ==
  ASSUME WakeInv,
         \/ \E e \in Resources : Deliver(e)
         \/ \E u \in URIs : TopoClientWrite(u)
         \/ DeliverService \/ Resync \/ TopoInstall \/ TopoUninstall
         \/ Restart
  PROVE  OutdatedInv' /\ FoundInv' /\ SettledInv'
<1>1. ASSUME NEW e \in Resources, Deliver(e)
      PROVE  OutdatedInv' /\ FoundInv' /\ SettledInv'
  <2>1. /\ \A d \in Resources : d # e => versions'[d] = versions[d]
        /\ \A w \in Workers : queue'[w] = queue[w] \cup {e}
        /\ UNCHANGED <<services, pc, request, fresh, faults>>
    BY <1>1, WakeParts DEF Deliver, BaseInv, TypeOK
  <2>2. \A w \in Workers : Undisturbed(w)
    <3>1. SUFFICES ASSUME NEW w \in Workers, pc'[w] # "idle"
                   PROVE  Alerted(w) => Alerted(w)'
      BY <2>1 DEF Undisturbed, Busy
    <3>2. request[w] \in Resources
      BY <2>1, <3>1, WakeParts DEF BaseInv, CopyInv, Busy
    <3>3. QED
      BY <2>1, <3>2 DEF Alerted
  <2>3. ServiceExpected => ServiceExpected'
    BY <2>1, StillExpected, WakeParts DEF SameService
  <2>4. \A w \in Workers, d \in Resources : Seen(w, d)' =>
          Seen(w, d) /\ Current(d)' = Current(d)
    BY <2>1 DEF Seen, Current
  <2>5. QED
    BY <2>1, <2>2, <2>3, <2>4, OutdatedKept, FoundKept, SettledKept, WakeParts
<1>2. CASE Resync \/ \E u \in URIs : TopoClientWrite(u)
  <2>1. /\ UNCHANGED <<versions, services, pc, request, fresh, faults>>
        /\ \A w \in Workers : queue[w] \subseteq queue'[w]
    BY <1>2 DEF Resync, TopoClientWrite
  <2>2. ServiceExpected => ServiceExpected'
    BY <2>1, StillExpected, WakeParts DEF SameService
  <2>3. QED
    BY <2>1, <2>2, QuietWake
<1>3. CASE TopoInstall \/ TopoUninstall
  <2>1. /\ UNCHANGED <<versions, queue, pc, request, fresh, faults>>
        /\ \E service \in {"up", "down"} :
             services' = Append(services, service)
    BY <1>3 DEF TopoInstall, TopoUninstall
  <2>2. Len(services') > 1 /\ Head(services') = Head(services)
    BY <2>1, WakeParts
  <2>3. QED
    BY <2>1, <2>2, QuietWake DEF ServiceExpected
<1>4. CASE Restart
  <2>1. /\ \A w \in Workers : pc'[w] = "idle"
        /\ \A w \in Workers, e \in Resources :
             Exists(Current(e)) => e \in queue'[w]
        /\ \A e \in Resources : Current(e)' = Current(e)
    BY <1>4, EnvironmentCore, WakeParts DEF Restart
  <2>2. OutdatedInv' /\ FoundInv'
    BY <2>1 DEF OutdatedInv, FoundInv, Busy
  <2>3. \A w \in Workers, e \in Resources :
          Seen(w, e)' => Settled(Current(e)')
    BY <2>1 DEF Seen, Settled
  <2>4. QED
    BY <2>2, <2>3, SettledKept, WakeParts
<1>5. QED
  BY <1>1, <1>2, <1>3, <1>4, ServiceWake

(* A write that does not ask for a retry changes the resource.             *)
LEMMA WritesChange ==
  ASSUME CoreInv, NEW w \in Workers, Writes(w)
  PROVE  /\ Busy(w)
         /\ \E version \in Resource, again \in BOOLEAN :
              /\ Write(w, version, again)
              /\ \/ again \/ w \notin fresh
                 \/ Stored(version) # Current(request[w])
<1>1. Busy(w)
  BY DEF Writes, SetPending, Abandon, SetAdding, AddTopoFinalizer, SetAdded,
         SetRemoving, SetRemoved, Release, Busy
<1>2. /\ resource[w] \in Resource /\ Exists(resource[w])
      /\ resource[w].deleting \in BOOLEAN
      /\ resource[w].deleting => HasTopoFinalizer(resource[w])
      /\ w \in fresh => Current(request[w]) = resource[w]
  BY <1>1, CopyType, FreshCopy DEF CoreInv, CopyInv, Finalized
<1>3. \A state \in States : [resource[w] EXCEPT !.state = state] \in Resource
  BY <1>1, EditedCopyType DEF BaseInv, CoreInv
<1>4. ASSUME NEW state \in States, resource[w].state # state
      PROVE  Stored([resource[w] EXCEPT !.state = state]) # resource[w]
  <2>1. [resource[w] EXCEPT !.state = state].state = state
    BY <1>2 DEF Resource
  <2>2. [resource[w] EXCEPT !.state = state] # resource[w]
    BY <1>4, <2>1
  <2>3. QED
    BY <1>2, <2>2 DEF Stored, Exists
<1>5. ASSUME NEW state \in States, NEW again \in BOOLEAN,
             WriteState(w, state, again), again \/ resource[w].state # state
      PROVE  \E version \in Resource, retry \in BOOLEAN :
               /\ Write(w, version, retry)
               /\ \/ retry \/ w \notin fresh
                  \/ Stored(version) # Current(request[w])
  BY <1>2, <1>3, <1>4, <1>5 DEF WriteState
<1>6. CASE SetPending(w)
  BY <1>1, <1>5, <1>6 DEF SetPending, Requeue, States
<1>7. CASE SetAdding(w)
  <2>1. WriteState(w, "Adding", Done) /\ resource[w].state # "Adding"
    BY <1>7 DEF SetAdding
  <2>2. QED
    BY <1>1, <1>5, <2>1 DEF Done, States
<1>8. CASE SetAdded(w)
  <2>1. WriteState(w, "Added", Done) /\ resource[w].state # "Added"
    BY <1>8 DEF SetAdded, CoreInv, PathInv, Adding
  <2>2. QED
    BY <1>1, <1>5, <2>1 DEF Done, States
<1>9. CASE SetRemoving(w)
  <2>1. WriteState(w, "Removing", Done) /\ resource[w].state # "Removing"
    BY <1>9 DEF SetRemoving
  <2>2. QED
    BY <1>1, <1>5, <2>1 DEF Done, States
<1>10. CASE SetRemoved(w)
  <2>1. WriteState(w, "Removed", Done) /\ resource[w].state # "Removed"
    BY <1>10 DEF SetRemoved, CoreInv, PathInv, Removing
  <2>2. QED
    BY <1>1, <1>5, <2>1 DEF Done, States
<1>11. CASE AddTopoFinalizer(w)
  <2> DEFINE new == [resource[w] EXCEPT
                       !.finalizers = AddFinalizer(@, TopoFinalizer)]
  <2>1. Write(w, new, Done) /\ ~HasTopoFinalizer(resource[w])
        /\ ~resource[w].deleting
    BY <1>11 DEF AddTopoFinalizer
  <2>2. /\ new \in Resource /\ new.deleting = resource[w].deleting
        /\ new.finalizers = AddFinalizer(resource[w].finalizers, TopoFinalizer)
    BY <1>1, <1>2, EditedCopyType DEF CoreInv, BaseInv, Resource
  <2>3. new # resource[w] /\ Stored(new) = new
    BY <2>1, <2>2 DEF Stored, HasTopoFinalizer, HasFinalizer, AddFinalizer
  <2>4. QED
    BY <1>1, <1>2, <2>1, <2>2, <2>3 DEF Done
<1>12. ASSUME resource[w].deleting, NEW again \in BOOLEAN,
              Write(w, [resource[w] EXCEPT
                     !.finalizers = RemoveFinalizer(@, TopoFinalizer)], again)
       PROVE  \E version \in Resource, retry \in BOOLEAN :
                /\ Write(w, version, retry)
                /\ \/ retry \/ w \notin fresh
                   \/ Stored(version) # Current(request[w])
  <2> DEFINE new == [resource[w] EXCEPT
                       !.finalizers = RemoveFinalizer(@, TopoFinalizer)]
  <2>1. /\ new \in Resource /\ new.deleting
        /\ new.finalizers
             = RemoveFinalizer(resource[w].finalizers, TopoFinalizer)
        /\ resource[w].finalizers \in SUBSET Finalizer
    BY <1>1, <1>2, <1>12, EditedCopyType DEF CoreInv, BaseInv, Resource
  <2>2. Stored(new) # resource[w]
    <3>1. CASE new.finalizers = {}
      BY <1>2, <2>1, <3>1 DEF Stored, Exists
    <3>2. CASE new.finalizers # {}
      <4>1. GCFinalizer \in resource[w].finalizers
            /\ GCFinalizer \notin new.finalizers
        BY <2>1, <3>2, NoneAssumption DEF RemoveFinalizer, Finalizer
      <4>2. QED
        BY <3>2, <4>1 DEF Stored
    <3>3. QED
      BY <3>1, <3>2
  <2>3. QED
    BY <1>2, <1>12, <2>1, <2>2
<1>13. CASE Abandon(w)
  BY <1>1, <1>12, <1>13 DEF Abandon, Requeue
<1>14. CASE Release(w)
  BY <1>1, <1>12, <1>14 DEF Release, Done
<1>15. QED
  BY <1>6, <1>7, <1>8, <1>9, <1>10, <1>11, <1>13, <1>14 DEF Writes

(* A reconcile that ends with a write will see what it wrote.              *)
LEMMA WritesWake ==
  ASSUME WakeInv, NEW w \in Workers, Writes(w)
  PROVE  OutdatedInv' /\ FoundInv' /\ SettledInv'
<1>1. Busy(w) /\ request[w] \in Resources
  BY WritesChange, WakeParts DEF BaseInv, CopyInv
<1>2. PICK version \in Resource, again \in BOOLEAN :
        /\ Write(w, version, again)
        /\ \/ again \/ w \notin fresh
           \/ Stored(version) # Current(request[w])
  BY WritesChange, WakeParts
<1>3. /\ \A x \in Workers : Undisturbed(x)
      /\ \A d \in Resources :
           Len(versions'[d]) = 1 => versions'[d] = versions[d]
      /\ \A x \in Workers : queue[x] \subseteq queue'[x]
      /\ \A x \in Workers : x # w =>
           queue'[x] = queue[x] /\ request'[x] = request[x]
      /\ request[w] \in queue'[w] \/ Len(versions'[request[w]]) > 1
  BY <1>1, <1>2, WriteVersions, WakeParts
<1>4. /\ UNCHANGED services
      /\ UNCHANGED faults \/ faults' = faults + 1
      /\ \A x \in Workers : pc'[x] = "found" => pc[x] = "found"
  <2>1. pc'[w] = "idle" /\ \A x \in Workers : x # w => pc'[x] = pc[x]
    BY <1>1, <1>2, WriteEffect, WakeParts
  <2>2. QED
    BY <1>2, <2>1 DEF Write, Fault
<1>5. ServiceExpected => ServiceExpected' /\ (faults > 0 => faults' > 0)
  BY <1>4, StillExpected, WakeParts DEF SameService
<1>6. OutdatedInv' /\ FoundInv'
  BY <1>3, <1>4, StillExpected, OutdatedKept, FoundKept, WakeParts
  DEF SameService
<1>7. \A x \in Workers, d \in Resources : Seen(x, d)' =>
        Seen(x, d) /\ Current(d)' = Current(d)
  <2>1. TAKE x \in Workers, d \in Resources
  <2>2. HAVE Seen(x, d)'
  <2>3. versions'[d] = versions[d] /\ d \notin queue[x]
    BY <1>3, <2>2 DEF Seen
  <2>4. request[x] # d
    <3>1. CASE x = w
      <4>1. Len(versions'[d]) = 1 /\ d \notin queue'[w]
        BY <2>2, <3>1 DEF Seen
      <4>2. ~(Len(versions'[d]) > 1)
        BY <4>1
      <4>3. QED
        BY <1>3, <3>1, <4>1, <4>2
    <3>2. CASE x # w
      BY <1>3, <2>2, <3>2 DEF Seen
    <3>3. QED
      BY <3>1, <3>2
  <2>5. QED
    BY <2>2, <2>3, <2>4 DEF Seen, Current
<1>8. SettledInv'
  BY <1>5, <1>7, SettledKept, WakeParts
<1>9. QED
  BY <1>6, <1>8

(* A reconcile that goes on, past the look-up only with a reason.          *)
LEMMA GoOnWake ==
  ASSUME WakeInv, NEW w \in Workers, Busy(w), NEW label \in PCs \ {"idle"},
         Goto(w, label), UNCHANGED versions, SameService,
         label = "found" => Head(services) = "up" \/ faults' > 0
  PROVE  OutdatedInv' /\ FoundInv' /\ SettledInv'
<1>1. /\ pc'[w] = label
      /\ \A x \in Workers : x # w => pc'[x] = pc[x]
      /\ UNCHANGED <<versions, services, queue, request, fresh>>
  BY GotoEffect, WakeParts DEF BaseInv, Goto, SameService
<1>2. /\ ServiceExpected => ServiceExpected'
      /\ faults > 0 => faults' > 0
  BY StillExpected, WakeParts
<1>3. \A x \in Workers : Undisturbed(x)
  BY <1>1, NoStoreUndisturbed DEF Busy
<1>4. FoundInv'
  <2>1. SUFFICES ASSUME NEW x \in Workers, pc'[x] = "found"
                 PROVE  \/ Head(services') = "up" \/ faults' > 0
                        \/ Alerted(x)'
    BY DEF FoundInv
  <2>2. CASE x = w
    BY <1>1, <2>1, <2>2
  <2>3. CASE x # w
    BY <1>1, <1>2, <2>1, <2>3, WakeParts DEF FoundInv, Alerted
  <2>4. QED
    BY <2>2, <2>3
<1>5. \A x \in Workers, e \in Resources : Seen(x, e)' =>
        Seen(x, e) /\ Current(e)' = Current(e)
  BY <1>1 DEF Seen, Current
<1>6. QED
  BY <1>2, <1>3, <1>4, <1>5, OutdatedKept, SettledKept, WakeParts

(* A reconcile that gives up, to be repeated or with nothing left to do.   *)
LEMMA GiveUpWake ==
  ASSUME WakeInv, NEW w \in Workers, Busy(w), NEW again \in BOOLEAN,
         Return(w, again), Drop(w), UNCHANGED versions, SameService,
         \/ again \/ Alerted(w)
         \/ Settled(Current(request[w]))
         \/ Added(Current(request[w])) /\ ServiceExpected
  PROVE  OutdatedInv' /\ FoundInv' /\ SettledInv'
<1>1. /\ pc'[w] = "idle"
      /\ \A x \in Workers : x # w =>
           /\ pc'[x] = pc[x] /\ request'[x] = request[x]
           /\ queue'[x] = queue[x]
      /\ \A x \in Workers : queue[x] \subseteq queue'[x]
      /\ again => request[w] \in queue'[w]
      /\ UNCHANGED <<versions, services>>
  BY ReturnEffect, ReturnQueue, WakeParts DEF BaseInv, SameService
<1>2. /\ ServiceExpected => ServiceExpected'
      /\ faults > 0 => faults' > 0
  BY StillExpected, WakeParts
<1>3. \A x \in Workers : Undisturbed(x)
  BY <1>1, NoStoreUndisturbed DEF Busy, Drop
<1>4. FoundInv'
  BY <1>1, <1>2, <1>3, FoundKept, WakeParts
<1>5. \A x \in Workers, e \in Resources : Seen(x, e)' =>
        \/ Seen(x, e)
        \/ Settled(Current(e))
        \/ Added(Current(e)) /\ ServiceExpected
  <2>1. TAKE x \in Workers, e \in Resources
  <2>2. HAVE Seen(x, e)'
  <2>3. Len(versions[e]) = 1 /\ e \notin queue[x] /\ e \notin queue'[x]
    BY <1>1, <2>2 DEF Seen
  <2>4. ~(Len(versions[e]) > 1)
    BY <2>3
  <2>5. CASE x = w /\ request[w] = e
    BY <1>1, <2>3, <2>4, <2>5 DEF Alerted
  <2>6. CASE x # w \/ request[w] # e
    BY <1>1, <2>2, <2>3, <2>6 DEF Seen
  <2>7. QED
    BY <2>5, <2>6
<1>6. \A e \in Resources : Current(e)' = Current(e)
  BY <1>1 DEF Current
<1>7. SettledInv'
  BY <1>2, <1>5, <1>6, SettledKept, WakeParts
<1>8. QED
  BY <1>3, <1>4, <1>7, OutdatedKept, WakeParts

(* A reconcile without a case for its copy leaves the resource for good.   *)
LEMMA IgnoreWake ==
  ASSUME WakeInv, NEW w \in Workers, Ignore(w)
  PROVE  OutdatedInv' /\ FoundInv' /\ SettledInv'
<1>1. /\ Busy(w) /\ pc[w] = "found"
      /\ Return(w, Done) /\ Drop(w)
      /\ UNCHANGED versions /\ SameService
  BY DEF Ignore, Busy, SameService
<1>2. \/ Alerted(w)
      \/ Settled(Current(request[w]))
      \/ Added(Current(request[w])) /\ ServiceExpected
  <2>1. CASE w \notin fresh
    BY <1>1, <2>1, WakeParts DEF OutdatedInv
  <2>2. CASE w \in fresh
    <3>1. /\ Current(request[w]) = resource[w] /\ Lawful(resource[w])
          /\ Exists(resource[w]) /\ ~Finalized(resource[w])
      BY <1>1, <2>2, FreshCopy, WakeParts DEF BaseInv, CopyInv
    <3>2. CASE resource[w].deleting
      BY <3>1, <3>2 DEF Ignore, Settled, StuckPending, Finalized
    <3>3. CASE ~resource[w].deleting
      <4>1. Added(resource[w])
        BY <3>1, <3>3 DEF Ignore, Added, Lawful
      <4>2. Head(services) = "up" => ServiceExpected
        <5>1. CASE Len(services) = 1
          <6>1. services = <<Head(services)>> /\ Head(services) \in {"up", "down"}
            BY <5>1, WakeParts, HeadElement
          <6>2. Last(services) = Head(services)
            BY <6>1, OneElement
          <6>3. QED
            BY <6>2 DEF ServiceExpected, ServiceUp
        <5>2. CASE Len(services) # 1
          <6>1. \A n \in Nat : n > 0 /\ n # 1 => n > 1
            OBVIOUS
          <6>2. QED
            BY <5>2, <6>1, WakeParts DEF ServiceExpected
        <5>3. QED
          BY <5>1, <5>2
      <4>3. faults > 0 => ServiceExpected
        BY DEF ServiceExpected
      <4>4. QED
        BY <1>1, <3>1, <4>1, <4>2, <4>3, WakeParts DEF FoundInv
    <3>4. QED
      BY <3>2, <3>3
  <2>3. QED
    BY <2>1, <2>2
<1>3. QED
  BY <1>1, <1>2, GiveUpWake DEF Done

LEMMA MovesWake ==
  ASSUME WakeInv, NEW w \in Workers, Moves(w)
  PROVE  OutdatedInv' /\ FoundInv' /\ SettledInv'
<1>1. CASE ServiceNotFound(w) \/ CallFails(w)
  <2>1. /\ Busy(w) /\ Return(w, Requeue) /\ Drop(w) /\ UNCHANGED versions
        /\ SameService
    BY <1>1 DEF ServiceNotFound, CallFails, Busy, Fault, SameService
  <2>2. QED
    BY <2>1, GiveUpWake DEF Requeue
<1>2. CASE ReadService(w)
  <2>1. /\ Busy(w) /\ UNCHANGED versions /\ SameService
        /\ Goto(w, IF Head(services) = "up" THEN "found" ELSE "notFound")
    BY <1>2 DEF ReadService, Busy, SameService
  <2>2. QED
    BY <2>1, GoOnWake DEF PCs
<1>3. CASE ReadServiceFails(w)
  <2>1. /\ Busy(w) /\ UNCHANGED versions /\ SameService
        /\ Goto(w, "found") /\ faults' > 0
    BY <1>3, WakeParts DEF ReadServiceFails, Fault, Busy, SameService
  <2>2. QED
    BY <2>1, GoOnWake DEF PCs
<1>4. CASE ConnectService(w) \/ EntityExists(w)
  <2>1. /\ Busy(w) /\ UNCHANGED versions /\ SameService
        /\ \E label \in {"delete", "exists", "create", "update"} :
             Goto(w, label)
    BY <1>4 DEF ConnectService, EntityExists, Busy, SameService
  <2>2. QED
    BY <2>1, GoOnWake DEF PCs
<1>5. CASE UpdateEntity(w) \/ CreateEntity(w) \/ DeleteEntity(w)
  <2>1. /\ Busy(w)
        /\ \E label \in {"create", "created", "deleted"} : Reply(w, label)
    BY <1>5 DEF UpdateEntity, CreateEntity, DeleteEntity, Busy
  <2>2. PICK label \in {"create", "created", "deleted"} : Reply(w, label)
    BY <2>1
  <2>3. UNCHANGED versions /\ SameService
    BY <2>2 DEF Reply, Fault, SameService
  <2>4. CASE Goto(w, label)
    BY <2>1, <2>3, <2>4, GoOnWake DEF PCs
  <2>5. CASE Return(w, Requeue) /\ Drop(w)
    BY <2>1, <2>3, <2>5, GiveUpWake DEF Requeue
  <2>6. QED
    BY <2>2, <2>4, <2>5 DEF Reply
<1>6. QED
  BY <1>1, <1>2, <1>3, <1>4, <1>5, IgnoreWake DEF Moves

LEMMA WakeInvInit == Init => WakeInv
<1> SUFFICES ASSUME Init
             PROVE  WakeInv
  OBVIOUS
<1>1. \A e \in Resources : Current(e) = NoResource
  BY OneElement DEF Init, Current, Version
<1>2. OutdatedInv /\ FoundInv /\ SettledInv
  BY <1>1 DEF Init, OutdatedInv, FoundInv, SettledInv, Settled, Exists, Busy
<1>3. QED
  BY <1>2, CoreInvInit DEF WakeInv

LEMMA WakeInvStep == WakeInv /\ [Next]_vars => WakeInv'
<1> SUFFICES ASSUME WakeInv, [Next]_vars
             PROVE  OutdatedInv' /\ FoundInv' /\ SettledInv'
  BY CoreInvStep DEF WakeInv
<1>1. ASSUME NEW w \in Workers, Step(w)
      PROVE  OutdatedInv' /\ FoundInv' /\ SettledInv'
  BY <1>1, WritesWake, MovesWake DEF Step, Writes, Moves
<1>2. CASE UNCHANGED vars
  <2>1. /\ UNCHANGED <<versions, services, pc, request, fresh, queue, faults>>
    BY <1>2 DEF vars
  <2>2. ServiceExpected => ServiceExpected'
    BY <2>1, StillExpected, WakeParts DEF SameService
  <2>3. QED
    BY <2>1, <2>2, QuietWake
<1>3. QED
  BY <1>1, <1>2, UsersWake, TakeWake, EnvironmentWake DEF Next

LEMMA WakeInvCorrect == Spec => []WakeInv
BY WakeInvInit, WakeInvStep, PTL DEF Spec

(* For any number of workers, a resource without an event or a retry left  *)
(* is where the controller means to leave it.                              *)
THEOREM NoLostWakeupHolds == Spec => []NoLostWakeup
<1>1. ASSUME WakeInv, NEW w \in Workers, NEW e \in Resources, AtRest(w, e)
      PROVE  \/ Settled(Current(e))
             \/ Added(Current(e)) /\ (ServiceUp \/ faults > 0)
  <2>1. Seen(w, e) /\ Len(services) = 1
    BY <1>1 DEF AtRest, Seen
  <2>2. ~(Len(services) > 1)
    BY <2>1
  <2>3. QED
    BY <1>1, <2>1, <2>2 DEF WakeInv, SettledInv, ServiceExpected
<1>2. WakeInv => NoLostWakeup
  BY <1>1 DEF NoLostWakeup, Settled, Added
<1>3. QED
  BY <1>2, WakeInvCorrect, PTL

=============================================================================
