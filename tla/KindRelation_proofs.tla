------------------------ MODULE KindRelation_proofs ------------------------
(***************************************************************************)
(* Theorems about the Kind and the Relation controller: types for any      *)
(* number of workers and, for a single one, what is in onos-topo once no   *)
(* event and no retry is left.                                             *)
(***************************************************************************)
EXTENDS KindRelationController, Cluster_proofs

-----------------------------------------------------------------------------
(* Type correctness.                                                       *)

Phases == {"active", "terminating"}

(* The types of what the namespace and the objects read add to Cluster.    *)
ExtraTypeOK ==
  /\ controller \in Controllers
  /\ namespaces \in Seq(Phases) /\ Len(namespaces) > 0
  /\ object \in [Workers -> Aspects \cup {NoObject}]

KRTypeInv == BaseInv /\ ExtraTypeOK /\ ObjectInv

LEMMA KRTypeParts == KRTypeInv <=> KRTypeOK /\ CopyInv /\ ObjectInv
BY DEF KRTypeInv, BaseInv, ExtraTypeOK, KRTypeOK, Phases

LEMMA KRTypeNextParts == KRTypeInv' <=> KRTypeOK' /\ CopyInv' /\ ObjectInv'
BY DEF KRTypeInv, BaseInv, ExtraTypeOK, KRTypeOK, Phases

LEMMA KRTypeInit == KRInit => KRTypeInv
<1> SUFFICES ASSUME KRInit
             PROVE  KRTypeInv
  OBVIOUS
<1>1. BaseInv
  BY BaseInvInit DEF KRInit
<1>2. ExtraTypeOK
  <2>1. <<"active">> \in Seq(Phases) /\ Len(<<"active">>) = 1
    BY OneElement DEF Phases
  <2>2. QED
    BY <2>1 DEF KRInit, ExtraTypeOK
<1>3. ObjectInv
  BY DEF KRInit, Init, ObjectInv
<1>4. QED
  BY <1>1, <1>2, <1>3 DEF KRTypeInv

(* A step of w that writes nothing to the API server.                      *)
LEMMA MoveEffect ==
  ASSUME BaseInv, NEW w \in Workers, Busy(w),
         \/ \E again \in BOOLEAN : Return(w, again)
         \/ \E label \in PCs \ {"idle"} : Goto(w, label),
         UNCHANGED <<versions, services, operations, outages>>,
         topo' \in [URIs -> Aspects \cup {NoObject}],
         fresh' \subseteq fresh, topoFresh' \subseteq Workers,
         faults' \in 0..MaxFaults
  PROVE  /\ BaseInv'
         /\ \A x \in Workers : x # w =>
              /\ pc'[x] = pc[x] /\ request'[x] = request[x]
              /\ resource'[x] = resource[x]
         /\ \/ pc'[w] = "idle"
            \/ request' = request /\ resource' = resource
<1>1. /\ WorkerTypeOK' /\ CopyInv'
      /\ \A x \in Workers : x # w =>
           /\ pc'[x] = pc[x] /\ request'[x] = request[x]
           /\ resource'[x] = resource[x]
      /\ \/ pc'[w] = "idle"
         \/ request' = request /\ resource' = resource
  <2>1. CASE \E again \in BOOLEAN : Return(w, again)
    BY <2>1, ReturnEffect DEF BaseInv
  <2>2. CASE \E label \in PCs \ {"idle"} : Goto(w, label)
    BY <2>2, GotoEffect DEF BaseInv
  <2>3. QED
    BY <2>1, <2>2
<1>2. TypeOK'
  BY <1>1 DEF BaseInv, TypeOK, WorkerTypeOK, Version
<1>3. QED
  BY <1>1, <1>2 DEF BaseInv

(* The steps of a reconcile that write nothing to the API server.          *)
Moves(w) ==
  \/ /\ \/ ReadNamespace(w) \/ ReadNamespaceFails(w)
        \/ ConnectService(w) \/ ServiceNotFound(w)
        \/ CreateObject(w) \/ DeleteObject(w)
     /\ UNCHANGED <<namespaces, object>>
  \/ ObjectExists(w) /\ UNCHANGED namespaces
  \/ /\ UpdateKind(w) \/ UpdateRelation(w) \/ CallFails(w)
     /\ Forget(w) /\ UNCHANGED namespaces

(* How such a step ends: back to idle or at one of the next places.        *)
LEMMA MovesShape ==
  ASSUME NEW w \in Workers, Moves(w)
  PROVE  /\ Busy(w)
         /\ \/ \E again \in BOOLEAN : Return(w, again)
            \/ \E label \in PCs \ {"idle"} : Goto(w, label)
         /\ UNCHANGED <<versions, services, operations, outages, namespaces>>
         /\ fresh' \subseteq fresh
<1>1. Busy(w)
  BY DEF Moves, ReadNamespace, ReadNamespaceFails, ConnectService, Connects,
         ServiceNotFound, CreateObject, DeleteObject, ObjectExists,
         UpdateKind, UpdateRelation, CallFails, Busy
<1>2. /\ \/ \E again \in BOOLEAN : Return(w, again)
         \/ \E label \in PCs \ {"idle"} : Goto(w, label)
      /\ UNCHANGED <<versions, services, operations, outages, namespaces>>
      /\ fresh' \subseteq fresh
  <2>1. \A label : Goto(w, label) => fresh' = fresh
    BY DEF Goto
  <2>2. Drop(w) => fresh' \subseteq fresh
    BY DEF Drop
  <2>3. Requeue \in BOOLEAN /\ Done \in BOOLEAN
    BY DEF Requeue, Done
  <2>4. {"found", "deleted", "exists", "delete", "create", "update"}
          \subseteq PCs \ {"idle"}
    BY DEF PCs
  <2>5. CASE ReadNamespace(w) \/ ConnectService(w)
    BY <2>1, <2>4, <2>5 DEF Moves, ReadNamespace, ConnectService
  <2>6. QED
    BY <2>1, <2>2, <2>3, <2>4
    DEF Moves, ReadNamespace, ReadNamespaceFails, ConnectService,
        ServiceNotFound, CreateObject, DeleteObject, ObjectExists,
        UpdateKind, UpdateRelation, CallFails, Finish, Reply
<1>3. QED
  BY <1>1, <1>2

(* Nothing but aspects is ever written to onos-topo.                       *)
LEMMA MovesTopo ==
  ASSUME KRTypeInv, NEW w \in Workers, Moves(w)
  PROVE  /\ topo' \in [URIs -> Aspects \cup {NoObject}]
         /\ topoFresh' \subseteq Workers /\ faults' \in 0..MaxFaults
         /\ object' \in [Workers -> Aspects \cup {NoObject}]
         /\ \A x \in Workers : x # w => object'[x] = object[x]
<1>1. /\ ObjectID(w) \in URIs /\ resource[w].spec.aspects \in Aspects
      /\ topo \in [URIs -> Aspects \cup {NoObject}]
      /\ topoFresh \subseteq Workers /\ faults \in 0..MaxFaults
      /\ object \in [Workers -> Aspects \cup {NoObject}]
  BY MovesShape, CopyType
  DEF KRTypeInv, BaseInv, TypeOK, ExtraTypeOK
<1>2. Fault => faults' \in 0..MaxFaults
  BY <1>1, BoundAssumption DEF Fault
<1>3. SetAspects(NoAspects, resource[w].spec.aspects) \in Aspects
  BY <1>1, AspectsType DEF NoAspects, Aspects
<1>4. pc[w] = "update" =>
        SetAspects(object[w], resource[w].spec.aspects) \in Aspects
  BY <1>1, AspectsType DEF KRTypeInv, ObjectInv
<1>5. topo' \in [URIs -> Aspects \cup {NoObject}]
  <2>1. CASE UNCHANGED topo
    BY <1>1, <2>1
  <2>2. CASE UpdateKind(w) \/ UpdateRelation(w)
    BY <1>1, <1>4, <2>2 DEF UpdateKind, UpdateRelation
  <2>3. CASE CreateObject(w)
    BY <1>1, <1>3, <2>3 DEF CreateObject
  <2>4. CASE DeleteObject(w)
    BY <1>1, <2>4 DEF DeleteObject
  <2>5. QED
    BY <2>1, <2>2, <2>3, <2>4
    DEF Moves, ReadNamespace, ReadNamespaceFails, ConnectService,
        ServiceNotFound, ObjectExists, CallFails
<1>6. topoFresh' \subseteq Workers
  BY <1>1
  DEF Moves, ReadNamespace, ReadNamespaceFails, ConnectService,
      ServiceNotFound, CreateObject, DeleteObject, ObjectExists, UpdateKind,
      UpdateRelation, CallFails, Touch
<1>7. faults' \in 0..MaxFaults
  BY <1>1, <1>2
  DEF Moves, ReadNamespace, ReadNamespaceFails, ConnectService,
      ServiceNotFound, CreateObject, DeleteObject, ObjectExists, UpdateKind,
      UpdateRelation, CallFails, Finish, Reply
<1>8. /\ object' \in [Workers -> Aspects \cup {NoObject}]
      /\ \A x \in Workers : x # w => object'[x] = object[x]
  BY <1>1 DEF Moves, ObjectExists, Forget
<1>9. QED
  BY <1>5, <1>6, <1>7, <1>8

LEMMA MovesType ==
  ASSUME KRTypeInv, controller' = controller, NEW w \in Workers, Moves(w)
  PROVE  KRTypeInv'
<1>1. /\ BaseInv'
      /\ \A x \in Workers : x # w => pc'[x] = pc[x]
  BY MovesShape, MovesTopo, MoveEffect DEF KRTypeInv
<1>2. ExtraTypeOK'
  BY MovesShape, MovesTopo DEF KRTypeInv, ExtraTypeOK
<1>3. pc'[w] = "update" => object'[w] # NoObject
  <2>1. pc \in [Workers -> PCs] /\ pc[w] # "idle"
        /\ object \in [Workers -> Aspects \cup {NoObject}]
    BY MovesShape DEF KRTypeInv, BaseInv, TypeOK, ExtraTypeOK, Busy
  <2>2. \A again \in BOOLEAN : Return(w, again) => pc'[w] = "idle"
    BY <2>1 DEF Return
  <2>3. \A label : Goto(w, label) => pc'[w] = label
    BY <2>1 DEF Goto
  <2>4. Requeue \in BOOLEAN /\ Done \in BOOLEAN
    BY DEF Requeue, Done
  <2>5. CASE ObjectExists(w)
    BY <2>1, <2>3, <2>5 DEF ObjectExists
  <2>6. CASE ~ObjectExists(w)
    BY <2>1, <2>2, <2>3, <2>4, <2>6
    DEF Moves, ReadNamespace, ReadNamespaceFails, ConnectService,
        ServiceNotFound, CreateObject, DeleteObject, UpdateKind,
        UpdateRelation, CallFails, Finish, Reply
  <2>7. QED
    BY <2>5, <2>6
<1>4. ObjectInv'
  BY <1>1, <1>3, MovesTopo DEF KRTypeInv, ObjectInv
<1>5. QED
  BY <1>1, <1>2, <1>4 DEF KRTypeInv

(* The two steps that write the resource.                                  *)
LEMMA WritesType ==
  ASSUME KRTypeInv, controller' = controller, NEW w \in Workers,
         AddTopoFinalizer(w) \/ Release(w), UNCHANGED <<namespaces, object>>
  PROVE  KRTypeInv'
<1>1. Busy(w) /\ request[w] \in Resources /\ resource[w] \in Resource
  BY CopyType DEF AddTopoFinalizer, Release, Busy, KRTypeInv, BaseInv
<1>2. ExtraTypeOK'
  BY DEF KRTypeInv, ExtraTypeOK
<1>3. CASE Release(w)
  <2>1. /\ BaseInv' /\ pc'[w] = "idle"
        /\ \A x \in Workers : x # w => pc'[x] = pc[x]
    BY <1>1, <1>3, EditedCopyType, WriteEffect DEF Release, KRTypeInv
  <2>2. ObjectInv'
    BY <2>1 DEF KRTypeInv, ObjectInv
  <2>3. QED
    BY <1>2, <2>1, <2>2 DEF KRTypeInv
<1>4. CASE AddTopoFinalizer(w)
  <2> DEFINE version == [resource[w] EXCEPT
                           !.finalizers = AddFinalizer(@, TopoFinalizer)]
  <2>1. version \in Resource /\ version \in Version
    BY <1>1, EditedCopyType DEF KRTypeInv, Version
  <2>2. ~version.deleting
    BY <1>1, <1>4 DEF AddTopoFinalizer, Resource
  <2> HIDE DEF version
  <2>3. UNCHANGED <<services, topo, topoFresh, operations, outages>>
    BY <1>4 DEF AddTopoFinalizer
  <2>4. CASE /\ w \in fresh
             /\ versions' = [versions EXCEPT ![request[w]] = Append(@, version)]
             /\ fresh' = {x \in fresh : request[x] # request[w]} \cup {w}
             /\ resource' = [resource EXCEPT ![w] = version]
             /\ pc' = [pc EXCEPT ![w] = "found"]
             /\ UNCHANGED <<queue, request, faults>>
    <3>1. /\ versions' \in [Resources -> Seq(Version)]
          /\ \A e \in Resources : Len(versions'[e]) > 0
      <4>1. versions \in [Resources -> Seq(Version)]
            /\ \A e \in Resources : Len(versions[e]) > 0
        BY DEF KRTypeInv, BaseInv, TypeOK, Version
      <4>2. /\ Append(versions[request[w]], version) \in Seq(Version)
            /\ Len(Append(versions[request[w]], version)) > 0
        BY <1>1, <2>1, <4>1, AppendLast
      <4>3. QED
        BY <1>1, <2>4, <4>1, <4>2
    <3>2. TypeOK'
      BY <2>1, <2>3, <2>4, <3>1
      DEF KRTypeInv, BaseInv, TypeOK, Version, PCs
    <3>3. CopyInv' /\ ObjectInv'
      BY <1>1, <2>1, <2>2, <2>4, NothingIsNoResource
      DEF KRTypeInv, BaseInv, TypeOK, CopyInv, ObjectInv, Busy, Exists,
          Finalized
    <3>4. QED
      BY <1>2, <3>2, <3>3 DEF KRTypeInv, BaseInv
  <2>5. CASE /\ Return(w, Requeue)
             /\ faults' \in 0..MaxFaults
             /\ \/ Store(request[w], version)
                \/ Drop(w) /\ UNCHANGED versions
    <3>1. WorkerTypeOK' /\ CopyInv' /\ pc'[w] = "idle"
          /\ \A x \in Workers : x # w => pc'[x] = pc[x]
      BY <1>1, <2>5, ReturnEffect DEF KRTypeInv, BaseInv
    <3>2. /\ versions' \in [Resources -> Seq(Version)]
          /\ \A e \in Resources : Len(versions'[e]) > 0
          /\ fresh' \subseteq Workers
      BY <1>1, <2>1, <2>5, StoreEffect
      DEF KRTypeInv, BaseInv, TypeOK, Drop, Version
    <3>3. TypeOK'
      BY <2>3, <2>5, <3>1, <3>2
      DEF KRTypeInv, BaseInv, TypeOK, WorkerTypeOK, Version
    <3>4. ObjectInv'
      BY <3>1 DEF KRTypeInv, ObjectInv
    <3>5. QED
      BY <1>2, <3>1, <3>3, <3>4 DEF KRTypeInv, BaseInv
  <2>6. Fault => faults' \in 0..MaxFaults
    BY BoundAssumption DEF Fault, KRTypeInv, BaseInv, TypeOK
  <2>7. QED
    BY <1>4, <2>4, <2>5, <2>6
    DEF AddTopoFinalizer, KRTypeInv, BaseInv, TypeOK, version
<1>5. QED
  BY <1>3, <1>4

(* The namespace controller deletes what the namespace holds.              *)
LEMMA PurgeBase ==
  ASSUME BaseInv, NEW e \in Resources, PurgeNamespace(e)
  PROVE  BaseInv'
<1>1. [Current(e) EXCEPT !.deleting = TRUE] \in Resource
  BY CurrentType DEF BaseInv, PurgeNamespace, Resource
<1>2. operations' \in 0..MaxOperations
  BY DEF PurgeNamespace, BaseInv, TypeOK
<1>3. QED
  BY <1>1, <1>2, StoredType, ServerWriteType DEF PurgeNamespace

LEMMA CacheServiceBase ==
  ASSUME BaseInv, CacheService
  PROVE  BaseInv'
<1>1. services' \in Seq({"up", "down"}) /\ Len(services') > 0
  BY TailLast DEF CacheService, BaseInv, TypeOK
<1>2. QED
  BY <1>1 DEF CacheService, BaseInv, TypeOK, CopyInv, Busy

(* What happens around the workers and leaves them as they are.            *)
Surroundings ==
  \/ Environment \/ KRResync \/ KRCacheService
  \/ \E e \in Resources : KRDeliver(e) \/ PurgeNamespace(e)

LEMMA SurroundingsType ==
  ASSUME KRTypeInv, controller' = controller, Surroundings
  PROVE  /\ KRTypeInv'
         /\ UNCHANGED <<namespaces, object, pc, request, resource>>
<1>1. UNCHANGED <<namespaces, object, pc, request, resource>>
  BY DEF Surroundings, Environment, KRResync, KRCacheService, CacheService,
         KRDeliver, PurgeNamespace, UserCreate, UserUpdate, UserDelete,
         Operation, CollectorRelease, TopoClientWrite, TopoInstall,
         TopoUninstall, Resync, Deliver
<1>2. BaseInv'
  BY BaseInvUsers, BaseInvEnvironment, PurgeBase, CacheServiceBase
  DEF KRTypeInv, Surroundings, Environment, KRResync, KRCacheService,
      KRDeliver, User
<1>3. ExtraTypeOK' /\ ObjectInv'
  BY <1>1 DEF KRTypeInv, ExtraTypeOK, ObjectInv
<1>4. QED
  BY <1>1, <1>2, <1>3 DEF KRTypeInv

(* The phase of the namespace, as the server and the cache have it.        *)
LEMMA NamespaceType ==
  ASSUME KRTypeInv, controller' = controller,
         DeleteNamespace \/ DeliverNamespace
  PROVE  /\ KRTypeInv'
         /\ UNCHANGED <<object, versions, fresh, topo, pc, request, resource>>
<1>1. UNCHANGED <<object, versions, fresh, topo, services, queue, pc, request,
                  resource, topoFresh, outages, faults>>
  BY DEF DeleteNamespace, DeliverNamespace, Operation, vars
<1>2. namespaces' \in Seq(Phases) /\ Len(namespaces') > 0
  <2>1. namespaces \in Seq(Phases) /\ "terminating" \in Phases
    BY DEF KRTypeInv, ExtraTypeOK, Phases
  <2>2. CASE DeleteNamespace
    BY <2>1, <2>2, AppendLast DEF DeleteNamespace, KRTypeInv, ExtraTypeOK
  <2>3. CASE DeliverNamespace
    BY <2>1, <2>3, TailLast DEF DeliverNamespace
  <2>4. QED
    BY <2>2, <2>3
<1>3. operations' \in 0..MaxOperations
  BY BoundAssumption
  DEF DeleteNamespace, DeliverNamespace, Operation, vars, KRTypeInv, BaseInv,
      TypeOK
<1>4. BaseInv'
  BY <1>1, <1>3 DEF KRTypeInv, BaseInv, TypeOK, CopyInv, Busy
<1>5. ExtraTypeOK' /\ ObjectInv'
  BY <1>1, <1>2 DEF KRTypeInv, ExtraTypeOK, ObjectInv
<1>6. QED
  BY <1>1, <1>4, <1>5 DEF KRTypeInv

LEMMA RestartType ==
  ASSUME KRTypeInv, controller' = controller, KRRestart
  PROVE  KRTypeInv'
<1>1. BaseInv'
  BY BaseInvEnvironment DEF KRTypeInv, KRRestart
<1>2. namespaces' \in Seq(Phases) /\ Len(namespaces') > 0
  BY LastElement, OneElement DEF KRTypeInv, ExtraTypeOK, KRRestart
<1>3. ExtraTypeOK'
  BY <1>2 DEF KRTypeInv, ExtraTypeOK, KRRestart
<1>4. ObjectInv'
  BY DEF KRRestart, Restart, ObjectInv
<1>5. QED
  BY <1>1, <1>3, <1>4 DEF KRTypeInv

LEMMA TakeType ==
  ASSUME KRTypeInv, controller' = controller,
         NEW w \in Workers, NEW e \in Resources, KRTake(w, e)
  PROVE  KRTypeInv'
<1>1. BaseInv'
  BY TakeEffect DEF KRTypeInv, KRTake
<1>2. ExtraTypeOK'
  BY DEF KRTake, KRTypeInv, ExtraTypeOK
<1>3. ObjectInv'
  BY DEF KRTake, Take, Skip, Fetch, KRTypeInv, BaseInv, TypeOK, ObjectInv
<1>4. QED
  BY <1>1, <1>2, <1>3 DEF KRTypeInv

(* What the steps of a reconcile are.                                      *)
LEMMA StepCases ==
  ASSUME NEW w \in Workers, Step(w)
  PROVE  \/ Moves(w)
         \/ /\ AddTopoFinalizer(w) \/ Release(w)
            /\ UNCHANGED <<namespaces, object>>
BY DEF Step, Moves

LEMMA KRTypeStep ==
  KRTypeInv /\ [KRNext]_<<allVars, controller>> => KRTypeInv'
<1> SUFFICES ASSUME KRTypeInv, [KRNext]_<<allVars, controller>>
             PROVE  KRTypeInv'
  OBVIOUS
<1>1. CASE KRNext /\ Surroundings
  BY <1>1, SurroundingsType DEF KRNext
<1>2. CASE KRNext /\ (DeleteNamespace \/ DeliverNamespace)
  BY <1>2, NamespaceType DEF KRNext
<1>3. CASE KRNext /\ KRRestart
  BY <1>3, RestartType DEF KRNext
<1>4. ASSUME KRNext, NEW w \in Workers, NEW e \in Resources, KRTake(w, e)
      PROVE  KRTypeInv'
  BY <1>4, TakeType DEF KRNext
<1>5. ASSUME KRNext, NEW w \in Workers, Step(w)
      PROVE  KRTypeInv'
  BY <1>5, StepCases, MovesType, WritesType DEF KRNext
<1>6. CASE UNCHANGED <<allVars, controller>>
  BY <1>6
  DEF allVars, vars, KRTypeInv, BaseInv, TypeOK, CopyInv, ExtraTypeOK,
      ObjectInv, Busy
<1>7. QED
  BY <1>1, <1>2, <1>3, <1>4, <1>5, <1>6 DEF KRNext, Surroundings

(***************************************************************************)
(* Every variable of the Kind and the Relation controller keeps its type,  *)
(* for any number of workers: an update is only sent for an object that    *)
(* was read, and a busy worker has a copy.                                 *)
(***************************************************************************)
THEOREM KRTypeCorrect == KRSpec => []KRTypeOK
<1>1. KRTypeInv => KRTypeOK
  BY KRTypeParts
<1>2. QED
  BY <1>1, KRTypeInit, KRTypeStep, PTL DEF KRSpec

-----------------------------------------------------------------------------
(* What a reconcile knows: LatestInv, PathInv and SpecInv.                 *)

(* What holds of the copies of workers, besides their types.               *)
CopyKnowledge == KRTypeInv /\ LatestInv /\ PathInv /\ SpecInv

(* What a busy worker knows of the resource it has fetched.                *)
LEMMA Known ==
  ASSUME CopyKnowledge, NEW w \in Workers, Busy(w)
  PROVE  /\ request[w] \in Resources /\ ObjectID(w) \in URIs
         /\ resource[w] \in Resource /\ resource[w] \in Version
         /\ Exists(resource[w]) /\ ~Finalized(resource[w])
         /\ resource[w].spec \in SpecsOf[request[w]]
         /\ resource[w].spec.aspects \in Aspects
<1>1. CopyInv /\ TypeOK /\ SpecInv
  BY DEF CopyKnowledge, KRTypeInv, BaseInv
<1>2. QED
  BY <1>1, CopyType DEF SpecInv, CopyInv, Version

(* Where a step within a reconcile leads.                                  *)
LEMMA MovesWhere ==
  ASSUME CopyKnowledge, NEW w \in Workers, Moves(w)
  PROVE  \/ pc'[w] = "idle"
         \/ /\ pc'[w] \in {"found", "exists", "update", "create", "delete",
                           "deleted"}
            /\ UNCHANGED <<queue, request, resource, fresh>>
            /\ pc'[w] = "found" => resource[w].deleting
            /\ pc'[w] \in {"exists", "update", "create"} =>
                 ~resource[w].deleting /\ HasTopoFinalizer(resource[w])
            /\ pc'[w] \in {"delete", "deleted"} => resource[w].deleting
<1>1. PathInv /\ pc \in [Workers -> PCs]
  BY DEF CopyKnowledge, KRTypeInv, BaseInv, TypeOK
<1>2. \A label : Goto(w, label) =>
        pc'[w] = label /\ UNCHANGED <<queue, request, resource, fresh>>
  BY <1>1 DEF Goto
<1>3. \A again : Return(w, again) => pc'[w] = "idle"
  BY <1>1 DEF Return
<1>4. CASE ReadNamespace(w)
  <2>1. PICK label \in {"found", "deleted"} : Goto(w, label)
    BY <1>4 DEF ReadNamespace
  <2>2. QED
    BY <1>2, <1>4, <2>1 DEF ReadNamespace
<1>5. CASE ConnectService(w)
  <2>1. resource[w].deleting \/ HasTopoFinalizer(resource[w])
    BY <1>1, <1>5 DEF ConnectService, Connects, PathInv
  <2>2. CASE resource[w].deleting
    BY <1>2, <1>5, <2>2 DEF ConnectService
  <2>3. CASE ~resource[w].deleting
    BY <1>2, <1>5, <2>1, <2>3 DEF ConnectService
  <2>4. QED
    BY <2>2, <2>3
<1>6. CASE ObjectExists(w)
  <2>1. ~resource[w].deleting /\ HasTopoFinalizer(resource[w])
    BY <1>1, <1>6 DEF ObjectExists, PathInv
  <2>2. PICK label \in {"create", "update"} : Goto(w, label)
    BY <1>6 DEF ObjectExists
  <2>3. QED
    BY <1>2, <2>1, <2>2
<1>7. CASE DeleteObject(w)
  <2>1. resource[w].deleting
    BY <1>1, <1>7 DEF DeleteObject, PathInv
  <2>2. QED
    BY <1>2, <1>3, <1>7, <2>1 DEF DeleteObject, Reply
<1>8. CASE \/ ReadNamespaceFails(w) \/ ServiceNotFound(w) \/ CreateObject(w)
           \/ UpdateKind(w) \/ UpdateRelation(w) \/ CallFails(w)
  BY <1>3, <1>8
  DEF ReadNamespaceFails, ServiceNotFound, CreateObject, UpdateKind,
      UpdateRelation, CallFails, Finish
<1>9. QED
  BY <1>4, <1>5, <1>6, <1>7, <1>8 DEF Moves

(* One worker, and it is idle: nothing is known, nothing to know.          *)
LEMMA IdleKnowledge ==
  ASSUME OneWorker, NEW w \in Workers, pc'[w] = "idle", KRTypeInv'
  PROVE  /\ LatestInv' /\ PathInv' /\ SpecCopies'
         /\ OutdatedInv' /\ CreateInv'
<1>1. \A x \in Workers : pc'[x] = "idle"
  BY DEF OneWorker
<1>2. fresh' \subseteq Workers
  BY DEF KRTypeInv, BaseInv, TypeOK
<1>3. QED
  BY <1>1, <1>2
  DEF LatestInv, PathInv, SpecCopies, OutdatedInv, CreateInv, Busy

-----------------------------------------------------------------------------
(* What is published when everything has been seen: RestInv.               *)

LEMMA RestInvParts ==
  RestInv <=> CopyKnowledge /\ OutdatedInv /\ CreateInv /\ PublishedInv
BY KRTypeParts DEF RestInv, CopyKnowledge

LEMMA RestInvNextParts ==
  RestInv' <=> /\ KRTypeInv' /\ LatestInv' /\ PathInv'
               /\ SpecVersions' /\ SpecCopies'
               /\ OutdatedInv' /\ CreateInv' /\ PublishedInv'
BY KRTypeNextParts, SpecNextParts DEF RestInv

(* What was published of a resource that is seen still is.                 *)
StillPublished(w, e) ==
  Seen(w, e)' /\ Wanted(e)' /\ ObjectsKept' =>
    /\ Seen(w, e) /\ ObjectsKept /\ Current(e)' = Current(e)
    /\ topo'[Current(e).spec.uri] = topo[Current(e).spec.uri]

(* What PublishedInv says of one worker and one resource.                  *)
PublishedFor(w, e) ==
  Seen(w, e) /\ Wanted(e) /\ ObjectsKept =>
    LET found == topo[Current(e).spec.uri]
    IN /\ found # NoObject
       /\ controller = "kind" => Carries(found, Current(e).spec.aspects)

LEMMA PublishedParts ==
  PublishedInv <=> \A w \in Workers, e \in Resources : PublishedFor(w, e)
BY DEF PublishedInv, PublishedFor

LEMMA PublishedNextParts ==
  PublishedInv' <=> \A w \in Workers, e \in Resources : PublishedFor(w, e)'
BY DEF PublishedInv, PublishedFor

LEMMA PublishedForKept ==
  ASSUME PublishedInv, controller' = controller,
         NEW w \in Workers, NEW e \in Resources, StillPublished(w, e)
  PROVE  PublishedFor(w, e)'
<1> SUFFICES ASSUME Seen(w, e)', Wanted(e)', ObjectsKept'
             PROVE  LET found == topo'[Current(e)'.spec.uri]
                    IN /\ found # NoObject
                       /\ controller = "kind" =>
                            Carries(found, Current(e)'.spec.aspects)
  BY DEF PublishedFor, Carries, SetAspects
<1>1. /\ Seen(w, e) /\ ObjectsKept /\ Current(e)' = Current(e)
      /\ topo'[Current(e).spec.uri] = topo[Current(e).spec.uri]
  BY DEF StillPublished
<1>2. Wanted(e)
  BY <1>1 DEF Wanted, Exists
<1>3. QED
  BY <1>1, <1>2, PublishedParts DEF PublishedFor

LEMMA PublishedKept ==
  ASSUME PublishedInv, controller' = controller,
         \A w \in Workers, e \in Resources : StillPublished(w, e)
  PROVE  PublishedInv'
BY PublishedForKept, PublishedNextParts

(* Users, the garbage collector and the namespace controller.              *)
ServerWrites(e) ==
  \/ UserCreate(e) \/ UserUpdate(e) \/ UserDelete(e) \/ CollectorRelease(e)
  \/ PurgeNamespace(e)

LEMMA ServerWritesVersion ==
  ASSUME CopyKnowledge, NEW e \in Resources, ServerWrites(e)
  PROVE  /\ \E version \in Version :
              /\ Store(e, version)
              /\ Exists(version) => version.spec \in SpecsOf[e]
         /\ UNCHANGED <<services, topo, queue, pc, request, resource, outages>>
<1>1. UNCHANGED <<services, topo, queue, pc, request, resource, outages>>
  BY DEF ServerWrites, UserCreate, UserUpdate, UserDelete, CollectorRelease,
         PurgeNamespace, Operation
<1>2. BaseInv /\ (Exists(Current(e)) => /\ Current(e) \in Resource
                                        /\ Current(e).spec \in SpecsOf[e])
  BY CurrentType DEF CopyKnowledge, KRTypeInv, BaseInv, SpecInv
<1>3. CASE PurgeNamespace(e)
  <2> DEFINE new == [Current(e) EXCEPT !.deleting = TRUE]
  <2>1. new \in Resource /\ new.spec = Current(e).spec
    BY <1>2, <1>3 DEF PurgeNamespace, Resource
  <2>2. Exists(Stored(new)) => Stored(new).spec = Current(e).spec
    BY <2>1 DEF Stored, Exists
  <2>3. QED
    BY <1>1, <1>2, <1>3, <2>1, <2>2, StoredType DEF PurgeNamespace
<1>4. CASE User(e) \/ CollectorRelease(e)
  BY <1>1, <1>2, <1>4, UsersStoreVersion
<1>5. QED
  BY <1>3, <1>4 DEF ServerWrites, User

LEMMA ServerWritesRest ==
  ASSUME RestInv, KRTypeInv', controller' = controller,
         NEW e \in Resources, ServerWrites(e)
  PROVE  RestInv'
<1>1. UNCHANGED <<services, topo, queue, pc, request, resource, outages>>
  BY ServerWritesVersion, RestInvParts
<1>2. PICK version \in Version :
        /\ Store(e, version)
        /\ Exists(version) => version.spec \in SpecsOf[e]
  BY ServerWritesVersion, RestInvParts
<1>3. /\ CopyKnowledge /\ BaseInv /\ TypeOK /\ CopyInv
      /\ fresh \subseteq Workers /\ SpecVersions /\ SpecCopies
  BY RestInvParts, SpecParts DEF CopyKnowledge, KRTypeInv, BaseInv, TypeOK
<1>4. /\ fresh' \subseteq fresh
      /\ ToSet(versions'[e]) = ToSet(versions[e]) \cup {version}
      /\ \A d \in Resources : d # e => versions'[d] = versions[d]
      /\ \A w \in fresh' : request[w] = e => versions' = versions
      /\ \A d \in Resources : Len(versions'[d]) = 1 =>
           versions'[d] = versions[d]
  BY <1>2, <1>3, StoreEffect, StoreLengths
<1>5. LatestInv'
  <2>1. \A w \in fresh' : Busy(w) =>
          versions'[request[w]] = versions[request[w]]
    BY <1>3, <1>4 DEF CopyInv
  <2>2. QED
    BY <1>1, <1>3, <1>4, <2>1 DEF CopyKnowledge, LatestInv, Busy, Current
<1>6. PathInv' /\ CreateInv' /\ SpecCopies'
  BY <1>1, <1>3, RestInvParts
  DEF CopyKnowledge, PathInv, CreateInv, SpecCopies, ObjectID, Busy
<1>7. SpecVersions'
  BY <1>2, <1>3, <1>4, SpecVersionsKept
<1>8. OutdatedInv'
  BY <1>1, <1>2, <1>3, StoreUndisturbed, OutdatedKept, RestInvParts
<1>9. PublishedInv'
  BY <1>1, <1>4, PublishedKept, RestInvParts
  DEF StillPublished, Seen, ObjectsKept, Current
<1>10. QED
  BY <1>5, <1>6, <1>7, <1>8, <1>9, RestInvNextParts

(* The cache of resources catches up, and the event is queued.             *)
LEMMA DeliverRest ==
  ASSUME RestInv, KRTypeInv', controller' = controller,
         NEW e \in Resources, KRDeliver(e)
  PROVE  RestInv'
<1>1. /\ CopyKnowledge /\ CopyInv /\ SpecVersions /\ SpecCopies
      /\ versions \in [Resources -> Seq(Version)]
  BY RestInvParts, SpecParts
  DEF CopyKnowledge, KRTypeInv, BaseInv, TypeOK, Version
<1>2. /\ versions' = [versions EXCEPT ![e] = Tail(@)] /\ Len(versions[e]) > 1
      /\ queue' = [w \in Workers |-> queue[w] \cup {e}]
      /\ UNCHANGED <<services, topo, pc, request, resource, fresh, outages>>
  BY DEF KRDeliver, Deliver
<1>3. /\ \A d \in Resources : Last(versions'[d]) = Last(versions[d])
      /\ \A d \in Resources : ToSet(versions'[d]) \subseteq ToSet(versions[d])
      /\ \A d \in Resources : d # e => versions'[d] = versions[d]
  BY <1>1, <1>2, TailLast
<1>4. LatestInv'
  <2> SUFFICES ASSUME NEW w \in fresh, Busy(w)
               PROVE  /\ Last(versions'[request[w]]) = resource[w]
                      /\ pc[w] = "service" \/ resource[w].deleting =>
                           versions'[request[w]] = <<resource[w]>>
    BY <1>2 DEF LatestInv, Busy, Current
  <2>1. w \in Workers
    BY <1>1 DEF CopyKnowledge, KRTypeInv, BaseInv, TypeOK
  <2>2. request[w] \in Resources /\ resource[w] \in Version
    BY <1>1, <2>1, Known
  <2>3. /\ Current(request[w]) = resource[w]
        /\ pc[w] = "service" \/ resource[w].deleting =>
             versions[request[w]] = <<resource[w]>>
    BY <1>1 DEF CopyKnowledge, LatestInv
  <2>4. versions[request[w]] = <<resource[w]>> => request[w] # e
    BY <1>1, <1>2, <2>1, <2>2, OneElement
  <2>5. QED
    BY <1>3, <2>2, <2>3, <2>4 DEF Current
<1>5. PathInv' /\ CreateInv' /\ SpecCopies'
  BY <1>1, <1>2, RestInvParts
  DEF CopyKnowledge, PathInv, CreateInv, SpecCopies, ObjectID, Busy
<1>6. SpecVersions'
  BY <1>1, <1>3, SpecVersionsKept
<1>7. OutdatedInv'
  <2>1. \A w \in Workers : Busy(w) => request[w] \in Resources
    BY <1>1 DEF CopyInv
  <2>2. QED
    BY <1>2, <1>3, <2>1, RestInvParts DEF OutdatedInv, Alerted, Busy
<1>8. PublishedInv'
  <2>1. \A w \in Workers, d \in Resources : Seen(w, d)' =>
          /\ d # e /\ d \notin queue[w] /\ request[w] # d
          /\ Len(versions'[d]) = 1
    BY <1>2 DEF Seen
  <2>2. \A w \in Workers, d \in Resources : StillPublished(w, d)
    BY <1>2, <1>3, <2>1 DEF StillPublished, Seen, ObjectsKept, Current
  <2>3. QED
    BY <2>2, PublishedKept, RestInvParts
<1>9. QED
  BY <1>4, <1>5, <1>6, <1>7, <1>8, RestInvNextParts

(* Steps that leave resources and workers alone.                           *)
LEMMA QuietRest ==
  ASSUME RestInv, KRTypeInv', controller' = controller,
         UNCHANGED <<versions, fresh, pc, request, resource>>,
         \A w \in Workers : queue[w] \subseteq queue'[w],
         ObjectsKept' => ObjectsKept /\ topo' = topo,
         \A u \in URIs : topo[u] = NoObject => topo'[u] = NoObject
  PROVE  RestInv'
<1>1. CopyKnowledge /\ SpecVersions /\ SpecCopies
  BY RestInvParts, SpecParts DEF CopyKnowledge
<1>2. LatestInv' /\ PathInv' /\ SpecVersions' /\ SpecCopies'
  BY <1>1
  DEF CopyKnowledge, LatestInv, PathInv, SpecVersions, SpecCopies, Busy,
      Current
<1>3. OutdatedInv'
  BY RestInvParts DEF OutdatedInv, Alerted, Busy
<1>4. CreateInv'
  <2>1. \A w \in Workers : pc[w] = "create" => ObjectID(w) \in URIs
    BY <1>1, Known DEF Busy
  <2>2. QED
    BY <2>1, RestInvParts DEF CreateInv, ObjectID
<1>5. PublishedInv'
  BY PublishedKept, RestInvParts DEF StillPublished, Seen, Current
<1>6. QED
  BY <1>2, <1>3, <1>4, <1>5, RestInvNextParts

LEMMA SurroundingsRest ==
  ASSUME RestInv, controller' = controller, Surroundings
  PROVE  RestInv'
<1>1. /\ KRTypeInv'
      /\ UNCHANGED <<namespaces, object, pc, request, resource>>
  BY SurroundingsType, RestInvParts DEF CopyKnowledge
<1>2. ASSUME NEW e \in Resources, ServerWrites(e)
      PROVE  RestInv'
  BY <1>1, <1>2, ServerWritesRest
<1>3. ASSUME NEW e \in Resources, KRDeliver(e)
      PROVE  RestInv'
  BY <1>1, <1>3, DeliverRest
<1>4. CASE \/ KRResync \/ KRCacheService \/ TopoInstall
           \/ \E u \in URIs : TopoClientWrite(u)
  <2>1. UNCHANGED <<versions, fresh, topo, outages>>
    BY <1>4
    DEF KRResync, Resync, KRCacheService, CacheService, TopoInstall,
        TopoClientWrite
  <2>2. \A w \in Workers : queue[w] \subseteq queue'[w]
    BY <1>4
    DEF KRResync, Resync, KRCacheService, CacheService, TopoInstall,
        TopoClientWrite
  <2>3. QED
    BY <1>1, <2>1, <2>2, QuietRest DEF ObjectsKept
<1>5. CASE TopoUninstall
  <2>1. /\ UNCHANGED <<versions, fresh, queue>>
        /\ outages' = outages + 1
        /\ StoreSurvives => topo' = topo
        /\ \A u \in URIs : topo[u] = NoObject => topo'[u] = NoObject
    BY <1>5 DEF TopoUninstall
  <2>2. outages \in Nat
    BY BoundAssumption, RestInvParts
    DEF CopyKnowledge, KRTypeInv, BaseInv, TypeOK
  <2>3. ObjectsKept' => ObjectsKept /\ topo' = topo
    <3>1. outages' # 0
      BY <2>1, <2>2
    <3>2. QED
      BY <2>1, <3>1 DEF ObjectsKept
  <2>4. QED
    BY <1>1, <2>1, <2>3, QuietRest
<1>6. QED
  BY <1>2, <1>3, <1>4, <1>5 DEF Surroundings, Environment, ServerWrites

(* A restart lists every resource there is.                                *)
LEMMA RestartRest ==
  ASSUME RestInv, controller' = controller, KRRestart
  PROVE  RestInv'
<1>1. KRTypeInv'
  BY RestartType, RestInvParts DEF CopyKnowledge
<1>2. /\ versions' = [e \in Resources |-> <<Current(e)>>]
      /\ queue' = [w \in Workers |-> {e \in Resources : Exists(Current(e))}]
      /\ fresh' = {} /\ \A w \in Workers : pc'[w] = "idle"
  BY DEF KRRestart, Restart
<1>3. \A e \in Resources : /\ Current(e)' = Current(e)
                           /\ ToSet(versions'[e]) = {Current(e)}
                           /\ Current(e) \in ToSet(versions[e])
  <2>1. TAKE e \in Resources
  <2>2. /\ versions'[e] = <<Current(e)>> /\ Current(e) \in Version
        /\ Current(e) \in ToSet(versions[e])
    BY <1>2, CurrentType, RestInvParts DEF CopyKnowledge, KRTypeInv, BaseInv
  <2>3. QED
    BY <2>2, OneElement DEF Current
<1>4. SpecVersions'
  BY <1>3, SpecVersionsKept, SpecParts, RestInvParts DEF CopyKnowledge
<1>5. LatestInv' /\ PathInv' /\ SpecCopies' /\ OutdatedInv' /\ CreateInv'
  BY <1>2 DEF LatestInv, PathInv, SpecCopies, OutdatedInv, CreateInv, Busy
<1>6. PublishedInv'
  <2>1. \A w \in Workers, e \in Resources : Wanted(e)' => e \in queue'[w]
    BY <1>2, <1>3 DEF Wanted, Exists
  <2>2. QED
    BY <2>1, PublishedKept, RestInvParts DEF StillPublished, Seen
<1>7. QED
  BY <1>1, <1>4, <1>5, <1>6, RestInvNextParts

LEMMA TakeRest ==
  ASSUME OneWorker, RestInv, controller' = controller,
         NEW w \in Workers, NEW e \in Resources, KRTake(w, e)
  PROVE  RestInv'
<1>1. KRTypeInv'
  BY TakeType, RestInvParts DEF CopyKnowledge
<1>2. /\ CopyKnowledge /\ TypeOK /\ CopyInv /\ SpecVersions /\ SpecInv
      /\ \A x \in Workers : x = w
      /\ queue \in [Workers -> SUBSET Resources]
  BY RestInvParts, SpecParts
  DEF CopyKnowledge, KRTypeInv, BaseInv, TypeOK, OneWorker
<1>3. /\ UNCHANGED <<versions, topo, outages>>
      /\ pc[w] = "idle" /\ request[w] = NoRequest
      /\ queue' = [queue EXCEPT ![w] = @ \ {e}]
  BY <1>2 DEF KRTake, Take, Skip, Fetch, CopyInv, Busy
<1>4. SpecVersions'
  BY <1>2, <1>3, SpecVersionsKept
<1>5. /\ Exists(Cached(e)) => Cached(e).spec \in SpecsOf[e]
      /\ Cached(e) \in Version
      /\ Len(versions[e]) = 1 => /\ versions[e] = <<Cached(e)>>
                                 /\ Current(e) = Cached(e)
  BY <1>2, CurrentType, OneElement DEF SpecInv, Current
<1>6. \A d \in Resources : d # e => StillPublished(w, d)
  <2>1. \A d \in Resources : d # e => (d \in queue[w] <=> d \in queue'[w])
    BY <1>2, <1>3
  <2>2. \A d \in Resources : request[w] # d
    BY <1>3, NoneAssumption
  <2>3. QED
    BY <1>3, <2>1, <2>2 DEF StillPublished, Seen, ObjectsKept, Current
<1>7. CASE Skip(w, e)
  <2>1. pc'[w] = "idle" /\ (Exists(Cached(e)) => Finalized(Cached(e)))
    BY <1>3, <1>7 DEF Skip
  <2>2. StillPublished(w, e)
    BY <1>3, <1>5, <2>1
    DEF StillPublished, Seen, Wanted, Finalized, Current
  <2>3. PublishedInv'
    BY <1>2, <1>6, <2>2, PublishedKept, RestInvParts
  <2>4. QED
    BY <1>1, <1>4, <2>1, <2>3, IdleKnowledge, RestInvNextParts
<1>8. CASE Fetch(w, e)
  <2>1. /\ pc'[w] = "service" /\ request'[w] = e /\ resource'[w] = Cached(e)
        /\ Exists(Cached(e))
        /\ w \in fresh' <=> Len(versions[e]) = 1
    BY <1>2, <1>8 DEF Fetch, TypeOK
  <2>2. fresh' \subseteq Workers
    BY <1>1 DEF KRTypeInv, BaseInv, TypeOK
  <2>3. LatestInv'
    BY <1>2, <1>3, <1>5, <2>1, <2>2 DEF LatestInv, Current
  <2>4. PathInv' /\ CreateInv' /\ SpecCopies'
    BY <1>2, <1>5, <2>1 DEF PathInv, CreateInv, SpecCopies
  <2>5. OutdatedInv'
    <3>1. Len(versions[e]) \in Nat /\ Len(versions[e]) > 0
      BY <1>2 DEF TypeOK
    <3>2. \A n \in Nat : n > 0 /\ n # 1 => n > 1
      OBVIOUS
    <3>3. w \in fresh' \/ Len(versions[e]) > 1
      BY <2>1, <3>1, <3>2
    <3>4. QED
      BY <1>2, <1>3, <2>1, <3>3 DEF OutdatedInv, Alerted
  <2>6. StillPublished(w, e)
    BY <2>1 DEF StillPublished, Seen
  <2>7. PublishedInv'
    BY <1>2, <1>6, <2>6, PublishedKept, RestInvParts
  <2>8. QED
    BY <1>1, <1>4, <2>3, <2>4, <2>5, <2>7, RestInvNextParts
<1>9. QED
  BY <1>7, <1>8 DEF KRTake, Take

(* A reconcile touches no object but its own.                              *)
LEMMA MovesElsewhere ==
  ASSUME KRTypeInv, NEW w \in Workers, Moves(w),
         NEW u \in URIs, u # ObjectID(w)
  PROVE  topo'[u] = topo[u]
<1>1. topo \in [URIs -> Aspects \cup {NoObject}]
  BY DEF KRTypeInv, BaseInv, TypeOK
<1>2. QED
  BY <1>1
  DEF Moves, ReadNamespace, ReadNamespaceFails, ConnectService,
      ServiceNotFound, ObjectExists, CallFails, DeleteObject, UpdateKind,
      UpdateRelation, CreateObject

(* A reconcile that is done has put the object there; that of a Kind has   *)
(* the aspects of the copy.                                                *)
Published(w) ==
  /\ topo'[ObjectID(w)] # NoObject
  /\ controller = "kind" =>
       Carries(topo'[ObjectID(w)], resource[w].spec.aspects)

LEMMA MovesDone ==
  ASSUME RestInv, NEW w \in Workers, Moves(w),
         request'[w] # request[w], request[w] \notin queue'[w]
  PROVE  Published(w)
<1>1. /\ Busy(w) /\ BaseInv /\ CopyKnowledge
      /\ topo \in [URIs -> Aspects \cup {NoObject}]
      /\ object \in [Workers -> Aspects \cup {NoObject}]
      /\ pc[w] = "update" => object[w] # NoObject
      /\ pc[w] = "create" => topo[ObjectID(w)] = NoObject
  BY MovesShape, RestInvParts
  DEF CopyKnowledge, KRTypeInv, BaseInv, TypeOK, ExtraTypeOK, ObjectInv,
      CreateInv
<1>2. ObjectID(w) \in URIs /\ resource[w].spec.aspects \in Aspects
  BY <1>1, Known
<1>3. \A label : ~Goto(w, label)
  BY DEF Goto
<1>4. ~Return(w, Requeue)
  BY <1>1, ReturnQueue DEF Requeue
<1>5. \A aspects \in Aspects :
        LET new == SetAspects(aspects, resource[w].spec.aspects)
        IN new # NoObject /\ Carries(new, resource[w].spec.aspects)
  BY <1>2, AspectsType, WrittenCarries, NoObjectAssumption
<1>6. CASE UpdateKind(w)
  <2>1. topo' = [topo EXCEPT ![ObjectID(w)] =
                   SetAspects(object[w], resource[w].spec.aspects)]
        /\ object[w] \in Aspects
    BY <1>1, <1>4, <1>6 DEF UpdateKind
  <2>2. QED
    BY <1>1, <1>2, <1>5, <2>1 DEF Published
<1>7. CASE UpdateRelation(w)
  <2>1. /\ topo'[ObjectID(w)] \in
             {topo[ObjectID(w)],
              SetAspects(object[w], resource[w].spec.aspects)}
        /\ topo[ObjectID(w)] = NoObject =>
             topo'[ObjectID(w)] =
               SetAspects(object[w], resource[w].spec.aspects)
        /\ object[w] \in Aspects /\ controller = "relation"
    BY <1>1, <1>2, <1>7 DEF UpdateRelation
  <2>2. QED
    BY <1>5, <2>1 DEF Published
<1>8. CASE CreateObject(w)
  <2>1. topo' = [topo EXCEPT ![ObjectID(w)] =
                   SetAspects(NoAspects, resource[w].spec.aspects)]
    BY <1>1, <1>8 DEF CreateObject
  <2>2. NoAspects \in Aspects
    BY DEF NoAspects, Aspects
  <2>3. QED
    BY <1>1, <1>2, <1>5, <2>1, <2>2 DEF Published
<1>9. QED
  BY <1>3, <1>4, <1>6, <1>7, <1>8
  DEF Moves, ReadNamespace, ReadNamespaceFails, ConnectService,
      ServiceNotFound, ObjectExists, CallFails, DeleteObject, Reply

LEMMA MovesRest ==
  ASSUME OneWorker, DistinctURIs, RestInv, controller' = controller,
         NEW w \in Workers, Moves(w)
  PROVE  RestInv'
<1>1. KRTypeInv'
  BY MovesType, RestInvParts DEF CopyKnowledge
<1>2. /\ CopyKnowledge /\ BaseInv /\ TypeOK /\ OutdatedInv
      /\ SpecVersions /\ SpecCopies /\ SpecInv
      /\ \A x \in Workers : x = w
  BY RestInvParts, SpecParts DEF CopyKnowledge, KRTypeInv, BaseInv, OneWorker
<1>3. /\ UNCHANGED <<versions, outages>> /\ fresh' \subseteq fresh
      /\ Busy(w) /\ fresh \subseteq Workers
  BY <1>2, MovesShape DEF TypeOK
<1>4. SpecVersions'
  BY <1>2, <1>3, SpecVersionsKept
<1>5. /\ request[w] \in Resources /\ ObjectID(w) \in URIs
      /\ resource[w].spec \in SpecsOf[request[w]]
  BY <1>2, <1>3, Known
<1>6. LatestInv' /\ PathInv' /\ SpecCopies' /\ OutdatedInv' /\ CreateInv'
  <2>1. CASE pc'[w] = "idle"
    BY <1>1, <2>1, IdleKnowledge
  <2>2. CASE pc'[w] # "idle"
    <3>1. /\ pc'[w] # "service"
          /\ UNCHANGED <<queue, request, resource, fresh>>
      BY <1>2, <2>2, MovesWhere
    <3>2. PathInv'
      BY <1>2, <2>2, MovesWhere DEF PathInv
    <3>3. LatestInv'
      BY <1>2, <1>3, <3>1 DEF CopyKnowledge, LatestInv, Current
    <3>4. SpecCopies' /\ OutdatedInv'
      BY <1>2, <1>3, <3>1 DEF SpecCopies, OutdatedInv, Alerted
    <3>5. ASSUME pc'[w] = "create"
          PROVE  topo'[ObjectID(w)] = NoObject
      <4>1. pc \in [Workers -> PCs]
        BY <1>2 DEF TypeOK
      <4>2. \A again : ~Return(w, again)
        BY <2>2, <4>1 DEF Return
      <4>3. \A label : Goto(w, label) => label = "create"
        BY <3>5, <4>1 DEF Goto
      <4>4. ObjectExists(w)
        BY <4>2, <4>3
        DEF Moves, ReadNamespace, ReadNamespaceFails, ConnectService,
            ServiceNotFound, CreateObject, DeleteObject, UpdateKind,
            UpdateRelation, CallFails, Finish, Reply
      <4>5. QED
        BY <4>3, <4>4 DEF ObjectExists
    <3>6. CreateInv'
      BY <1>2, <3>1, <3>5 DEF CreateInv, ObjectID
    <3>7. QED
      BY <3>2, <3>3, <3>4, <3>6
  <2>3. QED
    BY <2>1, <2>2
<1>7. PublishedInv'
  <2>1. /\ \A d \in Resources : d \in queue[w] => d \in queue'[w]
        /\ \A d \in Resources : Current(d)' = Current(d)
    <3>1. \/ \E again \in BOOLEAN : Return(w, again)
          \/ \E label \in PCs \ {"idle"} : Goto(w, label)
      BY MovesShape
    <3>2. \A d \in Resources : d \in queue[w] => d \in queue'[w]
      BY <1>2, <1>3, <3>1, ReturnQueue DEF Goto
    <3>3. QED
      BY <1>3, <3>2 DEF Current
  <2>2. ASSUME NEW d \in Resources, d # request[w]
        PROVE  StillPublished(w, d)
    <3>1. Wanted(d)' => Exists(Current(d))
      BY <2>1 DEF Wanted, Exists
    <3>2. Exists(Current(d)) => /\ Current(d).spec \in SpecsOf[d]
                                /\ Current(d).spec.uri \in URIs
      BY <1>2, CurrentType DEF SpecInv, Resource, Specs
    <3>3. Exists(Current(d)) => Current(d).spec.uri # ObjectID(w)
      BY <1>5, <2>2, <3>2 DEF DistinctURIs, ObjectID
    <3>4. Exists(Current(d)) =>
            topo'[Current(d).spec.uri] = topo[Current(d).spec.uri]
      BY <1>2, <3>2, <3>3, MovesElsewhere DEF CopyKnowledge
    <3>5. QED
      BY <1>3, <2>1, <2>2, <3>1, <3>4 DEF StillPublished, Seen, ObjectsKept
  <2>3. PICK e \in Resources : e = request[w]
    BY <1>5
  <2>4. ASSUME Seen(w, e)'
        PROVE  Published(w) /\ Current(e) = resource[w]
    <3>1. Len(versions[e]) = 1 /\ e \notin queue'[w] /\ request'[w] # e
      BY <1>3, <2>4 DEF Seen
    <3>2. Published(w)
      BY <2>3, <3>1, MovesDone
    <3>3. ~(Len(versions[e]) > 1)
      BY <3>1
    <3>4. w \in fresh
      BY <1>2, <1>3, <2>1, <2>3, <3>1, <3>3 DEF OutdatedInv, Alerted
    <3>5. QED
      BY <1>2, <1>3, <2>3, <3>2, <3>4 DEF CopyKnowledge, LatestInv
  <2>5. PublishedFor(w, e)'
    BY <2>1, <2>4 DEF PublishedFor, Published, ObjectID, Carries, SetAspects
  <2>6. \A d \in Resources : d # e => PublishedFor(w, d)'
    BY <2>2, <2>3, PublishedForKept, RestInvParts
  <2>7. QED
    BY <1>2, <2>5, <2>6, PublishedNextParts
<1>8. QED
  BY <1>1, <1>4, <1>6, <1>7, RestInvNextParts

(* A write of the resource by its worker: what the others see of it.       *)
LEMMA OwnWrite ==
  ASSUME OneWorker, CopyKnowledge, PublishedInv, controller' = controller,
         NEW w \in Workers, Busy(w), NEW e \in Resources, e = request[w],
         NEW version \in Version,
         Exists(version) => version.spec = resource[w].spec,
         \/ Store(e, version)
         \/ versions' = [versions EXCEPT ![e] = Append(@, version)]
         \/ UNCHANGED versions,
         \A d \in Resources : d # e /\ d \in queue[w] => d \in queue'[w],
         UNCHANGED <<topo, outages>>,
         PublishedFor(w, e)'
  PROVE  SpecVersions' /\ PublishedInv'
<1>1. /\ TypeOK /\ SpecVersions /\ SpecInv /\ resource[w].spec \in SpecsOf[e]
      /\ versions \in [Resources -> Seq(Version)]
      /\ \A x \in Workers : x = w
  BY Known, SpecParts
  DEF CopyKnowledge, KRTypeInv, BaseInv, TypeOK, OneWorker, Version
<1>2. /\ \A d \in Resources : d # e => versions'[d] = versions[d]
      /\ ToSet(versions'[e]) \subseteq ToSet(versions[e]) \cup {version}
  <2>1. CASE Store(e, version)
    BY <1>1, <2>1, StoreEffect
  <2>2. CASE versions' = [versions EXCEPT ![e] = Append(@, version)]
    BY <1>1, <2>2, AppendLast
  <2>3. QED
    BY <2>1, <2>2
<1>3. SpecVersions'
  BY <1>1, <1>2, SpecVersionsKept
<1>4. \A d \in Resources : d # e => StillPublished(w, d)
  <2>1. \A d \in Resources : d # e => Current(d)' = Current(d)
    BY <1>2 DEF Current
  <2>2. \A d \in Resources : Seen(w, d)' /\ d # e => Seen(w, d)
    BY <1>2 DEF Seen
  <2>3. QED
    BY <2>1, <2>2 DEF StillPublished, ObjectsKept
<1>5. PublishedInv'
  BY <1>1, <1>4, PublishedForKept, PublishedNextParts
<1>6. QED
  BY <1>3, <1>5

LEMMA AddRest ==
  ASSUME OneWorker, RestInv, KRTypeInv', controller' = controller,
         NEW w \in Workers, AddTopoFinalizer(w)
  PROVE  RestInv'
<1> DEFINE version == [resource[w] EXCEPT
                         !.finalizers = AddFinalizer(@, TopoFinalizer)]
<1>1. /\ Busy(w) /\ UNCHANGED <<topo, outages>>
      /\ ~resource[w].deleting /\ ~HasTopoFinalizer(resource[w])
  BY DEF AddTopoFinalizer, Busy
<1>2. /\ CopyKnowledge /\ BaseInv /\ TypeOK /\ PublishedInv
      /\ \A x \in Workers : x = w
  BY RestInvParts DEF CopyKnowledge, KRTypeInv, BaseInv, OneWorker
<1>3. /\ request[w] \in Resources /\ resource[w] \in Resource
      /\ resource[w].spec \in SpecsOf[request[w]]
  BY <1>1, <1>2, Known
<1>4. /\ version \in Resource /\ version \in Version
      /\ version.spec = resource[w].spec /\ ~version.deleting
      /\ HasTopoFinalizer(version)
  BY <1>1, <1>2, <1>3, EditedCopyType
  DEF Version, Resource, HasTopoFinalizer, HasFinalizer, AddFinalizer
<1> HIDE DEF version
<1>5. CASE /\ versions' = [versions EXCEPT ![request[w]] = Append(@, version)]
           /\ w \in fresh' /\ resource' = [resource EXCEPT ![w] = version]
           /\ pc' = [pc EXCEPT ![w] = "found"]
           /\ UNCHANGED <<queue, request>>
  <2>1. resource'[w] = version /\ pc'[w] = "found" /\ fresh' \subseteq Workers
    BY <1>2, <1>5 DEF TypeOK, KRTypeInv, BaseInv
  <2>2. Last(versions'[request[w]]) = version
    <3>1. /\ versions'[request[w]] = Append(versions[request[w]], version)
          /\ versions[request[w]] \in Seq(Version)
      BY <1>2, <1>3, <1>5 DEF TypeOK, Version
    <3>2. QED
      BY <1>4, <3>1, AppendLast
  <2>3. LatestInv' /\ PathInv' /\ SpecCopies'
    BY <1>2, <1>3, <1>4, <1>5, <2>1, <2>2
    DEF LatestInv, PathInv, SpecCopies, Current
  <2>4. OutdatedInv' /\ CreateInv'
    BY <1>2, <1>5, <2>1 DEF OutdatedInv, CreateInv
  <2>5. \A e \in Resources : e = request[w] => PublishedFor(w, e)'
    BY <1>5 DEF PublishedFor, Seen
  <2>6. SpecVersions' /\ PublishedInv'
    BY <1>1, <1>2, <1>3, <1>4, <1>5, <2>5, OwnWrite
  <2>7. QED
    BY <2>3, <2>4, <2>6, RestInvNextParts
<1>6. CASE /\ Return(w, Requeue)
           /\ Store(request[w], version) \/ UNCHANGED versions
  <2>1. pc'[w] = "idle"
    BY <1>2, <1>6 DEF Return, TypeOK
  <2>2. /\ request[w] \in queue'[w]
        /\ \A d \in Resources : d \in queue[w] => d \in queue'[w]
    BY <1>1, <1>2, <1>6, ReturnQueue DEF Requeue
  <2>3. \A e \in Resources : e = request[w] => PublishedFor(w, e)'
    BY <2>2 DEF PublishedFor, Seen
  <2>4. SpecVersions' /\ PublishedInv'
    BY <1>1, <1>2, <1>3, <1>4, <1>6, <2>2, <2>3, OwnWrite
  <2>5. QED
    BY <2>1, <2>4, IdleKnowledge, RestInvNextParts
<1>7. QED
  BY <1>5, <1>6 DEF AddTopoFinalizer, version

(* A resource gives its finalizer up only when it is being deleted.        *)
LEMMA ReleaseRest ==
  ASSUME OneWorker, RestInv, KRTypeInv', controller' = controller,
         NEW w \in Workers, Release(w)
  PROVE  RestInv'
<1> DEFINE new == [resource[w] EXCEPT
                     !.finalizers = RemoveFinalizer(@, TopoFinalizer)]
<1>1. /\ CopyKnowledge /\ BaseInv /\ TypeOK /\ PublishedInv
      /\ Busy(w) /\ pc[w] = "deleted" /\ resource[w].deleting
  BY RestInvParts
  DEF CopyKnowledge, KRTypeInv, BaseInv, Release, Busy, PathInv
<1>2. PICK e \in Resources : e = request[w]
  BY <1>1, Known
<1>3. /\ new \in Resource /\ new.spec = resource[w].spec
  BY <1>1, Known, EditedCopyType DEF Resource
<1>4. Write(w, new, Done)
  BY DEF Release
<1> HIDE DEF new
<1>5. /\ pc'[w] = "idle" /\ UNCHANGED <<topo, outages>>
      /\ \A d \in Resources : Len(versions'[d]) = 1 => versions'[d] = versions[d]
      /\ \A d \in Resources : d \in queue[w] => d \in queue'[w]
      /\ w \notin fresh \/ Stored(new) # Current(e) =>
           e \in queue'[w] \/ Len(versions'[e]) > 1
  BY <1>1, <1>2, <1>3, <1>4, WriteEffect, WriteVersions
<1>6. PublishedFor(w, e)'
  <2>1. SUFFICES ASSUME Len(versions'[e]) = 1, e \notin queue'[w], Wanted(e)'
                 PROVE  FALSE
    BY DEF PublishedFor, Seen
  <2>2. ~(Len(versions'[e]) > 1)
    BY <2>1
  <2>3. w \in fresh /\ Current(e)' = Current(e)
    BY <1>5, <2>1, <2>2 DEF Current
  <2>4. Current(e) = resource[w]
    BY <1>1, <1>2, <2>3 DEF CopyKnowledge, LatestInv
  <2>5. QED
    BY <1>1, <2>1, <2>3, <2>4 DEF Wanted
<1>7. SpecVersions' /\ PublishedInv'
  <2>1. Stored(new) \in Version
        /\ (Exists(Stored(new)) => Stored(new).spec = resource[w].spec)
    BY <1>3, StoredType DEF Stored, Exists
  <2>2. Store(e, Stored(new)) \/ UNCHANGED versions
    BY <1>2, <1>4 DEF Write
  <2>3. QED
    BY <1>1, <1>2, <1>5, <1>6, <2>1, <2>2, OwnWrite
<1>8. QED
  BY <1>5, <1>7, IdleKnowledge, RestInvNextParts

LEMMA RestInvInit == KRInit => RestInv
<1> SUFFICES ASSUME KRInit
             PROVE  RestInv
  OBVIOUS
<1>1. KRTypeInv
  BY KRTypeInit
<1>2. \A e \in Resources : Current(e) = NoResource
                           /\ ToSet(versions[e]) = {NoResource}
  BY OneElement DEF KRInit, Init, Current, Version
<1>3. LatestInv /\ PathInv /\ OutdatedInv /\ CreateInv
  BY DEF KRInit, Init, LatestInv, PathInv, OutdatedInv, CreateInv, Busy
<1>4. SpecInv
  BY <1>2 DEF KRInit, Init, SpecInv, Busy, Exists
<1>5. PublishedInv
  BY <1>2 DEF PublishedInv, Wanted, Exists
<1>6. QED
  BY <1>1, <1>3, <1>4, <1>5, RestInvParts DEF CopyKnowledge

LEMMA RestInvStep ==
  ASSUME OneWorker, DistinctURIs
  PROVE  RestInv /\ [KRNext]_<<allVars, controller>> => RestInv'
<1> SUFFICES ASSUME RestInv, [KRNext]_<<allVars, controller>>
             PROVE  RestInv'
  OBVIOUS
<1>1. KRTypeInv'
  BY KRTypeStep, RestInvParts DEF CopyKnowledge
<1>2. CASE KRNext /\ Surroundings
  BY <1>2, SurroundingsRest DEF KRNext
<1>3. CASE KRNext /\ (DeleteNamespace \/ DeliverNamespace)
  <2>1. UNCHANGED <<versions, fresh, topo, queue, pc, request, resource,
                    outages>>
    BY <1>3 DEF DeleteNamespace, DeliverNamespace, Operation, vars
  <2>2. QED
    BY <1>1, <1>3, <2>1, QuietRest DEF KRNext, ObjectsKept
<1>4. CASE KRNext /\ KRRestart
  BY <1>4, RestartRest DEF KRNext
<1>5. ASSUME KRNext, NEW w \in Workers, NEW e \in Resources, KRTake(w, e)
      PROVE  RestInv'
  BY <1>5, TakeRest DEF KRNext
<1>6. ASSUME KRNext, NEW w \in Workers, Step(w)
      PROVE  RestInv'
  BY <1>1, <1>6, StepCases, MovesRest, AddRest, ReleaseRest DEF KRNext
<1>7. CASE UNCHANGED <<allVars, controller>>
  <2>1. UNCHANGED <<versions, fresh, topo, queue, pc, request, resource,
                    outages, controller>>
    BY <1>7 DEF allVars, vars
  <2>2. QED
    BY <1>1, <2>1, QuietRest DEF ObjectsKept
<1>8. QED
  BY <1>2, <1>3, <1>4, <1>5, <1>6, <1>7 DEF KRNext, Surroundings

LEMMA RestInvCorrect ==
  ASSUME OneWorker, DistinctURIs
  PROVE  KRSpec => []RestInv
<1>1. RestInv /\ [KRNext]_<<allVars, controller>> => RestInv'
  BY RestInvStep
<1>2. QED
  BY <1>1, RestInvInit, PTL DEF KRSpec

(***************************************************************************)
(* With one instance of the controller, and no two resources that name the *)
(* same object, nothing more will happen to a wanted Kind or Relation only *)
(* when its object is in onos-topo: no lost reply, outdated copy, restart  *)
(* or edit of the spec, URI included, makes a reconcile forget it.  An     *)
(* outage that takes the objects along is the exception.                   *)
(***************************************************************************)
THEOREM KRRestMeansPublishedHolds ==
  ASSUME OneWorker, DistinctURIs
  PROVE  KRSpec => []RestMeansPublished
<1>1. RestInv => RestMeansPublished
  BY DEF RestInv, PublishedInv, RestMeansPublished, AtRest, Seen
<1>2. QED
  BY <1>1, RestInvCorrect, PTL

(***************************************************************************)
(* Under the same conditions the object of a Kind also carries the aspects *)
(* the spec has by then: updateKind writes them.  (updateRelation does     *)
(* not: the run of RestMeansCurrent shows it.)                             *)
(***************************************************************************)
THEOREM KindsCurrentHolds ==
  ASSUME OneWorker, DistinctURIs
  PROVE  KRSpec => []KindsCurrent
<1>1. RestInv => KindsCurrent
  BY DEF RestInv, PublishedInv, KindsCurrent, RestMeansCurrent, AtRest, Seen
<1>2. QED
  BY <1>1, RestInvCorrect, PTL

=============================================================================
