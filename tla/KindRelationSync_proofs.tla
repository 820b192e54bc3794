----------------------- MODULE KindRelationSync_proofs -----------------------
(***************************************************************************)
(* The Kind and the Relation controller, as long as one worker reconciles  *)
(* and users leave the URIs alone, leave no object in onos-topo without a  *)
(* resource that holds it, and implement TopologySync: every step is a     *)
(* step of the abstract specification or changes nothing it sees.          *)
(***************************************************************************)
EXTENDS KindRelation_proofs

-----------------------------------------------------------------------------
(* No object without a resource that holds it.                             *)

(***************************************************************************)
(* One instance of the controller, as its code means it, and users who do  *)
(* not edit the URI of a resource.                                         *)
(***************************************************************************)
SingleController == OneWorker /\ FixedURIs

(* A write that takes no charge away and starts to serve no resource.      *)
Continues(before, after) ==
  /\ Charge(before) # NoObject => Charge(after) = Charge(before)
  /\ Served(after) => Served(before)

LEMMA ChargeMeans ==
  ASSUME NEW version \in Version, NEW u \in URIs
  PROVE  Charge(version) = u <=> /\ Exists(version)
                                 /\ HasTopoFinalizer(version)
                                 /\ version.spec.uri = u
BY NoObjectAssumption DEF Charge

(* A version says the truth of itself.                                     *)
LEMMA TruthfulItself ==
  ASSUME NEW version \in Version
  PROVE  Truthful(version, version)
BY DEF Truthful, Served, Charge

LEMMA TruthfulOn ==
  ASSUME NEW version \in Version, NEW before, NEW after,
         Truthful(version, before), Continues(before, after)
  PROVE  Truthful(version, after)
<1>1. Served(version) => version.spec.uri \in URIs
  BY DEF Served, Exists, Version, Resource, Specs
<1>2. QED
  BY <1>1, NoObjectAssumption DEF Truthful, Continues

LEMMA ContinuesItself ==
  ASSUME NEW version
  PROVE  Continues(version, version)
BY DEF Continues

LEMMA KRInvParts ==
  KRInv <=> /\ KRTypeInv /\ NamespaceInv /\ LatestInv /\ PathInv
            /\ SpecInv /\ TruthInv /\ GoneInv /\ ObjectHeld
BY KRTypeParts DEF KRInv, KRTypeInv

LEMMA KRInvNextParts ==
  KRInv' <=> /\ KRTypeInv' /\ NamespaceInv' /\ LatestInv' /\ PathInv'
             /\ SpecInv' /\ TruthInv' /\ GoneInv' /\ ObjectHeld'
BY KRTypeNextParts DEF KRInv, KRTypeInv

(* ObjectHeld in terms of charge.                                          *)
LEMMA HeldMeans ==
  ASSUME TypeOK
  PROVE  ObjectHeld <=>
           (~Terminating => \A u \in URIs : topo[u] # NoObject =>
              \E e \in Resources : Charge(Current(e)) = u)
<1>1. \A e \in Resources : Current(e) \in Version
  BY CurrentType
<1>2. QED
  BY <1>1, ChargeMeans DEF ObjectHeld

LEMMA HeldNextMeans ==
  ASSUME TypeOK'
  PROVE  ObjectHeld' <=>
           (~Terminating' => \A u \in URIs : topo'[u] # NoObject =>
              \E e \in Resources : Charge(Current(e)') = u)
<1>1. \A e \in Resources : Current(e)' \in Version
  <2>1. TAKE e \in Resources
  <2>2. versions'[e] \in Seq(Version) /\ Len(versions'[e]) > 0
    BY DEF TypeOK, Version
  <2>3. QED
    BY <2>2, LastElement DEF Current
<1>2. QED
  BY <1>1, ChargeMeans DEF ObjectHeld

(* What a step that stores and drops versions leaves true of them.         *)
VersionsContinue ==
  \A e \in Resources :
    /\ Continues(Current(e), Current(e)')
    /\ ToSet(versions'[e]) \subseteq ToSet(versions[e]) \cup {Current(e)'}
    /\ Exists(Current(e)') => Current(e)'.spec \in SpecsOf[e]

LEMMA VersionsTrue ==
  ASSUME KRInv, KRTypeInv', VersionsContinue, NEW e \in Resources,
         NEW version \in ToSet(versions'[e])
  PROVE  /\ Truthful(version, Current(e)')
         /\ Exists(version) => version.spec \in SpecsOf[e]
<1>1. Current(e)' \in Version
  <2>1. versions'[e] \in Seq(Version) /\ Len(versions'[e]) > 0
    BY DEF KRTypeInv, BaseInv, TypeOK, Version
  <2>2. QED
    BY <2>1, LastElement DEF Current
<1>2. CASE version \in ToSet(versions[e])
  <2>1. version \in Version
    <3>1. versions[e] \in Seq(Version)
      BY KRInvParts DEF KRTypeInv, BaseInv, TypeOK, Version
    <3>2. QED
      BY <1>2, <3>1 DEF ToSet
  <2>2. /\ Truthful(version, Current(e))
        /\ Exists(version) => version.spec \in SpecsOf[e]
    BY <1>2, KRInvParts DEF TruthInv, SpecInv
  <2>3. QED
    BY <2>1, <2>2, TruthfulOn DEF VersionsContinue
<1>3. CASE version = Current(e)'
  BY <1>1, <1>3, TruthfulItself DEF VersionsContinue
<1>4. QED
  BY <1>2, <1>3 DEF VersionsContinue

(* A step around the workers preserves the invariant.                      *)
LEMMA Framed ==
  ASSUME KRInv, KRTypeInv', VersionsContinue, LatestInv', NamespaceInv',
         Terminating => Terminating',
         \A u \in URIs : topo'[u] # NoObject => topo[u] # NoObject,
         UNCHANGED <<pc, request, resource>>
  PROVE  KRInv'
<1>1. PathInv'
  BY KRInvParts DEF PathInv
<1>2. SpecInv'
  BY VersionsTrue, KRInvParts DEF SpecInv, Busy
<1>3. TruthInv'
  <2>1. ASSUME NEW w \in Workers, Busy(w)
        PROVE  Truthful(resource[w], Current(request[w])')
    <3>1. request[w] \in Resources /\ resource[w] \in Version
      BY <2>1, CopyType, KRInvParts DEF KRTypeInv, BaseInv, Version
    <3>2. Truthful(resource[w], Current(request[w]))
      BY <2>1, KRInvParts DEF TruthInv
    <3>3. QED
      BY <3>1, <3>2, TruthfulOn DEF VersionsContinue
  <2>2. \A w \in Workers : Busy(w)' => Truthful(resource[w], Current(request[w]))'
    BY <2>1 DEF Busy, Current
  <2>3. QED
    BY <2>2, VersionsTrue DEF TruthInv
<1>4. GoneInv'
  <2>1. ASSUME NEW w \in Workers, pc[w] = "deleted"
        PROVE  ObjectID(w) \in URIs
    BY <2>1, CopyType, KRInvParts DEF KRTypeInv, BaseInv, Busy
  <2>2. QED
    BY <2>1, KRInvParts DEF GoneInv, ObjectID
<1>5. ObjectHeld'
  <2>1. TypeOK /\ TypeOK'
    BY KRInvParts DEF KRTypeInv, BaseInv
  <2>2. ~Terminating => \A u \in URIs : topo[u] # NoObject =>
          \E e \in Resources : Charge(Current(e)) = u
    BY <2>1, HeldMeans, KRInvParts
  <2>3. ~Terminating' => \A u \in URIs : topo'[u] # NoObject =>
          \E e \in Resources : Charge(Current(e)') = u
    BY <2>2, NoObjectAssumption DEF VersionsContinue, Continues
  <2>4. QED
    BY <2>1, <2>3, HeldNextMeans
<1>6. QED
  BY <1>1, <1>2, <1>3, <1>4, <1>5, KRInvNextParts

(* What a write of the server leaves to the caches and the copies.         *)
LEMMA StoreKeeps ==
  ASSUME KRInv, NEW e \in Resources, NEW version \in Version,
         Store(e, version), Continues(Current(e), version),
         Exists(version) => version.spec \in SpecsOf[e],
         UNCHANGED <<pc, request, resource>>
  PROVE  VersionsContinue /\ LatestInv'
<1>1. /\ Last(versions'[e]) = version
      /\ ToSet(versions'[e]) = ToSet(versions[e]) \cup {version}
      /\ \A d \in Resources : d # e => versions'[d] = versions[d]
      /\ fresh' \subseteq fresh
      /\ \A w \in fresh' : request[w] = e => versions' = versions
  BY StoreEffect, KRInvParts DEF KRTypeInv, BaseInv
<1>2. VersionsContinue
  <2> SUFFICES ASSUME NEW d \in Resources
               PROVE  /\ Continues(Current(d), Current(d)')
                      /\ ToSet(versions'[d])
                           \subseteq ToSet(versions[d]) \cup {Current(d)'}
                      /\ Exists(Current(d)') => Current(d)'.spec \in SpecsOf[d]
    BY DEF VersionsContinue
  <2>2. CASE d = e
    BY <1>1, <2>2 DEF Current
  <2>3. CASE d # e
    <3>1. Current(d) \in ToSet(versions[d]) /\ Current(d)' = Current(d)
      BY <1>1, <2>3, CurrentType, KRInvParts
      DEF KRTypeInv, BaseInv, Current
    <3>2. QED
      BY <1>1, <2>3, <3>1, ContinuesItself, KRInvParts
      DEF SpecInv
  <2>4. QED
    BY <2>2, <2>3
<1>3. \A w \in fresh' : Busy(w) => versions'[request[w]] = versions[request[w]]
  BY <1>1, KRInvParts DEF KRTypeInv, BaseInv, TypeOK, CopyInv
<1>4. LatestInv'
  BY <1>1, <1>3, KRInvParts DEF LatestInv, Busy, Current
<1>5. QED
  BY <1>2, <1>4

(* Steps that store nothing and drop nothing.                              *)
LEMMA NothingStored ==
  ASSUME KRInv, versions' = versions, fresh' \subseteq fresh
  PROVE  VersionsContinue
<1>1. \A e \in Resources : Current(e) \in ToSet(versions[e])
  BY CurrentType, KRInvParts DEF KRTypeInv, BaseInv
<1>2. QED
  BY <1>1, ContinuesItself, KRInvParts DEF VersionsContinue, Current, SpecInv

(* Users, the garbage collector and the namespace controller.              *)
LEMMA ServerWritesStore ==
  ASSUME KRInv, FixedURIs, NEW e \in Resources, ServerWrites(e)
  PROVE  /\ \E version \in Version :
              /\ Store(e, version) /\ Continues(Current(e), version)
              /\ Charge(version) = Charge(Current(e))
              /\ Exists(version) => version.spec \in SpecsOf[e]
         /\ UNCHANGED <<topo, pc, request, resource>>
<1>1. UNCHANGED <<topo, pc, request, resource>>
  BY DEF ServerWrites, UserCreate, UserUpdate, UserDelete, CollectorRelease,
         PurgeNamespace, Operation
<1>2. /\ Exists(Current(e)) => Current(e) \in Resource
      /\ Exists(Current(e)) => Current(e).spec \in SpecsOf[e]
  BY CurrentType, KRInvParts DEF KRTypeInv, BaseInv, SpecInv
<1>3. CASE UserCreate(e)
  <2>1. PICK spec \in SpecsOf[e] : Store(e, NewResource(spec))
    BY <1>3 DEF UserCreate
  <2>2. NewResource(spec) \in Version
    BY SpecsAssumption DEF NewResource, Version, Resource, States
  <2>3. /\ Continues(Current(e), NewResource(spec))
        /\ Charge(NewResource(spec)) = Charge(Current(e))
    BY <1>3 DEF UserCreate, Continues, Charge, Served, NewResource,
                HasTopoFinalizer, HasFinalizer
  <2>4. NewResource(spec).spec = spec
    BY DEF NewResource
  <2>5. QED
    BY <1>1, <2>1, <2>2, <2>3, <2>4
<1>4. CASE UserUpdate(e)
  <2>1. PICK spec \in SpecsOf[e] :
          Store(e, [Current(e) EXCEPT !.spec = spec])
    BY <1>4 DEF UserUpdate
  <2> DEFINE version == [Current(e) EXCEPT !.spec = spec]
  <2>2. version \in Resource
    BY <1>2, <1>4, SpecsAssumption DEF UserUpdate, Resource
  <2>3. /\ version.spec = spec /\ version.deleting = Current(e).deleting
        /\ version.finalizers = Current(e).finalizers
    BY <1>2, <1>4 DEF UserUpdate, Resource
  <2>4. spec.uri = Current(e).spec.uri
    BY <1>2, <1>4 DEF UserUpdate, FixedURIs
  <2>5. Exists(version) /\ Exists(Current(e))
    BY <1>4, <2>2, NothingIsNoResource DEF UserUpdate, Exists
  <2> HIDE DEF version
  <2>6. Continues(Current(e), version) /\ Charge(version) = Charge(Current(e))
    BY <2>3, <2>4, <2>5 DEF Continues, Charge, Served, HasTopoFinalizer
  <2>7. QED
    BY <1>1, <2>1, <2>2, <2>3, <2>6 DEF Version, version
<1>5. ASSUME Exists(Current(e)), NEW finalizers \in SUBSET Finalizer,
             TopoFinalizer \in finalizers
               <=> TopoFinalizer \in Current(e).finalizers,
             Store(e, Stored([Current(e) EXCEPT !.deleting = TRUE,
                                                !.finalizers = finalizers]))
      PROVE  \E version \in Version :
               /\ Store(e, version) /\ Continues(Current(e), version)
               /\ Charge(version) = Charge(Current(e))
               /\ Exists(version) => version.spec \in SpecsOf[e]
  <2> DEFINE version == [Current(e) EXCEPT !.deleting = TRUE,
                                           !.finalizers = finalizers]
  <2>1. /\ version \in Resource /\ version.deleting
        /\ version.finalizers = finalizers /\ version.spec = Current(e).spec
    BY <1>2, <1>5 DEF Resource
  <2>2. Stored(version) \in Version
    BY <2>1, StoredType
  <2> HIDE DEF version
  <2>3. Charge(Stored(version)) = Charge(version)
    BY <1>5, <2>1
    DEF Charge, Stored, Exists, HasTopoFinalizer, HasFinalizer
  <2>4. Charge(version) = Charge(Current(e))
    BY <1>5, <2>1, NothingIsNoResource
    DEF Charge, Exists, HasTopoFinalizer, HasFinalizer
  <2>5. ~Served(Stored(version))
    BY <2>1 DEF Served, Stored, Exists
  <2>6. Exists(Stored(version)) => Stored(version).spec \in SpecsOf[e]
    BY <1>2, <1>5, <2>1 DEF Stored, Exists
  <2>7. QED
    BY <1>5, <2>2, <2>3, <2>4, <2>5, <2>6 DEF Continues, version
<1>6. CASE UserDelete(e)
  <2>1. PICK added \in {{}, {GCFinalizer}} :
          Store(e, Stored([Current(e) EXCEPT !.deleting = TRUE,
                                     !.finalizers = @ \cup added]))
    BY <1>6 DEF UserDelete
  <2>2. Current(e).finalizers \cup added \in SUBSET Finalizer
    BY <1>2, <1>6 DEF UserDelete, Resource, Finalizer
  <2>3. TopoFinalizer \in Current(e).finalizers \cup added
          <=> TopoFinalizer \in Current(e).finalizers
    BY <1>2, <1>6, NoneAssumption DEF UserDelete
  <2>4. QED
    BY <1>1, <1>5, <1>6, <2>1, <2>2, <2>3 DEF UserDelete
<1>7. CASE CollectorRelease(e)
  <2>1. [Current(e) EXCEPT !.finalizers = @ \ {GCFinalizer}]
          = [Current(e) EXCEPT !.deleting = TRUE,
                               !.finalizers = @ \ {GCFinalizer}]
    BY <1>2, <1>7 DEF CollectorRelease, Resource
  <2>2. Current(e).finalizers \ {GCFinalizer} \in SUBSET Finalizer
    BY <1>2, <1>7 DEF CollectorRelease, Resource
  <2>3. TopoFinalizer \in Current(e).finalizers \ {GCFinalizer}
          <=> TopoFinalizer \in Current(e).finalizers
    BY NoneAssumption
  <2>4. QED
    BY <1>1, <1>5, <1>7, <2>1, <2>2, <2>3 DEF CollectorRelease
<1>8. CASE PurgeNamespace(e)
  <2>1. [Current(e) EXCEPT !.deleting = TRUE]
          = [Current(e) EXCEPT !.deleting = TRUE,
                               !.finalizers = Current(e).finalizers]
        /\ Current(e).finalizers \in SUBSET Finalizer
    BY <1>2, <1>8 DEF PurgeNamespace, Resource
  <2>2. QED
    BY <1>1, <1>5, <1>8, <2>1 DEF PurgeNamespace
<1>9. QED
  BY <1>3, <1>4, <1>6, <1>7, <1>8 DEF ServerWrites

(* The cache of resources catches up.                                      *)
LEMMA DeliverKeeps ==
  ASSUME KRInv, NEW e \in Resources, Deliver(e)
  PROVE  VersionsContinue /\ LatestInv'
<1>1. /\ versions \in [Resources -> Seq(Version)]
      /\ versions' = [versions EXCEPT ![e] = Tail(@)] /\ Len(versions[e]) > 1
      /\ UNCHANGED <<pc, request, resource, fresh>>
  BY KRInvParts DEF Deliver, KRTypeInv, BaseInv, TypeOK, Version
<1>2. /\ Last(versions'[e]) = Last(versions[e])
      /\ ToSet(versions'[e]) \subseteq ToSet(versions[e])
      /\ \A d \in Resources : d # e => versions'[d] = versions[d]
  BY <1>1, TailLast
<1>3. \A d \in Resources : Current(d) \in ToSet(versions[d])
  BY CurrentType, KRInvParts DEF KRTypeInv, BaseInv
<1>4. \A d \in Resources : /\ Current(d)' = Current(d)
                           /\ ToSet(versions'[d]) \subseteq ToSet(versions[d])
  BY <1>2 DEF Current
<1>5. VersionsContinue
  BY <1>3, <1>4, ContinuesItself, KRInvParts DEF VersionsContinue, SpecInv
<1>6. LatestInv'
  <2> SUFFICES ASSUME NEW w \in fresh, Busy(w)
               PROVE  /\ Current(request[w])' = resource[w]
                      /\ pc[w] = "service" \/ resource[w].deleting =>
                           versions'[request[w]] = <<resource[w]>>
    BY <1>1 DEF LatestInv, Busy, Current
  <2>1. request[w] \in Resources /\ resource[w] \in Version
    BY CopyType, KRInvParts DEF KRTypeInv, BaseInv, TypeOK, Version
  <2>2. /\ Current(request[w]) = resource[w]
        /\ pc[w] = "service" \/ resource[w].deleting =>
             versions[request[w]] = <<resource[w]>>
    BY KRInvParts DEF LatestInv
  <2>3. versions[request[w]] = <<resource[w]>> => request[w] # e
    BY <1>1, <2>1, OneElement
  <2>4. QED
    BY <1>1, <1>2, <1>4, <2>1, <2>2, <2>3 DEF Current
<1>7. QED
  BY <1>5, <1>6

LEMMA SurroundingsInv ==
  ASSUME KRInv, FixedURIs, controller' = controller, Surroundings
  PROVE  KRInv'
<1>1. /\ KRTypeInv'
      /\ UNCHANGED <<namespaces, object, pc, request, resource>>
  BY SurroundingsType, KRInvParts
<1>2. NamespaceInv' /\ (Terminating => Terminating')
  BY <1>1, KRInvParts DEF NamespaceInv, Terminating
<1>3. ASSUME NEW e \in Resources, ServerWrites(e)
      PROVE  KRInv'
  BY <1>1, <1>2, <1>3, ServerWritesStore, StoreKeeps, Framed
<1>4. ASSUME NEW e \in Resources, KRDeliver(e)
      PROVE  KRInv'
  <2>1. topo' = topo
    BY <1>4 DEF KRDeliver, Deliver
  <2>2. QED
    BY <1>1, <1>2, <1>4, <2>1, DeliverKeeps, Framed DEF KRDeliver
<1>5. CASE /\ UNCHANGED <<versions, fresh>>
           /\ \A u \in URIs : topo'[u] # NoObject => topo[u] # NoObject
  <2>1. LatestInv'
    BY <1>1, <1>5, KRInvParts DEF LatestInv, Busy, Current
  <2>2. QED
    BY <1>1, <1>2, <1>5, <2>1, NothingStored, Framed
<1>6. CASE \/ KRResync \/ KRCacheService \/ TopoInstall \/ TopoUninstall
           \/ \E u \in URIs : TopoClientWrite(u)
  <2>1. \A u \in URIs : topo'[u] # NoObject => topo[u] # NoObject
    BY <1>6
    DEF KRResync, Resync, KRCacheService, CacheService, TopoInstall,
        TopoUninstall, TopoClientWrite
  <2>2. UNCHANGED <<versions, fresh>>
    BY <1>6
    DEF KRResync, Resync, KRCacheService, CacheService, TopoInstall,
        TopoUninstall, TopoClientWrite
  <2>3. QED
    BY <1>5, <2>1, <2>2
<1>7. QED
  BY <1>3, <1>4, <1>6 DEF Surroundings, Environment, ServerWrites

LEMMA NamespaceStepsInv ==
  ASSUME KRInv, controller' = controller, DeleteNamespace \/ DeliverNamespace
  PROVE  KRInv'
<1>1. /\ KRTypeInv'
      /\ UNCHANGED <<object, versions, fresh, topo, pc, request, resource>>
  BY NamespaceType, KRInvParts
<1>2. namespaces \in Seq(Phases) /\ Len(namespaces) > 0
      /\ "terminating" \in Phases
  BY KRInvParts DEF KRTypeInv, ExtraTypeOK, Phases
<1>3. NamespaceInv' /\ (Terminating => Terminating')
  <2>1. CASE DeleteNamespace
    BY <1>2, <2>1, AppendLast DEF DeleteNamespace, Terminating, NamespaceInv
  <2>2. CASE DeliverNamespace
    BY <1>2, <2>2, TailLast, KRInvParts
    DEF DeliverNamespace, Terminating, NamespaceInv
  <2>3. QED
    BY <2>1, <2>2
<1>4. LatestInv'
  BY <1>1, KRInvParts DEF LatestInv, Busy, Current
<1>5. QED
  BY <1>1, <1>3, <1>4, NothingStored, Framed

LEMMA RestartInv ==
  ASSUME KRInv, controller' = controller, KRRestart
  PROVE  KRInv'
<1>1. KRTypeInv'
  BY RestartType, KRInvParts
<1>2. /\ versions' = [e \in Resources |-> <<Current(e)>>]
      /\ namespaces' = <<Last(namespaces)>> /\ topo' = topo
      /\ fresh' = {} /\ \A w \in Workers : pc'[w] = "idle"
  BY DEF KRRestart, Restart
<1>3. \A e \in Resources :
        /\ Current(e) \in Version /\ Current(e) \in ToSet(versions[e])
        /\ Current(e)' = Current(e) /\ ToSet(versions'[e]) = {Current(e)}
  <2>1. TAKE e \in Resources
  <2>2. Current(e) \in Version /\ Current(e) \in ToSet(versions[e])
    BY CurrentType, KRInvParts DEF KRTypeInv, BaseInv
  <2>3. versions'[e] = <<Current(e)>>
    BY <1>2
  <2>4. Last(versions'[e]) = Current(e) /\ ToSet(versions'[e]) = {Current(e)}
    BY <2>2, <2>3, OneElement
  <2>5. QED
    BY <2>2, <2>4 DEF Current
<1>4. VersionsContinue
  BY <1>3, ContinuesItself, KRInvParts DEF VersionsContinue, SpecInv
<1>5. NamespaceInv' /\ Terminating' = Terminating
  <2>1. Last(namespaces) \in Phases
    BY LastElement, KRInvParts DEF KRTypeInv, ExtraTypeOK
  <2>2. Last(namespaces') = Last(namespaces)
        /\ ToSet(namespaces') = {Last(namespaces)}
    BY <1>2, <2>1, OneElement
  <2>3. QED
    BY <2>2 DEF NamespaceInv, Terminating
<1>6. LatestInv' /\ PathInv' /\ GoneInv'
  BY <1>2 DEF LatestInv, PathInv, GoneInv
<1>7. SpecInv' /\ TruthInv'
  BY <1>1, <1>2, <1>4, VersionsTrue DEF SpecInv, TruthInv, Busy
<1>8. ObjectHeld'
  <2>1. TypeOK /\ TypeOK'
    BY <1>1, KRInvParts DEF KRTypeInv, BaseInv
  <2>2. QED
    BY <1>2, <1>3, <1>5, <2>1, HeldMeans, HeldNextMeans, KRInvParts
<1>9. QED
  BY <1>1, <1>5, <1>6, <1>7, <1>8, KRInvNextParts

LEMMA TakeInv ==
  ASSUME KRInv, controller' = controller,
         NEW w \in Workers, NEW e \in Resources, KRTake(w, e)
  PROVE  KRInv'
<1>1. KRTypeInv'
  BY TakeType, KRInvParts
<1>2. UNCHANGED <<versions, topo, namespaces>>
  BY DEF KRTake, Take, Skip, Fetch
<1>3. NamespaceInv' /\ ObjectHeld'
  BY <1>2, KRInvParts DEF NamespaceInv, ObjectHeld, Terminating, Current
<1>4. CASE Skip(w, e)
  <2>1. UNCHANGED <<pc, request, resource, fresh>>
    BY <1>4 DEF Skip
  <2>2. LatestInv' /\ PathInv' /\ SpecInv' /\ TruthInv' /\ GoneInv'
    BY <1>2, <2>1, KRInvParts
    DEF LatestInv, PathInv, SpecInv, TruthInv, GoneInv, Busy, Current,
        Terminating, ObjectID
  <2>3. QED
    BY <1>1, <1>3, <2>2, KRInvNextParts
<1>5. CASE Fetch(w, e)
  <2>1. /\ Cached(e) \in Resource /\ Cached(e) \in ToSet(versions[e])
        /\ Len(versions[e]) = 1 => versions[e] = <<Cached(e)>>
        /\ Cached(e) \in Version
    BY <1>5, CurrentType, KRInvParts DEF Fetch, KRTypeInv, BaseInv
  <2>2. /\ pc'[w] = "service" /\ request'[w] = e /\ resource'[w] = Cached(e)
        /\ \A x \in Workers : x # w =>
             /\ pc'[x] = pc[x] /\ request'[x] = request[x]
             /\ resource'[x] = resource[x]
        /\ \A x \in fresh' : x # w => x \in fresh
        /\ w \in fresh' => Len(versions[e]) = 1
    BY <1>5, KRInvParts DEF Fetch, KRTypeInv, BaseInv, TypeOK
  <2>3. LatestInv'
    <3>1. versions[e] = <<Cached(e)>> => Current(e) = Cached(e)
      BY <2>1, OneElement DEF Current
    <3>2. ASSUME NEW x \in fresh', Busy(x)'
          PROVE  /\ Current(request'[x]) = resource'[x]
                 /\ pc'[x] = "service" \/ resource'[x].deleting =>
                      versions[request'[x]] = <<resource'[x]>>
      <4>1. CASE x = w
        BY <2>1, <2>2, <3>1, <3>2, <4>1
      <4>2. CASE x # w
        <5>1. x \in Workers /\ x \in fresh
          BY <2>2, <4>2, KRInvParts DEF KRTypeInv, BaseInv, TypeOK
        <5>2. QED
          BY <2>2, <3>2, <4>2, <5>1, KRInvParts DEF LatestInv, Busy
      <4>3. QED
        BY <4>1, <4>2
    <3>3. QED
      BY <1>2, <3>2 DEF LatestInv, Current
  <2>4. PathInv' /\ GoneInv'
    BY <1>2, <2>2, KRInvParts
    DEF PathInv, GoneInv, ObjectID, Terminating
  <2>5. SpecInv'
    <3>1. Cached(e).spec \in SpecsOf[e]
      BY <2>1, KRInvParts, NothingIsNoResource DEF SpecInv, Exists
    <3>2. \A x \in Workers : Busy(x)' =>
            resource'[x].spec \in SpecsOf[request'[x]]
      BY <2>2, <3>1, KRInvParts DEF SpecInv, Busy
    <3>3. QED
      BY <1>2, <3>2, KRInvParts DEF SpecInv
  <2>6. TruthInv'
    <3>1. Truthful(Cached(e), Current(e))
      BY <2>1, KRInvParts DEF TruthInv
    <3>2. \A x \in Workers : Busy(x)' =>
            Truthful(resource'[x], Current(request'[x]))
      BY <2>2, <3>1, KRInvParts DEF TruthInv, Busy
    <3>3. QED
      BY <1>2, <3>2, KRInvParts DEF TruthInv, Current
  <2>7. QED
    BY <1>1, <1>3, <2>3, <2>4, <2>5, <2>6, KRInvNextParts
<1>6. QED
  BY <1>4, <1>5 DEF KRTake, Take

(* What a busy worker knows of its resource.                               *)
LEMMA BusyKnows ==
  ASSUME KRInv, NEW w \in Workers, Busy(w)
  PROVE  /\ request[w] \in Resources /\ ObjectID(w) \in URIs
         /\ resource[w] \in Resource /\ Exists(resource[w])
         /\ resource[w].spec \in SpecsOf[request[w]]
         /\ Truthful(resource[w], Current(request[w]))
         /\ ~Finalized(resource[w])
<1>1. KRTypeInv /\ SpecInv /\ TruthInv
  BY KRInvParts
<1>2. CopyInv /\ TypeOK
  BY <1>1 DEF KRTypeInv, BaseInv
<1>3. QED
  BY <1>1, <1>2, CopyType DEF SpecInv, TruthInv, CopyInv

(* Objects appear for a resource in charge of them only.                   *)
LEMMA MovesPublish ==
  ASSUME KRInv, NEW w \in Workers, Moves(w), NEW u \in URIs,
         topo'[u] # NoObject, topo[u] = NoObject
  PROVE  u = ObjectID(w) /\ Charge(Current(request[w])) = u
<1>1. Busy(w) /\ topo \in [URIs -> Aspects \cup {NoObject}]
  BY MovesShape, KRInvParts DEF KRTypeInv, BaseInv, TypeOK
<1>2. ObjectID(w) \in URIs
  BY <1>1, BusyKnows
<1>3. /\ UpdateKind(w) \/ UpdateRelation(w) \/ CreateObject(w)
      /\ u = ObjectID(w)
  BY <1>1, <1>2
  DEF Moves, ReadNamespace, ReadNamespaceFails, ConnectService,
      ServiceNotFound, ObjectExists, CallFails, DeleteObject, UpdateKind,
      UpdateRelation, CreateObject
<1>4. pc[w] \in {"update", "create"}
  BY <1>3 DEF UpdateKind, UpdateRelation, CreateObject
<1>5. Served(resource[w])
  BY <1>1, <1>4, BusyKnows, KRInvParts DEF PathInv, Served
<1>6. QED
  BY <1>1, <1>3, <1>5, BusyKnows DEF Truthful, ObjectID

(* Where a step within a reconcile leads.                                  *)
LEMMA MovesPath ==
  ASSUME KRInv, NEW w \in Workers, Moves(w)
  PROVE  \/ pc'[w] = "idle"
         \/ /\ pc'[w] # "service" /\ request' = request /\ resource' = resource
            /\ pc'[w] = "found" =>
                 resource[w].deleting \/ HasTopoFinalizer(resource[w])
            /\ pc'[w] \in {"exists", "update", "create"} =>
                 ~resource[w].deleting /\ HasTopoFinalizer(resource[w])
            /\ pc'[w] \in {"delete", "deleted"} => resource[w].deleting
            /\ pc'[w] = "deleted" =>
                 Terminating \/ topo'[ObjectID(w)] = NoObject
<1>1. /\ CopyKnowledge /\ Busy(w) /\ pc \in [Workers -> PCs]
      /\ topo \in [URIs -> Aspects \cup {NoObject}]
  BY MovesShape, KRInvParts DEF CopyKnowledge, KRTypeInv, BaseInv, TypeOK
<1>2. ObjectID(w) \in URIs
  BY <1>1, Known
<1>3. ASSUME pc'[w] = "deleted"
      PROVE  Terminating \/ topo'[ObjectID(w)] = NoObject
  <2>1. \A again : ~Return(w, again)
    BY <1>1, <1>3 DEF Return
  <2>2. \A label : Goto(w, label) => label = "deleted"
    BY <1>1, <1>3 DEF Goto
  <2>3. CASE ReadNamespace(w)
    <3>1. Head(namespaces) # "active"
      BY <2>2, <2>3 DEF ReadNamespace
    <3>2. Head(namespaces) \in Phases /\ Head(namespaces) \in ToSet(namespaces)
      BY HeadElement, KRInvParts DEF KRTypeInv, ExtraTypeOK
    <3>3. QED
      BY <3>1, <3>2, KRInvParts DEF NamespaceInv, Phases
  <2>4. CASE DeleteObject(w)
    BY <1>1, <1>2, <2>4 DEF DeleteObject
  <2>5. CASE ConnectService(w) \/ ObjectExists(w)
    <3>1. PICK label \in {"delete", "exists", "create", "update"} :
            Goto(w, label)
      BY <2>5 DEF ConnectService, ObjectExists
    <3>2. QED
      BY <2>2, <3>1
  <2>6. QED
    BY <2>1, <2>3, <2>4, <2>5
    DEF Moves, ReadNamespaceFails, ServiceNotFound, CreateObject, UpdateKind,
        UpdateRelation, CallFails, Finish
<1>4. QED
  BY <1>1, <1>3, MovesWhere

LEMMA MovesInv ==
  ASSUME SingleController, KRInv, controller' = controller,
         NEW w \in Workers, Moves(w)
  PROVE  KRInv'
<1>1. KRTypeInv'
  BY MovesType, KRInvParts
<1>2. UNCHANGED <<versions, namespaces>> /\ fresh' \subseteq fresh /\ Busy(w)
  BY MovesShape
<1>3. \A x \in Workers : x = w
  BY DEF SingleController, OneWorker
<1>4. pc'[w] # "idle" => request' = request /\ resource' = resource
                         /\ pc'[w] # "service"
  BY MovesPath
<1>5. NamespaceInv'
  BY <1>2, KRInvParts DEF NamespaceInv, Terminating
<1>6. LatestInv'
  <2>1. fresh \subseteq Workers
    BY KRInvParts DEF KRTypeInv, BaseInv, TypeOK
  <2>2. QED
    BY <1>2, <1>3, <1>4, <2>1, KRInvParts DEF LatestInv, Busy, Current
<1>7. PathInv' /\ GoneInv'
  BY <1>2, <1>3, MovesPath DEF PathInv, GoneInv, Terminating, ObjectID
<1>8. SpecInv' /\ TruthInv'
  BY <1>2, <1>3, <1>4, KRInvParts DEF SpecInv, TruthInv, Busy, Current
<1>9. ObjectHeld'
  <2>1. TypeOK /\ TypeOK'
    BY <1>1, KRInvParts DEF KRTypeInv, BaseInv
  <2>2. request[w] \in Resources
    BY <1>2, BusyKnows
  <2>3. ASSUME ~Terminating, NEW u \in URIs, topo'[u] # NoObject
        PROVE  \E e \in Resources : Charge(Current(e)) = u
    <3>1. CASE topo[u] = NoObject
      BY <2>2, <2>3, <3>1, MovesPublish
    <3>2. CASE topo[u] # NoObject
      BY <2>1, <2>3, <3>2, HeldMeans, KRInvParts
    <3>3. QED
      BY <3>1, <3>2
  <2>4. Terminating' = Terminating /\ \A e \in Resources : Current(e)' = Current(e)
    BY <1>2 DEF Terminating, Current
  <2>5. QED
    BY <2>1, <2>3, <2>4, HeldNextMeans
<1>10. QED
  BY <1>1, <1>5, <1>6, <1>7, <1>8, <1>9, KRInvNextParts

(* The worker replaces the version it has fetched.                         *)
LEMMA Replaced ==
  ASSUME KRInv, KRTypeInv', NEW w \in Workers, Busy(w), w \in fresh,
         versions[request[w]] = <<resource[w]>>,
         NEW version \in Version,
         Last(versions'[request[w]]) = version,
         ToSet(versions'[request[w]]) = {resource[w], version},
         \A d \in Resources : d # request[w] => versions'[d] = versions[d],
         Truthful(resource[w], version),
         Exists(version) => version.spec \in SpecsOf[request[w]],
         \/ Terminating
         \/ Charge(resource[w]) = NoObject
         \/ topo[Charge(resource[w])] = NoObject,
         UNCHANGED <<topo, namespaces>>
  PROVE  /\ \A e \in Resources : \A v \in ToSet(versions'[e]) :
              /\ Truthful(v, Current(e)')
              /\ Exists(v) => v.spec \in SpecsOf[e]
         /\ ObjectHeld' /\ NamespaceInv'
<1>1. /\ request[w] \in Resources /\ resource[w].spec \in SpecsOf[request[w]]
      /\ resource[w] \in Version
  BY BusyKnows DEF Version
<1>2. /\ Last(versions'[request[w]]) = version
      /\ \A d \in Resources : d # request[w] =>
           Last(versions'[d]) = Current(d)
  BY DEF Current
<1>3. ASSUME NEW e \in Resources, NEW v \in ToSet(versions'[e])
      PROVE  /\ Truthful(v, Current(e)')
             /\ Exists(v) => v.spec \in SpecsOf[e]
  <2>1. CASE e = request[w]
    BY <1>1, <1>2, <1>3, <2>1, TruthfulItself DEF Current
  <2>2. CASE e # request[w]
    BY <1>2, <1>3, <2>2, KRInvParts DEF TruthInv, SpecInv, Current
  <2>3. QED
    BY <2>1, <2>2
<1>4. ObjectHeld'
  <2>1. TypeOK /\ TypeOK'
    BY KRInvParts DEF KRTypeInv, BaseInv
  <2>2. ASSUME ~Terminating, NEW u \in URIs, topo[u] # NoObject
        PROVE  \E e \in Resources : Last(versions'[e]) = Current(e)
                                    /\ Charge(Current(e)) = u
    <3>1. PICK e \in Resources : Charge(Current(e)) = u
      BY <2>1, <2>2, HeldMeans, KRInvParts
    <3>2. Current(request[w]) = resource[w]
      BY <1>1, OneElement DEF Current
    <3>3. e # request[w]
      BY <2>2, <3>1, <3>2, NoObjectAssumption
    <3>4. QED
      BY <1>2, <3>1, <3>3
  <2>3. QED
    BY <2>1, <2>2, HeldNextMeans DEF Current, Terminating
<1>5. NamespaceInv'
  BY KRInvParts DEF NamespaceInv, Terminating
<1>6. QED
  BY <1>3, <1>4, <1>5

(* A reconcile that ends without having changed anything.                  *)
LEMMA Ended ==
  ASSUME KRInv, KRTypeInv', \A x \in Workers : pc'[x] = "idle",
         UNCHANGED <<versions, topo, namespaces>>
  PROVE  KRInv'
<1>1. NamespaceInv' /\ ObjectHeld'
  BY KRInvParts DEF NamespaceInv, ObjectHeld, Terminating, Current
<1>2. fresh' \subseteq Workers
  BY DEF KRTypeInv, BaseInv, TypeOK
<1>3. LatestInv' /\ PathInv' /\ GoneInv'
  BY <1>2 DEF LatestInv, PathInv, GoneInv, Busy
<1>4. SpecInv' /\ TruthInv'
  BY KRInvParts DEF SpecInv, TruthInv, Busy, Current
<1>5. QED
  BY <1>1, <1>3, <1>4, KRInvNextParts

(* Storing a version after the one the worker has fetched.                 *)
LEMMA StoreAfter ==
  ASSUME TypeOK, NEW w \in Workers, request[w] \in Resources,
         versions[request[w]] = <<resource[w]>>, resource[w] \in Version,
         NEW version \in Version,
         \/ Store(request[w], version)
         \/ versions' = [versions EXCEPT ![request[w]] = Append(@, version)]
  PROVE  /\ Last(versions'[request[w]]) = version
         /\ ToSet(versions'[request[w]]) = {resource[w], version}
         /\ \A d \in Resources : d # request[w] => versions'[d] = versions[d]
<1>1. ToSet(versions[request[w]]) = {resource[w]}
      /\ versions[request[w]] \in Seq(Version)
      /\ versions \in [Resources -> Seq(Version)]
  BY OneElement DEF TypeOK, Version
<1>2. CASE Store(request[w], version)
  BY <1>1, <1>2, StoreEffect
<1>3. CASE versions' = [versions EXCEPT ![request[w]] = Append(@, version)]
  <2>1. versions'[request[w]] = Append(versions[request[w]], version)
    BY <1>1, <1>3
  <2>2. \A d \in Resources : d # request[w] => versions'[d] = versions[d]
    BY <1>1, <1>3
  <2>3. QED
    BY <1>1, <2>1, <2>2, AppendLast
<1>4. QED
  BY <1>2, <1>3

LEMMA AddInv ==
  ASSUME SingleController, KRInv, KRTypeInv', NEW w \in Workers,
         AddTopoFinalizer(w), UNCHANGED <<namespaces, object>>
  PROVE  KRInv'
<1> DEFINE version == [resource[w] EXCEPT
                         !.finalizers = AddFinalizer(@, TopoFinalizer)]
<1>1. Busy(w) /\ topo' = topo
  BY DEF AddTopoFinalizer, Busy
<1>2. \A x \in Workers : x = w
  BY DEF SingleController, OneWorker
<1>3. /\ request[w] \in Resources /\ ObjectID(w) \in URIs
      /\ resource[w] \in Resource /\ Exists(resource[w])
      /\ resource[w].spec \in SpecsOf[request[w]]
      /\ TypeOK
  BY <1>1, BusyKnows, KRInvParts DEF KRTypeInv, BaseInv
<1>4. ~resource[w].deleting /\ ~HasTopoFinalizer(resource[w])
  BY DEF AddTopoFinalizer
<1>5. version \in Resource /\ version \in Version
  BY <1>1, EditedCopyType, KRInvParts DEF KRTypeInv, Version
<1>6. /\ version.spec = resource[w].spec /\ ~version.deleting
      /\ HasTopoFinalizer(version)
  BY <1>3, <1>4 DEF Resource, HasTopoFinalizer, HasFinalizer, AddFinalizer
<1>7. Truthful(resource[w], version) /\ Charge(resource[w]) = NoObject
  BY <1>4 DEF Truthful, Served, Charge
<1> HIDE DEF version
<1>8. ASSUME w \in fresh,
             \/ Store(request[w], version)
             \/ versions' = [versions EXCEPT ![request[w]] = Append(@, version)]
      PROVE  /\ \A e \in Resources : \A v \in ToSet(versions'[e]) :
                  /\ Truthful(v, Current(e)')
                  /\ Exists(v) => v.spec \in SpecsOf[e]
             /\ ObjectHeld' /\ NamespaceInv'
             /\ Last(versions'[request[w]]) = version
  <2>1. versions[request[w]] = <<resource[w]>>
    BY <1>1, <1>8, KRInvParts DEF LatestInv, AddTopoFinalizer
  <2>2. /\ Last(versions'[request[w]]) = version
        /\ ToSet(versions'[request[w]]) = {resource[w], version}
        /\ \A d \in Resources : d # request[w] => versions'[d] = versions[d]
    BY <1>3, <1>5, <1>8, <2>1, StoreAfter DEF Version
  <2>3. QED
    BY <1>1, <1>3, <1>5, <1>6, <1>7, <1>8, <2>1, <2>2, Replaced
<1>9. CASE /\ w \in fresh
           /\ versions' = [versions EXCEPT ![request[w]] = Append(@, version)]
           /\ resource' = [resource EXCEPT ![w] = version]
           /\ pc' = [pc EXCEPT ![w] = "found"]
           /\ request' = request
  <2>1. resource'[w] = version /\ pc'[w] = "found"
    BY <1>9, KRInvParts DEF KRTypeInv, BaseInv, TypeOK
  <2>2. Current(request[w])' = version /\ Last(versions'[request[w]]) = version
    BY <1>8, <1>9 DEF Current
  <2>3. fresh' \subseteq Workers
    BY DEF KRTypeInv, BaseInv, TypeOK
  <2>4. LatestInv'
    BY <1>2, <1>6, <1>9, <2>1, <2>2, <2>3 DEF LatestInv, Current
  <2>5. PathInv' /\ GoneInv'
    BY <1>2, <1>6, <2>1 DEF PathInv, GoneInv
  <2>6. SpecInv'
    BY <1>2, <1>3, <1>6, <1>8, <1>9, <2>1 DEF SpecInv
  <2>7. TruthInv'
    <3>1. Truthful(version, version)
      BY <1>5, TruthfulItself
    <3>2. QED
      BY <1>2, <1>8, <1>9, <2>1, <2>2, <3>1 DEF TruthInv, Current
  <2>8. QED
    BY <1>8, <1>9, <2>4, <2>5, <2>6, <2>7, KRInvNextParts
<1>10. CASE /\ Return(w, Requeue)
            /\ \/ w \in fresh /\ Store(request[w], version)
               \/ UNCHANGED versions
  <2>1. \A x \in Workers : pc'[x] = "idle"
    BY <1>2, <1>10, KRInvParts DEF Return, KRTypeInv, BaseInv, TypeOK
  <2>2. CASE w \in fresh /\ Store(request[w], version)
    <3>1. fresh' \subseteq Workers
      BY DEF KRTypeInv, BaseInv, TypeOK
    <3>2. LatestInv' /\ PathInv' /\ GoneInv'
      BY <2>1, <3>1 DEF LatestInv, PathInv, GoneInv, Busy
    <3>3. SpecInv' /\ TruthInv'
      BY <1>8, <2>1, <2>2 DEF SpecInv, TruthInv, Busy
    <3>4. QED
      BY <1>8, <2>2, <3>2, <3>3, KRInvNextParts
  <2>3. CASE UNCHANGED versions
    BY <1>1, <2>1, <2>3, Ended
  <2>4. QED
    BY <1>10, <2>2, <2>3
<1>11. QED
  BY <1>9, <1>10 DEF AddTopoFinalizer, version

LEMMA ReleaseInv ==
  ASSUME SingleController, KRInv, KRTypeInv', NEW w \in Workers,
         Release(w), UNCHANGED <<namespaces, object>>
  PROVE  KRInv'
<1> DEFINE version == Stored([resource[w] EXCEPT
                         !.finalizers = RemoveFinalizer(@, TopoFinalizer)])
<1>1. Busy(w) /\ topo' = topo /\ pc[w] = "deleted"
  BY DEF Release, Write, Busy
<1>2. \A x \in Workers : x = w
  BY DEF SingleController, OneWorker
<1>3. /\ request[w] \in Resources /\ ObjectID(w) \in URIs
      /\ resource[w] \in Resource /\ Exists(resource[w])
      /\ resource[w].spec \in SpecsOf[request[w]]
      /\ TypeOK
  BY <1>1, BusyKnows, KRInvParts DEF KRTypeInv, BaseInv
<1>4. /\ resource[w].deleting
      /\ Terminating \/ topo[ObjectID(w)] = NoObject
  BY <1>1, KRInvParts DEF PathInv, GoneInv
<1>5. version \in Version
  BY <1>1, EditedCopyType, StoredType, KRInvParts DEF KRTypeInv
<1>6. Exists(version) =>
        version.spec = resource[w].spec /\ version.deleting
  BY <1>3, <1>4 DEF Resource, Stored, Exists
<1> HIDE DEF version
<1>7. Truthful(resource[w], version)
  BY <1>4, <1>6 DEF Truthful, Served
<1>8. \A x \in Workers : pc'[x] = "idle"
  BY <1>2, KRInvParts DEF Release, Write, Return, KRTypeInv, BaseInv, TypeOK
<1>9. CASE w \in fresh /\ Store(request[w], version)
  <2>1. versions[request[w]] = <<resource[w]>>
    BY <1>1, <1>4, <1>9, KRInvParts DEF LatestInv
  <2>2. /\ Last(versions'[request[w]]) = version
        /\ ToSet(versions'[request[w]]) = {resource[w], version}
        /\ \A d \in Resources : d # request[w] => versions'[d] = versions[d]
    BY <1>3, <1>5, <1>9, <2>1, StoreAfter DEF Version
  <2>3. \/ Terminating
        \/ Charge(resource[w]) = NoObject
        \/ topo[Charge(resource[w])] = NoObject
    BY <1>4 DEF Charge, ObjectID
  <2>4. /\ \A e \in Resources : \A v \in ToSet(versions'[e]) :
             /\ Truthful(v, Current(e)')
             /\ Exists(v) => v.spec \in SpecsOf[e]
        /\ ObjectHeld' /\ NamespaceInv'
    BY <1>1, <1>3, <1>5, <1>6, <1>7, <1>9, <2>1, <2>2, <2>3, Replaced
  <2>5. fresh' \subseteq Workers
    BY DEF KRTypeInv, BaseInv, TypeOK
  <2>6. LatestInv' /\ PathInv' /\ GoneInv'
    BY <1>8, <2>5 DEF LatestInv, PathInv, GoneInv, Busy
  <2>7. SpecInv' /\ TruthInv'
    BY <1>8, <2>4 DEF SpecInv, TruthInv, Busy
  <2>8. QED
    BY <2>4, <2>6, <2>7, KRInvNextParts
<1>10. CASE UNCHANGED versions
  BY <1>1, <1>8, <1>10, Ended
<1>11. QED
  BY <1>9, <1>10 DEF Release, Write, version

LEMMA KRInvInit == KRInit => KRInv
<1> SUFFICES ASSUME KRInit
             PROVE  KRInv
  OBVIOUS
<1>1. KRTypeInv
  BY KRTypeInit
<1>2. \A e \in Resources : Current(e) = NoResource
                           /\ ToSet(versions[e]) = {NoResource}
  BY OneElement DEF KRInit, Init, Current, Version
<1>3. NamespaceInv
  <2>1. "active" \in Phases /\ namespaces = <<"active">>
    BY DEF KRInit, Phases
  <2>2. ToSet(namespaces) = {"active"}
    BY <2>1, OneElement
  <2>3. QED
    BY <2>2 DEF NamespaceInv
<1>4. LatestInv /\ PathInv /\ GoneInv
  BY DEF KRInit, Init, LatestInv, PathInv, GoneInv
<1>5. SpecInv /\ TruthInv
  BY <1>2 DEF KRInit, Init, SpecInv, TruthInv, Busy, Truthful, Served, Exists
<1>6. ObjectHeld
  BY DEF KRInit, Init, ObjectHeld
<1>7. QED
  BY <1>1, <1>3, <1>4, <1>5, <1>6, KRInvParts

LEMMA KRInvStep ==
  SingleController /\ KRInv /\ [KRNext]_<<allVars, controller>> => KRInv'
<1> SUFFICES ASSUME SingleController, KRInv, [KRNext]_<<allVars, controller>>
             PROVE  KRInv'
  OBVIOUS
<1>1. KRTypeInv'
  BY KRTypeStep, KRInvParts
<1>2. CASE KRNext /\ Surroundings
  BY <1>2, SurroundingsInv DEF KRNext, SingleController
<1>3. CASE KRNext /\ (DeleteNamespace \/ DeliverNamespace)
  BY <1>3, NamespaceStepsInv DEF KRNext
<1>4. CASE KRNext /\ KRRestart
  BY <1>4, RestartInv DEF KRNext
<1>5. ASSUME KRNext, NEW w \in Workers, NEW e \in Resources, KRTake(w, e)
      PROVE  KRInv'
  BY <1>5, TakeInv DEF KRNext
<1>6. ASSUME KRNext, NEW w \in Workers, Step(w)
      PROVE  KRInv'
  BY <1>1, <1>6, StepCases, MovesInv, AddInv, ReleaseInv DEF KRNext
<1>7. CASE UNCHANGED <<allVars, controller>>
  <2>1. /\ UNCHANGED <<versions, fresh, topo, pc, request, resource,
                       namespaces>>
    BY <1>7 DEF allVars, vars
  <2>2. NamespaceInv' /\ LatestInv' /\ (Terminating => Terminating')
    BY <2>1, KRInvParts
    DEF NamespaceInv, LatestInv, Terminating, Busy, Current
  <2>3. QED
    BY <1>1, <2>1, <2>2, NothingStored, Framed
<1>8. QED
  BY <1>2, <1>3, <1>4, <1>5, <1>6, <1>7 DEF KRNext, Surroundings

LEMMA KRInvCorrect ==
  ASSUME SingleController
  PROVE  KRSpec => []KRInv
<1>1. KRInv /\ [KRNext]_<<allVars, controller>> => KRInv'
  BY KRInvStep
<1>2. QED
  BY <1>1, KRInvInit, PTL DEF KRSpec

(***************************************************************************)
(* With one instance of the controller and URIs that stay, no object of a  *)
(* Kind or a Relation outlives the last resource that names it, whatever   *)
(* the caches serve, whichever calls fail and however often onos-topo or   *)
(* the operator go away, as long as the namespace lives.                   *)
(***************************************************************************)
THEOREM ObjectHeldHolds ==
  ASSUME SingleController
  PROVE  KRSpec => []ObjectHeld
<1>1. KRInv => ObjectHeld
  BY DEF KRInv
<1>2. QED
  BY <1>1, KRInvCorrect, PTL

-----------------------------------------------------------------------------
(* The abstract state, and the abstract actions in its terms.              *)

WantedSet == {e \in Resources : Wanted(e)}
Charges == [e \in Resources |-> Charge(Current(e))]
Objects == {u \in URIs : topo[u] # NoObject}

(* Nothing that TopologySync sees has changed.                             *)
Stutters ==
  /\ WantedSet' = WantedSet /\ Charges' = Charges /\ Objects' = Objects
  /\ Terminating' = Terminating

LEMMA StutterSync ==
  ASSUME Stutters
  PROVE  [Sync!Next]_(Sync!vars)
BY DEF Stutters, Sync!vars, WantedSet, Charges, Objects

LEMMA WantSync ==
  ASSUME NEW e \in Resources, e \notin WantedSet, Charges[e] = NoObject,
         WantedSet' = WantedSet \cup {e}, Charges' = Charges,
         Objects' = Objects, Terminating' = Terminating
  PROVE  [Sync!Next]_(Sync!vars)
<1>1. Sync!Want(e)
  BY DEF Sync!Want, WantedSet, Charges, Objects
<1>2. QED
  BY <1>1 DEF Sync!Next

LEMMA UnwantSync ==
  ASSUME NEW e \in Resources, e \in WantedSet,
         WantedSet' = WantedSet \ {e}, Charges' = Charges,
         Objects' = Objects, Terminating' = Terminating
  PROVE  [Sync!Next]_(Sync!vars)
<1>1. Sync!Unwant(e)
  BY DEF Sync!Unwant, WantedSet, Charges, Objects
<1>2. QED
  BY <1>1 DEF Sync!Next

LEMMA CloseSync ==
  ASSUME Terminating', WantedSet' = WantedSet, Charges' = Charges,
         Objects' = Objects
  PROVE  [Sync!Next]_(Sync!vars)
<1>1. Sync!Close
  BY DEF Sync!Close, WantedSet, Charges, Objects
<1>2. QED
  BY <1>1 DEF Sync!Next

LEMMA TakeChargeSync ==
  ASSUME NEW e \in Resources, NEW spec \in SpecsOf[e],
         e \in WantedSet, Charges[e] = NoObject, WantedSet' = WantedSet,
         Charges' = [Charges EXCEPT ![e] = spec.uri],
         Objects' = Objects, Terminating' = Terminating
  PROVE  [Sync!Next]_(Sync!vars)
<1>1. spec.uri \in URIs
  BY SpecsAssumption DEF Specs
<1>2. Sync!TakeCharge(e, spec.uri)
  BY DEF Sync!TakeCharge, WantedSet, Charges, Objects
<1>3. QED
  BY <1>1, <1>2 DEF Sync!Next

LEMMA PublishSync ==
  ASSUME NEW u \in URIs, NEW e \in Resources, Charges[e] = u,
         WantedSet' = WantedSet, Charges' = Charges,
         Objects' = Objects \cup {u}, Terminating' = Terminating
  PROVE  [Sync!Next]_(Sync!vars)
<1>1. Sync!Publish(u)
  BY DEF Sync!Publish, WantedSet, Charges, Objects
<1>2. QED
  BY <1>1 DEF Sync!Next

LEMMA WithdrawSync ==
  ASSUME NEW e \in Resources, NEW spec \in SpecsOf[e],
         ~(e \in WantedSet /\ Charges[e] = spec.uri),
         WantedSet' = WantedSet, Charges' = Charges,
         Objects' = Objects \ {spec.uri}, Terminating' = Terminating
  PROVE  [Sync!Next]_(Sync!vars)
<1>1. spec.uri \in URIs
  BY SpecsAssumption DEF Specs
<1>2. Sync!Withdraw(spec.uri)
  BY DEF Sync!Withdraw, WantedSet, Charges, Objects
<1>3. QED
  BY <1>1, <1>2 DEF Sync!Next

LEMMA GiveUpSync ==
  ASSUME NEW e \in Resources, e \notin WantedSet,
         Terminating \/ Charges[e] \notin Objects,
         WantedSet' = WantedSet,
         Charges' = [Charges EXCEPT ![e] = NoObject],
         Objects' = Objects, Terminating' = Terminating
  PROVE  [Sync!Next]_(Sync!vars)
<1>1. Sync!GiveUp(e)
  BY DEF Sync!GiveUp, WantedSet, Charges, Objects
<1>2. QED
  BY <1>1 DEF Sync!Next

LEMMA LoseSync ==
  ASSUME WantedSet' = WantedSet, Charges' = Charges, Objects' = {},
         Terminating' = Terminating
  PROVE  [Sync!Next]_(Sync!vars)
<1>1. Sync!Lose
  BY DEF Sync!Lose, WantedSet, Charges, Objects, Terminating
<1>2. QED
  BY <1>1 DEF Sync!Next

-----------------------------------------------------------------------------
(* The steps of the controllers.                                           *)

(* What a step makes of the last versions decides two of the variables.    *)
LEMMA SameVersions ==
  ASSUME \A e \in Resources : Current(e)' = Current(e)
  PROVE  WantedSet' = WantedSet /\ Charges' = Charges
BY DEF WantedSet, Charges, Wanted

(* A new last version of e.                                                *)
LEMMA NewVersion ==
  ASSUME NEW e \in Resources, NEW version,
         Last(versions'[e]) = version,
         \A d \in Resources : d # e => versions'[d] = versions[d]
  PROVE  /\ Exists(version) /\ ~version.deleting =>
              WantedSet' = WantedSet \cup {e}
         /\ ~(Exists(version) /\ ~version.deleting) =>
              WantedSet' = WantedSet \ {e}
         /\ Charges' = [Charges EXCEPT ![e] = Charge(version)]
<1>1. /\ Current(e)' = version
      /\ \A d \in Resources : d # e => Current(d)' = Current(d)
  BY DEF Current
<1>2. /\ Exists(version) /\ ~version.deleting =>
           WantedSet' = WantedSet \cup {e}
      /\ ~(Exists(version) /\ ~version.deleting) =>
           WantedSet' = WantedSet \ {e}
  BY <1>1 DEF WantedSet, Wanted
<1>3. Charges' = [Charges EXCEPT ![e] = Charge(version)]
  BY <1>1 DEF Charges
<1>4. QED
  BY <1>2, <1>3

(* Users, the garbage collector and the namespace controller want and stop *)
(* to want resources.                                                      *)
LEMMA ServerWritesSync ==
  ASSUME KRInv, FixedURIs, NEW e \in Resources, ServerWrites(e),
         UNCHANGED namespaces
  PROVE  [Sync!Next]_(Sync!vars)
<1>1. PICK version \in Version :
        /\ Store(e, version) /\ Continues(Current(e), version)
        /\ Charge(version) = Charge(Current(e))
  BY ServerWritesStore
<1>2. Objects' = Objects /\ Terminating' = Terminating
  BY ServerWritesStore DEF Objects, Terminating
<1>3. /\ Last(versions'[e]) = version
      /\ \A d \in Resources : d # e => versions'[d] = versions[d]
  BY <1>1, StoreEffect, KRInvParts DEF KRTypeInv, BaseInv
<1>4. Charges' = Charges
  BY <1>1, <1>3, NewVersion DEF Charges
<1>5. CASE Exists(version) /\ ~version.deleting
  <2>1. WantedSet' = WantedSet \cup {e}
    BY <1>3, <1>5, NewVersion
  <2>2. CASE e \in WantedSet
    BY <1>2, <1>4, <2>1, <2>2, StutterSync DEF Stutters
  <2>3. CASE e \notin WantedSet
    <3>1. ~Served(version)
      BY <1>1, <2>3 DEF Continues, Served, WantedSet, Wanted
    <3>2. Charges[e] = NoObject
      BY <1>1, <1>5, <3>1 DEF Served, Charge, Charges
    <3>3. QED
      BY <1>2, <1>4, <2>1, <2>3, <3>2, WantSync
  <2>4. QED
    BY <2>2, <2>3
<1>6. CASE ~(Exists(version) /\ ~version.deleting)
  <2>1. WantedSet' = WantedSet \ {e}
    BY <1>3, <1>6, NewVersion
  <2>2. CASE e \in WantedSet
    BY <1>2, <1>4, <2>1, <2>2, UnwantSync
  <2>3. CASE e \notin WantedSet
    BY <1>2, <1>4, <2>1, <2>3, StutterSync DEF Stutters
  <2>4. QED
    BY <2>2, <2>3
<1>7. QED
  BY <1>5, <1>6

(* The last versions stay in caches, restarts and all steps that write     *)
(* nothing to the API server.                                              *)
LEMMA DeliverSync ==
  ASSUME KRInv, NEW e \in Resources, KRDeliver(e)
  PROVE  [Sync!Next]_(Sync!vars)
<1>1. /\ versions \in [Resources -> Seq(Version)]
      /\ versions' = [versions EXCEPT ![e] = Tail(@)] /\ Len(versions[e]) > 1
      /\ UNCHANGED <<topo, namespaces>>
  BY KRInvParts DEF KRDeliver, Deliver, KRTypeInv, BaseInv, TypeOK, Version
<1>2. \A d \in Resources : Current(d)' = Current(d)
  BY <1>1, TailLast DEF Current
<1>3. QED
  BY <1>1, <1>2, SameVersions, StutterSync DEF Stutters, Objects, Terminating

LEMMA RestartSync ==
  ASSUME KRInv, KRRestart
  PROVE  [Sync!Next]_(Sync!vars)
<1>1. /\ versions' = [e \in Resources |-> <<Current(e)>>]
      /\ namespaces' = <<Last(namespaces)>> /\ topo' = topo
  BY DEF KRRestart, Restart
<1>2. ASSUME NEW e \in Resources
      PROVE  Current(e)' = Current(e)
  <2>1. Current(e) \in Version
    BY CurrentType, KRInvParts DEF KRTypeInv, BaseInv
  <2>2. Last(versions'[e]) = Current(e)
    BY <1>1, <2>1, OneElement
  <2>3. QED
    BY <2>2 DEF Current
<1>3. Last(namespaces') = Last(namespaces)
  <2>1. Last(namespaces) \in Phases
    BY LastElement, KRInvParts DEF KRTypeInv, ExtraTypeOK
  <2>2. QED
    BY <1>1, <2>1, OneElement
<1>4. QED
  BY <1>1, <1>2, <1>3, SameVersions, StutterSync
  DEF Stutters, Objects, Terminating

LEMMA NamespaceSync ==
  ASSUME KRInv, controller' = controller, DeleteNamespace \/ DeliverNamespace
  PROVE  [Sync!Next]_(Sync!vars)
<1>1. UNCHANGED <<versions, topo>>
  BY NamespaceType, KRInvParts
<1>2. WantedSet' = WantedSet /\ Charges' = Charges /\ Objects' = Objects
  BY <1>1, SameVersions DEF Current, Objects
<1>3. namespaces \in Seq(Phases) /\ "terminating" \in Phases
  BY KRInvParts DEF KRTypeInv, ExtraTypeOK, Phases
<1>4. CASE DeleteNamespace
  <2>1. Terminating'
    BY <1>3, <1>4, AppendLast DEF DeleteNamespace, Terminating
  <2>2. QED
    BY <1>2, <2>1, CloseSync
<1>5. CASE DeliverNamespace
  <2>1. Terminating' = Terminating
    BY <1>3, <1>5, TailLast DEF DeliverNamespace, Terminating
  <2>2. QED
    BY <1>2, <2>1, StutterSync DEF Stutters
<1>6. QED
  BY <1>4, <1>5

LEMMA SurroundingsSync ==
  ASSUME KRInv, FixedURIs, controller' = controller, Surroundings
  PROVE  [Sync!Next]_(Sync!vars)
<1>1. UNCHANGED namespaces
  BY SurroundingsType, KRInvParts
<1>2. ASSUME NEW e \in Resources, ServerWrites(e)
      PROVE  [Sync!Next]_(Sync!vars)
  BY <1>1, <1>2, ServerWritesSync
<1>3. ASSUME NEW e \in Resources, KRDeliver(e)
      PROVE  [Sync!Next]_(Sync!vars)
  BY <1>3, DeliverSync
<1>4. CASE UNCHANGED <<versions, topo>>
  BY <1>1, <1>4, SameVersions, StutterSync
  DEF Stutters, Objects, Terminating, Current
<1>5. CASE TopoUninstall
  <2>1. UNCHANGED versions
    BY <1>5 DEF TopoUninstall
  <2>2. WantedSet' = WantedSet /\ Charges' = Charges
        /\ Terminating' = Terminating
    BY <1>1, <2>1, SameVersions DEF Current, Terminating
  <2>3. CASE topo' = topo
    BY <1>4, <2>1, <2>3
  <2>4. CASE topo' = [u \in URIs |-> NoObject]
    <3>1. Objects' = {}
      BY <2>4 DEF Objects
    <3>2. QED
      BY <2>2, <3>1, LoseSync
  <2>5. QED
    BY <1>5, <2>3, <2>4 DEF TopoUninstall
<1>6. CASE \/ KRResync \/ KRCacheService \/ TopoInstall
           \/ \E u \in URIs : TopoClientWrite(u)
  BY <1>4, <1>6
  DEF KRResync, Resync, KRCacheService, CacheService, TopoInstall,
      TopoClientWrite
<1>7. QED
  BY <1>2, <1>3, <1>5, <1>6 DEF Surroundings, Environment, ServerWrites

(* A reconcile publishes and withdraws.                                    *)
LEMMA MovesSync ==
  ASSUME KRInv, NEW w \in Workers, Moves(w)
  PROVE  [Sync!Next]_(Sync!vars)
<1>1. UNCHANGED <<versions, namespaces>> /\ Busy(w)
  BY MovesShape
<1>2. /\ WantedSet' = WantedSet /\ Charges' = Charges
      /\ Terminating' = Terminating
  BY <1>1, SameVersions DEF Current, Terminating
<1>3. /\ request[w] \in Resources /\ ObjectID(w) \in URIs
      /\ resource[w].spec \in SpecsOf[request[w]]
      /\ Exists(resource[w])
      /\ Truthful(resource[w], Current(request[w]))
      /\ Charges[request[w]] = Charge(Current(request[w]))
      /\ topo \in [URIs -> Aspects \cup {NoObject}]
  BY <1>1, BusyKnows, KRInvParts DEF Charges, KRTypeInv, BaseInv, TypeOK
<1>4. CASE topo' = topo
  BY <1>2, <1>4, StutterSync DEF Stutters, Objects
<1>5. CASE DeleteObject(w)
  <2>1. Objects' = Objects \ {resource[w].spec.uri}
    BY <1>3, <1>5 DEF DeleteObject, Objects, ObjectID
  <2>2. resource[w].deleting
    BY <1>5, KRInvParts DEF DeleteObject, PathInv
  <2>3. ~Served(Current(request[w]))
    BY <1>3, <2>2 DEF Truthful
  <2>4. ~(/\ request[w] \in WantedSet
          /\ Charges[request[w]] = resource[w].spec.uri)
    BY <1>3, <2>3, NoObjectAssumption
    DEF Served, WantedSet, Wanted, Charge, ObjectID
  <2>5. QED
    BY <1>2, <1>3, <2>1, <2>4, WithdrawSync
<1>6. CASE UpdateKind(w) \/ UpdateRelation(w) \/ CreateObject(w)
  <2>1. pc[w] \in {"update", "create"}
    BY <1>6 DEF UpdateKind, UpdateRelation, CreateObject
  <2>2. Served(resource[w])
    BY <1>3, <2>1, KRInvParts DEF PathInv, Served
  <2>3. Charges[request[w]] = ObjectID(w)
    BY <1>3, <2>2 DEF Truthful, ObjectID
  <2>4. topo' \in [URIs -> Aspects \cup {NoObject}]
    BY MovesTopo, KRInvParts
  <2>5. CASE topo' # topo
    <3>1. PICK aspects \in Aspects :
            topo' = [topo EXCEPT ![ObjectID(w)] = aspects]
      <4>1. resource[w].spec.aspects \in Aspects
            /\ object \in [Workers -> Aspects \cup {NoObject}]
        BY <1>1, CopyType, KRInvParts DEF KRTypeInv, BaseInv, ExtraTypeOK
      <4>2. pc[w] = "update" =>
              SetAspects(object[w], resource[w].spec.aspects) \in Aspects
        BY <4>1, AspectsType, KRInvParts DEF KRTypeInv, ObjectInv
      <4>3. SetAspects(NoAspects, resource[w].spec.aspects) \in Aspects
        BY <4>1, AspectsType DEF NoAspects, Aspects
      <4>4. QED
        BY <1>6, <2>5, <4>2, <4>3
        DEF UpdateKind, UpdateRelation, CreateObject
    <3>2. Objects' = Objects \cup {ObjectID(w)}
      BY <1>3, <3>1, NoObjectAssumption DEF Objects
    <3>3. QED
      BY <1>2, <1>3, <2>3, <3>2, PublishSync
  <2>6. QED
    BY <1>4, <2>5
<1>7. CASE \/ ReadNamespace(w) \/ ReadNamespaceFails(w) \/ ConnectService(w)
           \/ ServiceNotFound(w) \/ ObjectExists(w) \/ CallFails(w)
  BY <1>4, <1>7
  DEF ReadNamespace, ReadNamespaceFails, ConnectService, ServiceNotFound,
      ObjectExists, CallFails
<1>8. QED
  BY <1>5, <1>6, <1>7 DEF Moves

(* With the finalizer a resource takes charge of its object.               *)
LEMMA AddSync ==
  ASSUME KRInv, NEW w \in Workers, AddTopoFinalizer(w), UNCHANGED namespaces
  PROVE  [Sync!Next]_(Sync!vars)
<1> DEFINE version == [resource[w] EXCEPT
                         !.finalizers = AddFinalizer(@, TopoFinalizer)]
<1>1. /\ Busy(w) /\ pc[w] = "service" /\ topo' = topo
      /\ ~resource[w].deleting /\ ~HasTopoFinalizer(resource[w])
  BY DEF AddTopoFinalizer, Busy
<1>2. /\ request[w] \in Resources /\ resource[w] \in Resource
      /\ resource[w].spec \in SpecsOf[request[w]] /\ TypeOK
      /\ Exists(resource[w])
  BY <1>1, BusyKnows, KRInvParts DEF KRTypeInv, BaseInv
<1>3. version \in Resource /\ version \in Version
  BY <1>1, EditedCopyType, KRInvParts DEF KRTypeInv, Version
<1>4. /\ version.spec = resource[w].spec /\ ~version.deleting
      /\ HasTopoFinalizer(version) /\ Exists(version)
  BY <1>1, <1>2, <1>3, NothingIsNoResource
  DEF Resource, HasTopoFinalizer, HasFinalizer, AddFinalizer, Exists
<1> HIDE DEF version
<1>5. Objects' = Objects /\ Terminating' = Terminating
  BY <1>1 DEF Objects, Terminating
<1>6. ASSUME w \in fresh,
             \/ Store(request[w], version)
             \/ versions' = [versions EXCEPT ![request[w]] = Append(@, version)]
      PROVE  [Sync!Next]_(Sync!vars)
  <2>1. /\ versions[request[w]] = <<resource[w]>>
        /\ Current(request[w]) = resource[w]
    BY <1>1, <1>6, KRInvParts DEF LatestInv
  <2>2. /\ Last(versions'[request[w]]) = version
        /\ \A d \in Resources : d # request[w] => versions'[d] = versions[d]
    BY <1>2, <1>3, <1>6, <2>1, StoreAfter DEF Version
  <2>3. request[w] \in WantedSet /\ Charges[request[w]] = NoObject
    BY <1>1, <1>2, <2>1 DEF WantedSet, Wanted, Charges, Charge
  <2>4. WantedSet' = WantedSet
    <3>1. WantedSet' = WantedSet \cup {request[w]}
      BY <1>2, <1>4, <2>2, NewVersion
    <3>2. QED
      BY <2>3, <3>1
  <2>5. Charges' = [Charges EXCEPT ![request[w]] = resource[w].spec.uri]
    <3>1. Charge(version) = resource[w].spec.uri
      BY <1>4 DEF Charge
    <3>2. QED
      BY <1>2, <2>2, <3>1, NewVersion
  <2>6. QED
    BY <1>2, <1>5, <2>3, <2>4, <2>5, TakeChargeSync
<1>7. CASE UNCHANGED versions
  BY <1>5, <1>7, SameVersions, StutterSync DEF Stutters, Current
<1>8. QED
  BY <1>6, <1>7 DEF AddTopoFinalizer, version

(* Without it, it gives it up.                                             *)
LEMMA ReleaseSync ==
  ASSUME KRInv, NEW w \in Workers, Release(w), UNCHANGED namespaces
  PROVE  [Sync!Next]_(Sync!vars)
<1> DEFINE released == [resource[w] EXCEPT
                          !.finalizers = RemoveFinalizer(@, TopoFinalizer)]
<1> DEFINE version == Stored(released)
<1>1. Busy(w) /\ topo' = topo /\ pc[w] = "deleted"
  BY DEF Release, Write, Busy
<1>2. /\ request[w] \in Resources /\ resource[w] \in Resource
      /\ Exists(resource[w]) /\ ~Finalized(resource[w]) /\ TypeOK
  BY <1>1, BusyKnows, KRInvParts DEF KRTypeInv, BaseInv
<1>3. /\ resource[w].deleting
      /\ Terminating \/ topo[ObjectID(w)] = NoObject
  BY <1>1, KRInvParts DEF PathInv, GoneInv
<1>4. released \in Resource /\ version \in Version
  BY <1>1, EditedCopyType, StoredType, KRInvParts DEF KRTypeInv
<1>5. released.deleting /\ released.spec = resource[w].spec
  BY <1>2, <1>3 DEF Resource
<1> HIDE DEF released
<1>6. Charge(version) \in {NoObject, resource[w].spec.uri}
      /\ ~(Exists(version) /\ ~version.deleting)
  BY <1>5 DEF Charge, Stored, Exists
<1> HIDE DEF version
<1>7. Objects' = Objects /\ Terminating' = Terminating
  BY <1>1 DEF Objects, Terminating
<1>8. CASE w \in fresh /\ Store(request[w], version)
  <2>1. /\ versions[request[w]] = <<resource[w]>>
        /\ Current(request[w]) = resource[w]
    BY <1>1, <1>3, <1>8, KRInvParts DEF LatestInv
  <2>2. /\ Last(versions'[request[w]]) = version
        /\ \A d \in Resources : d # request[w] => versions'[d] = versions[d]
    BY <1>2, <1>4, <1>8, <2>1, StoreAfter DEF Version
  <2>3. /\ request[w] \notin WantedSet
        /\ Charges[request[w]] = resource[w].spec.uri
    BY <1>2, <1>3, <2>1
    DEF WantedSet, Wanted, Charges, Charge, Finalized
  <2>4. WantedSet' = WantedSet
    <3>1. WantedSet' = WantedSet \ {request[w]}
      BY <1>2, <1>6, <2>2, NewVersion
    <3>2. QED
      BY <2>3, <3>1
  <2>5. Charges' = [Charges EXCEPT ![request[w]] = Charge(version)]
    BY <1>2, <2>2, NewVersion
  <2>6. Terminating \/ Charges[request[w]] \notin Objects
    BY <1>3, <2>3 DEF Objects, ObjectID
  <2>7. CASE Charge(version) = NoObject
    BY <1>2, <1>7, <2>3, <2>4, <2>5, <2>6, <2>7, GiveUpSync
  <2>8. CASE Charge(version) = resource[w].spec.uri
    <3>1. Charges' = Charges
      BY <2>3, <2>5, <2>8 DEF Charges
    <3>2. QED
      BY <1>7, <2>4, <3>1, StutterSync DEF Stutters
  <2>9. QED
    BY <1>6, <2>7, <2>8
<1>9. CASE UNCHANGED versions
  BY <1>7, <1>9, SameVersions, StutterSync DEF Stutters, Current
<1>10. QED
  BY <1>8, <1>9 DEF Release, Write, version, released

LEMMA InitSync == KRInit => Sync!Init
<1> SUFFICES ASSUME KRInit
             PROVE  Sync!Init
  OBVIOUS
<1>1. \A e \in Resources : Current(e) = NoResource
  BY OneElement DEF KRInit, Init, Current, Version
<1>2. WantedSet = {} /\ Charges = [e \in Resources |-> NoObject]
  BY <1>1 DEF WantedSet, Charges, Wanted, Charge, Exists
<1>3. Objects = {}
  BY DEF KRInit, Init, Objects
<1>4. Terminating = FALSE
  <2>1. "active" \in Phases /\ namespaces = <<"active">>
    BY DEF KRInit, Phases
  <2>2. Last(namespaces) = "active"
    BY <2>1, OneElement
  <2>3. QED
    BY <2>2 DEF Terminating
<1>5. QED
  BY <1>2, <1>3, <1>4 DEF Sync!Init, WantedSet, Charges, Objects

LEMMA StepSync ==
  ASSUME SingleController, KRInv, [KRNext]_<<allVars, controller>>
  PROVE  [Sync!Next]_(Sync!vars)
<1>1. CASE KRNext /\ Surroundings
  BY <1>1, SurroundingsSync DEF KRNext, SingleController
<1>2. CASE KRNext /\ (DeleteNamespace \/ DeliverNamespace)
  BY <1>2, NamespaceSync DEF KRNext
<1>3. CASE KRRestart
  BY <1>3, RestartSync
<1>4. ASSUME NEW w \in Workers, NEW e \in Resources, KRTake(w, e)
      PROVE  [Sync!Next]_(Sync!vars)
  <2>1. UNCHANGED <<versions, topo, namespaces>>
    BY <1>4 DEF KRTake, Take, Skip, Fetch
  <2>2. QED
    BY <2>1, SameVersions, StutterSync
    DEF Stutters, Objects, Terminating, Current
<1>5. ASSUME NEW w \in Workers, Step(w)
      PROVE  [Sync!Next]_(Sync!vars)
  BY <1>5, StepCases, MovesSync, AddSync, ReleaseSync
<1>6. CASE UNCHANGED <<allVars, controller>>
  <2>1. UNCHANGED <<versions, topo, namespaces>>
    BY <1>6 DEF allVars, vars
  <2>2. QED
    BY <2>1, SameVersions, StutterSync
    DEF Stutters, Objects, Terminating, Current
<1>7. QED
  BY <1>1, <1>2, <1>3, <1>4, <1>5, <1>6 DEF KRNext, Surroundings

(***************************************************************************)
(* The Kind and the Relation controller, with one instance and URIs that   *)
(* stay, implement TopologySync: for any resources that share any objects, *)
(* onos-topo shows objects of resources in charge only, objects are        *)
(* withdrawn only for resources that are not to be served, and the last    *)
(* resource in charge leaves no object behind in a living namespace.       *)
(***************************************************************************)
THEOREM KRImplementsTopologySync ==
  ASSUME SingleController
  PROVE  KRSpec => ImplementsTopologySync
<1>1. KRInit => Sync!Init
  BY InitSync
<1>2. KRInv /\ [KRNext]_<<allVars, controller>> => [Sync!Next]_(Sync!vars)
  BY StepSync
<1>3. QED
  BY <1>1, <1>2, KRInvCorrect, PTL DEF KRSpec, ImplementsTopologySync, Sync!Spec

=============================================================================
