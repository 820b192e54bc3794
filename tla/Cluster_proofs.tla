--------------------------- MODULE Cluster_proofs ---------------------------
(***************************************************************************)
(* What the proofs about the controllers share: lemmas on the sequences of *)
(* versions, and the types and effects of the actions of Cluster.          *)
(***************************************************************************)
EXTENDS Cluster, TLAPS

(* One instance of the controller, as its code assumes.                    *)
OneWorker == \A w1, w2 \in Workers : w1 = w2

-----------------------------------------------------------------------------
(* Sequences of versions.                                                  *)

(* Appending makes the new element the last one.                           *)
LEMMA AppendLast ==
  ASSUME NEW S, NEW s \in Seq(S), NEW v \in S
  PROVE  /\ Append(s, v) \in Seq(S)
         /\ Len(Append(s, v)) = Len(s) + 1
         /\ Last(Append(s, v)) = v
         /\ ToSet(Append(s, v)) = ToSet(s) \cup {v}
<1>1. /\ Append(s, v) \in Seq(S)
      /\ Len(Append(s, v)) = Len(s) + 1
      /\ \A i \in 1..Len(s) : Append(s, v)[i] = s[i]
      /\ Append(s, v)[Len(s) + 1] = v
  OBVIOUS
<1>2. Len(s) \in Nat
  OBVIOUS
<1>3. Last(Append(s, v)) = v
  BY <1>1, <1>2 DEF Last
<1>4. DOMAIN s = 1..Len(s) /\ DOMAIN Append(s, v) = 1..(Len(s) + 1)
  OBVIOUS
<1>5. ToSet(Append(s, v)) = ToSet(s) \cup {v}
  BY <1>1, <1>2, <1>4 DEF ToSet
<1>6. QED
  BY <1>1, <1>3, <1>5

(* Dropping the first of several elements keeps the last one.              *)
LEMMA TailLast ==
  ASSUME NEW S, NEW s \in Seq(S), Len(s) > 1
  PROVE  /\ Tail(s) \in Seq(S)
         /\ Len(Tail(s)) = Len(s) - 1
         /\ Last(Tail(s)) = Last(s)
         /\ ToSet(Tail(s)) \subseteq ToSet(s)
<1>1. /\ Tail(s) \in Seq(S)
      /\ Len(Tail(s)) = Len(s) - 1
      /\ \A i \in 1..(Len(s) - 1) : Tail(s)[i] = s[i + 1]
  OBVIOUS
<1>2. Len(s) \in Nat
  OBVIOUS
<1>3. Last(Tail(s)) = Last(s)
  BY <1>1, <1>2 DEF Last
<1>4. DOMAIN s = 1..Len(s) /\ DOMAIN Tail(s) = 1..(Len(s) - 1)
  BY <1>1, <1>2
<1>5. ToSet(Tail(s)) \subseteq ToSet(s)
  BY <1>1, <1>2, <1>4 DEF ToSet
<1>6. QED
  BY <1>1, <1>3, <1>5

(* The last element is an element.                                         *)
LEMMA LastElement ==
  ASSUME NEW S, NEW s \in Seq(S), Len(s) > 0
  PROVE  Last(s) \in S /\ Last(s) \in ToSet(s)
<1>1. Len(s) \in Nat /\ DOMAIN s = 1..Len(s) /\ Len(s) \in 1..Len(s)
  OBVIOUS
<1>2. QED
  BY <1>1 DEF Last, ToSet

(* The first element is an element.                                        *)
LEMMA HeadElement ==
  ASSUME NEW S, NEW s \in Seq(S), Len(s) > 0
  PROVE  /\ Head(s) \in S /\ Head(s) \in ToSet(s)
         /\ Len(s) = 1 => s = <<Head(s)>>
<1>1. Len(s) \in Nat /\ DOMAIN s = 1..Len(s) /\ 1 \in 1..Len(s)
      /\ Head(s) = s[1]
  OBVIOUS
<1>2. Len(s) = 1 => s = <<Head(s)>>
  OBVIOUS
<1>3. QED
  BY <1>1, <1>2 DEF ToSet

(* A sequence of one element.                                              *)
LEMMA OneElement ==
  ASSUME NEW S, NEW v \in S
  PROVE  /\ <<v>> \in Seq(S) /\ Len(<<v>>) = 1
         /\ Last(<<v>>) = v /\ Head(<<v>>) = v /\ ToSet(<<v>>) = {v}
<1>1. <<v>> \in Seq(S) /\ Len(<<v>>) = 1 /\ <<v>>[1] = v
      /\ DOMAIN <<v>> = 1..1 /\ Head(<<v>>) = v
  OBVIOUS
<1>2. QED
  BY <1>1 DEF Last, ToSet

-----------------------------------------------------------------------------
(* Types of the parts.                                                     *)

Version == Resource \cup {NoResource}

LEMMA NothingIsNoResource == NoResource \notin Resource
BY NoResourceAssumption

(* What the server holds for e.                                            *)
LEMMA CurrentType ==
  ASSUME TypeOK, NEW e \in Resources
  PROVE  /\ Current(e) \in Version /\ Current(e) \in ToSet(versions[e])
         /\ Cached(e) \in Version /\ Cached(e) \in ToSet(versions[e])
         /\ Exists(Current(e)) => Current(e) \in Resource
         /\ Exists(Cached(e)) => Cached(e) \in Resource
         /\ Len(versions[e]) = 1 => versions[e] = <<Cached(e)>>
<1>1. versions[e] \in Seq(Version) /\ Len(versions[e]) > 0
  BY DEF TypeOK, Version
<1>2. QED
  BY <1>1, LastElement, HeadElement DEF Current, Cached, Version, Exists

LEMMA StoredType ==
  ASSUME NEW version \in Resource
  PROVE  Stored(version) \in Version
BY DEF Stored, Version

(* The effect of a write at the server.                                    *)
LEMMA StoreEffect ==
  ASSUME TypeOK, NEW e \in Resources, NEW version \in Version,
         Store(e, version)
  PROVE  /\ versions' \in [Resources -> Seq(Version)]
         /\ \A d \in Resources : Len(versions'[d]) > 0
         /\ Last(versions'[e]) = version
         /\ ToSet(versions'[e]) = ToSet(versions[e]) \cup {version}
         /\ \A d \in Resources : d # e => versions'[d] = versions[d]
         /\ fresh' \subseteq fresh
         /\ \A w \in fresh' : request[w] = e => versions' = versions
<1>1. /\ versions \in [Resources -> Seq(Version)]
      /\ \A d \in Resources : Len(versions[d]) > 0 /\ Len(versions[d]) \in Nat
  BY DEF TypeOK, Version
<1>2. CASE version = Current(e)
  <2>1. versions' = versions /\ fresh' = fresh
    BY <1>2 DEF Store
  <2>2. Last(versions[e]) = version /\ version \in ToSet(versions[e])
    BY <1>2, CurrentType DEF Current
  <2>3. QED
    BY <1>1, <2>1, <2>2
<1>3. CASE version # Current(e)
  <2>1. /\ versions' = [versions EXCEPT ![e] = Append(@, version)]
        /\ fresh' = {w \in fresh : request[w] # e}
    BY <1>3 DEF Store
  <2>2. versions'[e] = Append(versions[e], version)
    BY <1>1, <2>1
  <2>3. /\ Append(versions[e], version) \in Seq(Version)
        /\ Len(Append(versions[e], version)) = Len(versions[e]) + 1
        /\ Last(Append(versions[e], version)) = version
        /\ ToSet(Append(versions[e], version))
             = ToSet(versions[e]) \cup {version}
    BY <1>1, AppendLast
  <2>4. fresh' \subseteq fresh /\ \A w \in fresh' : request[w] # e
    BY <2>1
  <2>5. \A d \in Resources : d # e => versions'[d] = versions[d]
    BY <1>1, <2>1
  <2>6. versions' \in [Resources -> Seq(Version)]
    BY <1>1, <2>1, <2>2, <2>3
  <2>7. \A d \in Resources : Len(versions'[d]) > 0
    BY <1>1, <2>2, <2>3, <2>5
  <2>8. QED
    BY <2>2, <2>3, <2>4, <2>5, <2>6, <2>7
<1>4. QED
  BY <1>2, <1>3

(* The types of the variables that a worker changes, and its copy.         *)
WorkerTypeOK ==
  /\ queue \in [Workers -> SUBSET Resources]
  /\ pc \in [Workers -> PCs]
  /\ request \in [Workers -> Resources \cup {NoRequest}]
  /\ resource \in [Workers -> Version]

(* A reconcile that returns leaves an idle worker behind.                  *)
LEMMA ReturnEffect ==
  ASSUME TypeOK, CopyInv, NEW w \in Workers, NEW again, Busy(w),
         Return(w, again)
  PROVE  /\ WorkerTypeOK' /\ CopyInv'
         /\ pc'[w] = "idle"
         /\ \A x \in Workers : x # w =>
              /\ pc'[x] = pc[x] /\ request'[x] = request[x]
              /\ resource'[x] = resource[x]
<1>1. /\ queue \in [Workers -> SUBSET Resources]
      /\ pc \in [Workers -> PCs]
      /\ request \in [Workers -> Resources \cup {NoRequest}]
      /\ resource \in [Workers -> Version]
      /\ request[w] \in Resources
  BY DEF TypeOK, CopyInv, Version
<1>2. /\ pc'[w] = "idle" /\ request'[w] = NoRequest
      /\ \A x \in Workers : x # w =>
           /\ pc'[x] = pc[x] /\ request'[x] = request[x]
           /\ resource'[x] = resource[x]
  BY <1>1 DEF Return
<1>3. WorkerTypeOK'
  <2>1. {r \in {request[w]} : again} \subseteq Resources
    BY <1>1
  <2>2. queue' \in [Workers -> SUBSET Resources]
    BY <1>1, <2>1 DEF Return
  <2>3. /\ pc' \in [Workers -> PCs]
        /\ request' \in [Workers -> Resources \cup {NoRequest}]
        /\ resource' \in [Workers -> Version]
    BY <1>1 DEF Return, PCs, Version
  <2>4. QED
    BY <2>2, <2>3 DEF WorkerTypeOK
<1>4. CopyInv'
  BY <1>2 DEF CopyInv, Busy
<1>5. QED
  BY <1>2, <1>3, <1>4

(* A step within a reconcile keeps the request and the copy.               *)
LEMMA GotoEffect ==
  ASSUME TypeOK, CopyInv, NEW w \in Workers, Busy(w),
         NEW label \in PCs \ {"idle"}, Goto(w, label)
  PROVE  /\ WorkerTypeOK' /\ CopyInv'
         /\ pc'[w] = label
         /\ \A x \in Workers : x # w => pc'[x] = pc[x]
         /\ request' = request /\ resource' = resource
<1>1. /\ pc' = [pc EXCEPT ![w] = label] /\ pc \in [Workers -> PCs]
      /\ queue' = queue /\ request' = request /\ resource' = resource
  BY DEF Goto, TypeOK
<1>2. pc'[w] = label /\ \A x \in Workers : x # w => pc'[x] = pc[x]
  BY <1>1
<1>3. WorkerTypeOK'
  BY <1>1 DEF TypeOK, WorkerTypeOK, Version
<1>4. CopyInv'
  BY <1>1, <1>2 DEF CopyInv, Busy
<1>5. QED
  BY <1>1, <1>2, <1>3, <1>4

(* What a busy worker holds.                                               *)
LEMMA CopyType ==
  ASSUME TypeOK, CopyInv, NEW w \in Workers, Busy(w)
  PROVE  /\ request[w] \in Resources /\ resource[w] \in Resource
         /\ resource[w].deleting \in BOOLEAN
         /\ resource[w].finalizers \in SUBSET Finalizer
         /\ resource[w].spec \in Specs /\ ObjectID(w) \in URIs
         /\ resource[w].spec.aspects \in Aspects
         /\ resource[w].state \in States
<1>1. request[w] \in Resources /\ resource[w] \in Resource
  BY DEF TypeOK, CopyInv, Exists
<1>2. QED
  BY <1>1 DEF Resource, Specs, ObjectID

LEMMA FinalizerTypes ==
  ASSUME NEW finalizers \in SUBSET Finalizer
  PROVE  /\ AddFinalizer(finalizers, TopoFinalizer) \in SUBSET Finalizer
         /\ RemoveFinalizer(finalizers, TopoFinalizer) \in SUBSET Finalizer
         /\ finalizers \ {GCFinalizer} \in SUBSET Finalizer
         /\ finalizers \cup {GCFinalizer} \in SUBSET Finalizer
BY DEF AddFinalizer, RemoveFinalizer, Finalizer

(* Aspects written to an object make aspects.                              *)
LEMMA AspectsType ==
  ASSUME NEW object \in Aspects, NEW aspects \in Aspects
  PROVE  SetAspects(object, aspects) \in Aspects
BY DEF SetAspects, Aspects

-----------------------------------------------------------------------------
(* The actions of Cluster keep the types and the copies of the workers.    *)

BaseInv == TypeOK /\ CopyInv

(* A write of a worker, which ends its reconcile.                          *)
LEMMA WriteEffect ==
  ASSUME BaseInv, NEW w \in Workers, Busy(w),
         NEW version \in Resource, NEW again, Write(w, version, again)
  PROVE  /\ BaseInv'
         /\ pc'[w] = "idle"
         /\ \A x \in Workers : x # w =>
              /\ pc'[x] = pc[x] /\ request'[x] = request[x]
              /\ resource'[x] = resource[x]
         /\ UNCHANGED <<services, topo, topoFresh, operations, outages>>
<1>1. WorkerTypeOK' /\ CopyInv' /\ pc'[w] = "idle"
      /\ \A x \in Workers : x # w =>
           /\ pc'[x] = pc[x] /\ request'[x] = request[x]
           /\ resource'[x] = resource[x]
  <2>1. Return(w, again) \/ Return(w, Requeue)
    BY DEF Write
  <2>2. QED
    BY <2>1, ReturnEffect DEF BaseInv
<1>2. /\ versions' \in [Resources -> Seq(Version)]
      /\ \A e \in Resources : Len(versions'[e]) > 0
      /\ fresh' \subseteq Workers
  <2>1. request[w] \in Resources /\ Stored(version) \in Version
    BY CopyType, StoredType DEF BaseInv
  <2>2. CASE Store(request[w], Stored(version))
    BY <2>1, <2>2, StoreEffect DEF BaseInv, TypeOK
  <2>3. CASE UNCHANGED versions /\ Drop(w)
    BY <2>3 DEF BaseInv, TypeOK, Drop, Version
  <2>4. QED
    BY <2>2, <2>3 DEF Write
<1>3. faults' \in 0..MaxFaults
  BY BoundAssumption DEF Write, Fault, BaseInv, TypeOK
<1>4. UNCHANGED <<services, topo, topoFresh, operations, outages>>
  BY DEF Write
<1>5. TypeOK'
  BY <1>1, <1>2, <1>3, <1>4 DEF BaseInv, TypeOK, WorkerTypeOK, Version
<1>6. QED
  BY <1>1, <1>4, <1>5 DEF BaseInv

(* A resource written by a user or by Kubernetes.                          *)
LEMMA ServerWriteType ==
  ASSUME BaseInv, NEW e \in Resources, NEW version \in Version,
         Store(e, version),
         UNCHANGED <<services, topo, queue, pc, request, resource, topoFresh,
                     outages, faults>>,
         operations' \in 0..MaxOperations
  PROVE  BaseInv'
<1>1. /\ versions' \in [Resources -> Seq(Version)]
      /\ \A d \in Resources : Len(versions'[d]) > 0
      /\ fresh' \subseteq Workers
  BY StoreEffect DEF BaseInv, TypeOK
<1>2. TypeOK'
  BY <1>1 DEF BaseInv, TypeOK, Version
<1>3. CopyInv'
  BY DEF BaseInv, CopyInv, Busy
<1>4. QED
  BY <1>2, <1>3 DEF BaseInv

LEMMA BaseInvInit == Init => BaseInv
<1> SUFFICES ASSUME Init
             PROVE  BaseInv
  OBVIOUS
<1>1. versions \in [Resources -> Seq(Version)]
      /\ \A e \in Resources : Len(versions[e]) > 0
  <2>1. <<NoResource>> \in Seq(Version) /\ Len(<<NoResource>>) = 1
    BY OneElement DEF Version
  <2>2. QED
    BY <2>1 DEF Init
<1>2. services \in Seq({"up", "down"}) /\ Len(services) > 0
  <2>1. PICK service \in {"up", "down"} : services = <<service>>
    BY DEF Init
  <2>2. QED
    BY <2>1, OneElement
<1>3. TypeOK
  BY <1>1, <1>2, BoundAssumption DEF Init, TypeOK, Version, PCs
<1>4. CopyInv
  BY DEF Init, CopyInv, Busy
<1>5. QED
  BY <1>3, <1>4 DEF BaseInv

(* Users and the garbage collector write versions of a resource, with a    *)
(* spec the users give it or the one it has.                               *)
LEMMA UsersStoreVersion ==
  ASSUME BaseInv, NEW e \in Resources, User(e) \/ CollectorRelease(e)
  PROVE  \E version \in Version :
           /\ Store(e, version)
           /\ Exists(version) =>
                \/ version.spec \in SpecsOf[e]
                \/ Exists(Current(e)) /\ version.spec = Current(e).spec
<1>1. /\ Current(e) \in Version
      /\ Exists(Current(e)) => Current(e) \in Resource
  BY CurrentType DEF BaseInv
<1>2. CASE UserCreate(e)
  <2>1. PICK spec \in SpecsOf[e] : Store(e, NewResource(spec))
    BY <1>2 DEF UserCreate
  <2>2. NewResource(spec) \in Version
    BY SpecsAssumption DEF NewResource, Version, Resource, States
  <2>3. NewResource(spec).spec = spec
    BY DEF NewResource
  <2>4. QED
    BY <2>1, <2>2, <2>3
<1>3. CASE UserUpdate(e)
  <2>1. PICK spec \in SpecsOf[e] :
          Store(e, [Current(e) EXCEPT !.spec = spec])
    BY <1>3 DEF UserUpdate
  <2>2. /\ [Current(e) EXCEPT !.spec = spec] \in Version
        /\ [Current(e) EXCEPT !.spec = spec].spec = spec
    BY <1>1, <1>3, SpecsAssumption DEF UserUpdate, Version, Resource
  <2>3. QED
    BY <2>1, <2>2
<1>4. CASE UserDelete(e)
  <2>1. PICK added \in {{}, {GCFinalizer}} :
          Store(e, Stored([Current(e) EXCEPT !.deleting = TRUE,
                                     !.finalizers = @ \cup added]))
    BY <1>4 DEF UserDelete
  <2> DEFINE new == [Current(e) EXCEPT !.deleting = TRUE,
                                       !.finalizers = @ \cup added]
  <2>2. /\ new \in Resource /\ new.spec = Current(e).spec
        /\ Exists(Current(e))
    BY <1>1, <1>4 DEF UserDelete, Resource, Finalizer
  <2>3. Exists(Stored(new)) => Stored(new).spec = Current(e).spec
    BY <2>2 DEF Stored, Exists
  <2>4. QED
    BY <2>1, <2>2, <2>3, StoredType
<1>5. CASE CollectorRelease(e)
  <2> DEFINE new == [Current(e) EXCEPT !.finalizers = @ \ {GCFinalizer}]
  <2>1. /\ new \in Resource /\ new.spec = Current(e).spec
        /\ Exists(Current(e))
    BY <1>1, <1>5 DEF CollectorRelease, Resource, Finalizer
  <2>2. Exists(Stored(new)) => Stored(new).spec = Current(e).spec
    BY <2>1 DEF Stored, Exists
  <2>3. QED
    BY <1>5, <2>1, <2>2, StoredType DEF CollectorRelease
<1>6. QED
  BY <1>2, <1>3, <1>4, <1>5 DEF User

LEMMA BaseInvUsers ==
  ASSUME BaseInv, NEW e \in Resources, User(e) \/ CollectorRelease(e)
  PROVE  BaseInv'
<1>1. PICK version \in Version : Store(e, version)
  BY UsersStoreVersion
<1>2. operations' \in 0..MaxOperations
  BY BoundAssumption
  DEF User, UserCreate, UserUpdate, UserDelete, CollectorRelease, Operation,
      BaseInv, TypeOK
<1>3. UNCHANGED <<services, topo, queue, pc, request, resource, topoFresh,
                  outages, faults>>
  BY DEF User, UserCreate, UserUpdate, UserDelete, CollectorRelease, Operation
<1>4. QED
  BY <1>1, <1>2, <1>3, ServerWriteType

(* The caches, onos-topo and its other clients, and restarts.              *)
LEMMA BaseInvEnvironment ==
  ASSUME BaseInv,
         \/ \E e \in Resources : Deliver(e)
         \/ \E u \in URIs : TopoClientWrite(u)
         \/ Resync \/ TopoInstall \/ TopoUninstall
         \/ Restart
  PROVE  BaseInv'
<1> USE BoundAssumption DEF BaseInv
<1>1. ASSUME NEW e \in Resources, Deliver(e)
      PROVE  BaseInv'
  <2>1. /\ versions[e] \in Seq(Version) /\ Len(versions[e]) > 1
        /\ versions' = [versions EXCEPT ![e] = Tail(@)]
        /\ versions \in [Resources -> Seq(Version)]
    BY <1>1 DEF Deliver, TypeOK, Version
  <2>2. Tail(versions[e]) \in Seq(Version) /\ Len(Tail(versions[e])) > 0
    BY <2>1, TailLast
  <2>3. versions' \in [Resources -> Seq(Version)]
        /\ \A d \in Resources : Len(versions'[d]) > 0
    BY <2>1, <2>2 DEF TypeOK
  <2>4. queue' \in [Workers -> SUBSET Resources]
    BY <1>1 DEF Deliver, TypeOK
  <2>5. TypeOK'
    BY <1>1, <2>3, <2>4 DEF Deliver, TypeOK, Version
  <2>6. QED
    BY <1>1, <2>5 DEF Deliver, CopyInv, Busy
<1>2. ASSUME NEW u \in URIs, TopoClientWrite(u)
      PROVE  BaseInv'
  <2>1. TypeOK'
    BY <1>2 DEF TopoClientWrite, Touch, TypeOK
  <2>2. QED
    BY <1>2, <2>1
    DEF TopoClientWrite, Touch, CopyInv, Busy
<1>3. CASE Resync
  <2>1. queue' \in [Workers -> SUBSET Resources]
    BY <1>3 DEF Resync, TypeOK, Requests
  <2>2. TypeOK'
    BY <1>3, <2>1 DEF Resync, TypeOK
  <2>3. QED
    BY <1>3, <2>2 DEF Resync, CopyInv, Busy
<1>4. CASE TopoInstall
  <2>1. services' \in Seq({"up", "down"}) /\ Len(services') > 0
    BY <1>4, AppendLast DEF TopoInstall, TypeOK
  <2>2. TypeOK'
    BY <1>4, <2>1 DEF TopoInstall, TypeOK
  <2>3. QED
    BY <1>4, <2>2 DEF TopoInstall, CopyInv, Busy
<1>5. CASE TopoUninstall
  <2>1. services' \in Seq({"up", "down"}) /\ Len(services') > 0
    BY <1>5, AppendLast DEF TopoUninstall, TypeOK
  <2>2. topo' \in [URIs -> Aspects \cup {NoObject}]
        /\ topoFresh' \subseteq Workers /\ outages' \in 0..MaxOutages
    BY <1>5 DEF TopoUninstall, TypeOK
  <2>3. TypeOK'
    BY <1>5, <2>1, <2>2 DEF TopoUninstall, TypeOK
  <2>4. QED
    BY <1>5, <2>3 DEF TopoUninstall, CopyInv, Busy
<1>6. CASE Restart
  <2>1. versions' \in [Resources -> Seq(Version)]
        /\ \A e \in Resources : Len(versions'[e]) > 0
    BY <1>6, CurrentType, OneElement DEF Restart
  <2>2. services' \in Seq({"up", "down"}) /\ Len(services') > 0
    <3>1. Last(services) \in {"up", "down"}
      BY LastElement DEF TypeOK
    <3>2. QED
      BY <1>6, <3>1, OneElement DEF Restart
  <2>3. TypeOK'
    BY <1>6, <2>1, <2>2 DEF Restart, Fault, TypeOK, Version, PCs
  <2>4. QED
    BY <1>6, <2>3 DEF Restart, CopyInv, Busy
<1>7. QED
  BY <1>1, <1>2, <1>3, <1>4, <1>5, <1>6

(* The server takes the copy of a busy worker with a new state or with     *)
(* other finalizers.                                                       *)
LEMMA EditedCopyType ==
  ASSUME BaseInv, NEW w \in Workers, Busy(w)
  PROVE  /\ \A state \in States : [resource[w] EXCEPT !.state = state] \in Resource
         /\ [resource[w] EXCEPT
               !.finalizers = AddFinalizer(@, TopoFinalizer)] \in Resource
         /\ [resource[w] EXCEPT
               !.finalizers = RemoveFinalizer(@, TopoFinalizer)] \in Resource
<1>1. resource[w] \in Resource /\ resource[w].finalizers \in SUBSET Finalizer
  BY CopyType DEF BaseInv
<1>2. QED
  BY <1>1, FinalizerTypes DEF Resource

(* Fetching a resource from the cache.                                     *)
LEMMA TakeEffect ==
  ASSUME BaseInv, NEW w \in Workers, NEW e \in Resources, Take(w, e)
  PROVE  BaseInv'
<1>1. CASE Skip(w, e)
  <2>1. TypeOK'
    BY <1>1 DEF Skip, BaseInv, TypeOK
  <2>2. QED
    BY <1>1, <2>1 DEF Skip, BaseInv, CopyInv, Busy
<1>2. CASE Fetch(w, e)
  <2>1. Cached(e) \in Resource
    BY <1>2, CurrentType DEF Fetch, BaseInv
  <2>2. /\ pc[w] = "idle" /\ pc' = [pc EXCEPT ![w] = "service"]
        /\ request' = [request EXCEPT ![w] = e]
        /\ resource' = [resource EXCEPT ![w] = Cached(e)]
        /\ queue' = [queue EXCEPT ![w] = @ \ {e}]
        /\ fresh' \subseteq fresh \cup {w}
        /\ UNCHANGED <<versions, services, topo, topoFresh, operations,
                       outages, faults>>
    BY <1>2 DEF Fetch
  <2>3. TypeOK'
    BY <2>1, <2>2 DEF BaseInv, TypeOK, PCs
  <2>4. CopyInv'
    BY <1>2, <2>2, <2>1, NothingIsNoResource
    DEF Fetch, BaseInv, TypeOK, CopyInv, Busy, Exists
  <2>5. QED
    BY <2>3, <2>4 DEF BaseInv
<1>3. QED
  BY <1>1, <1>2 DEF Take

(* A call to onos-topo that fails.                                         *)
LEMMA CallFailsEffect ==
  ASSUME BaseInv, NEW w \in Workers, CallFails(w)
  PROVE  /\ BaseInv'
         /\ pc'[w] = "idle"
         /\ \A x \in Workers : x # w =>
              /\ pc'[x] = pc[x] /\ request'[x] = request[x]
              /\ resource'[x] = resource[x]
         /\ fresh' \subseteq fresh
         /\ UNCHANGED <<versions, services, topo>>
<1>1. Busy(w) /\ Return(w, Requeue)
  BY DEF CallFails, Busy
<1>2. WorkerTypeOK' /\ CopyInv' /\ pc'[w] = "idle"
      /\ \A x \in Workers : x # w =>
           /\ pc'[x] = pc[x] /\ request'[x] = request[x]
           /\ resource'[x] = resource[x]
  BY <1>1, ReturnEffect DEF BaseInv
<1>3. /\ UNCHANGED <<versions, services, topo, operations, outages>>
      /\ fresh' \subseteq fresh /\ topoFresh' \subseteq Workers
      /\ faults' \in 0..MaxFaults
  BY BoundAssumption DEF CallFails, Drop, Fault, BaseInv, TypeOK
<1>4. TypeOK'
  BY <1>2, <1>3 DEF BaseInv, TypeOK, WorkerTypeOK, Version
<1>5. QED
  BY <1>2, <1>3, <1>4 DEF BaseInv

(* The answer of onos-topo, or the loss of it.                             *)
LEMMA ReplyEffect ==
  ASSUME BaseInv, NEW w \in Workers, Busy(w),
         NEW label \in PCs \ {"idle"}, Reply(w, label)
  PROVE  /\ WorkerTypeOK' /\ CopyInv'
         /\ pc'[w] \in {label, "idle"}
         /\ \A x \in Workers : x # w =>
              /\ pc'[x] = pc[x] /\ request'[x] = request[x]
              /\ resource'[x] = resource[x]
         /\ fresh' \subseteq fresh
         /\ faults' \in 0..MaxFaults
         /\ UNCHANGED <<versions, services, operations, outages>>
<1>1. CASE Goto(w, label) /\ UNCHANGED faults
  BY <1>1, GotoEffect DEF BaseInv, TypeOK, Reply, Goto
<1>2. CASE Fault /\ Return(w, Requeue) /\ Drop(w)
  BY <1>2, ReturnEffect, BoundAssumption
  DEF BaseInv, TypeOK, Reply, Fault, Drop
<1>3. QED
  BY <1>1, <1>2 DEF Reply

(* What a write at the server leaves there.                                *)
LEMMA StoreCurrent ==
  ASSUME TypeOK, NEW e \in Resources, NEW version \in Version,
         Store(e, version)
  PROVE  /\ Current(e)' = version
         /\ ToSet(versions'[e]) = ToSet(versions[e]) \cup {version}
         /\ \A d \in Resources : d # e => /\ versions'[d] = versions[d]
                                          /\ Current(d)' = Current(d)
BY StoreEffect DEF Current

-----------------------------------------------------------------------------
(* The specs that may still be seen, and the objects written for them.     *)

(* The conjuncts of SpecInv, and what keeps the first one.                 *)
SpecVersions ==
  \A e \in Resources : \A version \in ToSet(versions[e]) :
    Exists(version) => version.spec \in SpecsOf[e]

SpecCopies ==
  \A w \in Workers : Busy(w) => resource[w].spec \in SpecsOf[request[w]]

LEMMA SpecParts == SpecInv <=> SpecVersions /\ SpecCopies
BY DEF SpecInv, SpecVersions, SpecCopies

LEMMA SpecNextParts == SpecInv' <=> SpecVersions' /\ SpecCopies'
BY DEF SpecInv, SpecVersions, SpecCopies

LEMMA SpecVersionsKept ==
  ASSUME SpecVersions,
         \A e \in Resources : \A version \in ToSet(versions'[e]) :
           Exists(version) => \/ version \in ToSet(versions[e])
                              \/ version.spec \in SpecsOf[e]
  PROVE  SpecVersions'
BY DEF SpecVersions, Exists

(* An object carries the aspects that were written to it.                  *)
LEMMA WrittenCarries ==
  ASSUME NEW object \in Aspects, NEW aspects \in Aspects
  PROVE  Carries(SetAspects(object, aspects), aspects)
BY DEF Carries, SetAspects, Aspects

-----------------------------------------------------------------------------
(* No resource is forgotten while a worker works on it.                    *)

(* The step leaves worker w idle, or on the same request, and does not     *)
(* take away what makes it come back to that request.                      *)
Undisturbed(w) ==
  pc'[w] # "idle" =>
    /\ Busy(w) /\ request'[w] = request[w]
    /\ Alerted(w) => Alerted(w)'
    /\ w \in fresh /\ w \notin fresh' => Alerted(w)'

LEMMA OutdatedKept ==
  ASSUME OutdatedInv, \A w \in Workers : Undisturbed(w)
  PROVE  OutdatedInv'
BY DEF OutdatedInv, Undisturbed, Busy

(* A version that is stored is an event to come.                           *)
LEMMA StoreLengths ==
  ASSUME TypeOK, NEW e \in Resources, NEW version \in Version,
         Store(e, version)
  PROVE  /\ version # Current(e) => Len(versions'[e]) > 1
         /\ version = Current(e) => versions' = versions /\ fresh' = fresh
         /\ \A d \in Resources : Len(versions'[d]) = 1 =>
              versions'[d] = versions[d]
         /\ \A d \in Resources : Len(versions[d]) > 1 => Len(versions'[d]) > 1
         /\ \A w \in fresh : w \notin fresh' =>
              request[w] = e /\ Len(versions'[e]) > 1
<1>1. /\ versions \in [Resources -> Seq(Version)]
      /\ \A d \in Resources : Len(versions[d]) > 0 /\ Len(versions[d]) \in Nat
  BY DEF TypeOK, Version
<1>2. CASE version = Current(e)
  BY <1>2 DEF Store
<1>3. CASE version # Current(e)
  <2>1. /\ versions' = [versions EXCEPT ![e] = Append(@, version)]
        /\ fresh' = {w \in fresh : request[w] # e}
    BY <1>3 DEF Store
  <2>2. versions'[e] = Append(versions[e], version)
    BY <1>1, <2>1
  <2>3. /\ Len(versions'[e]) = Len(versions[e]) + 1
        /\ Len(versions'[e]) > 1 /\ Len(versions'[e]) # 1
    BY <1>1, <2>2, AppendLast
  <2>4. \A d \in Resources : d # e => versions'[d] = versions[d]
    BY <1>1, <2>1
  <2>5. QED
    BY <1>1, <1>3, <2>1, <2>3, <2>4
<1>4. QED
  BY <1>2, <1>3

(* A write at the server disturbs nobody.                                  *)
LEMMA StoreUndisturbed ==
  ASSUME BaseInv, NEW e \in Resources, NEW version \in Version,
         Store(e, version),
         \A w \in Workers : pc'[w] # "idle" =>
           /\ pc'[w] = pc[w] /\ request'[w] = request[w]
           /\ queue'[w] = queue[w]
  PROVE  \A w \in Workers : Undisturbed(w)
<1> SUFFICES ASSUME NEW w \in Workers, pc'[w] # "idle"
             PROVE  /\ Busy(w) /\ request'[w] = request[w]
                    /\ Alerted(w) => Alerted(w)'
                    /\ w \in fresh /\ w \notin fresh' => Alerted(w)'
  BY DEF Undisturbed
<1>1. /\ Busy(w) /\ request'[w] = request[w] /\ queue'[w] = queue[w]
      /\ request[w] \in Resources
  BY DEF Busy, BaseInv, CopyInv
<1>2. QED
  BY <1>1, StoreLengths DEF BaseInv, Alerted

(* Nor does a step that stores nothing and forgets no request.             *)
LEMMA NoStoreUndisturbed ==
  ASSUME \A w \in Workers : pc'[w] # "idle" =>
           /\ Busy(w) /\ request'[w] = request[w]
           /\ queue[w] \subseteq queue'[w]
           /\ w \in fresh => w \in fresh',
         UNCHANGED versions
  PROVE  \A w \in Workers : Undisturbed(w)
BY DEF Undisturbed, Alerted

(* A reconcile that returns leaves the queues, and may add its request.    *)
LEMMA ReturnQueue ==
  ASSUME BaseInv, NEW w \in Workers, NEW again, Busy(w), Return(w, again)
  PROVE  /\ \A x \in Workers : queue[x] \subseteq queue'[x]
         /\ \A x \in Workers : x # w =>
              queue'[x] = queue[x] /\ request'[x] = request[x]
         /\ again => request[w] \in queue'[w]
<1>1. /\ queue' = [queue EXCEPT ![w] = @ \cup {r \in {request[w]} : again}]
      /\ queue \in [Workers -> SUBSET Resources]
      /\ request' = [request EXCEPT ![w] = NoRequest]
      /\ request \in [Workers -> Resources \cup {NoRequest}]
  BY DEF Return, BaseInv, TypeOK
<1>2. queue'[w] = queue[w] \cup {r \in {request[w]} : again}
  BY <1>1
<1>3. \A x \in Workers : x # w =>
        queue'[x] = queue[x] /\ request'[x] = request[x]
  BY <1>1
<1>4. QED
  BY <1>2, <1>3

(* What a write of a worker leaves for others to see.                      *)
LEMMA WriteVersions ==
  ASSUME BaseInv, NEW w \in Workers, Busy(w),
         NEW version \in Resource, NEW again, Write(w, version, again)
  PROVE  /\ \A x \in Workers : Undisturbed(x)
         /\ \A d \in Resources :
              Len(versions'[d]) = 1 => versions'[d] = versions[d]
         /\ \A x \in Workers : queue[x] \subseteq queue'[x]
         /\ \A x \in Workers : x # w =>
              queue'[x] = queue[x] /\ request'[x] = request[x]
         /\ again \/ w \notin fresh \/ Stored(version) # Current(request[w]) =>
              request[w] \in queue'[w] \/ Len(versions'[request[w]]) > 1
<1>1. /\ request[w] \in Resources /\ Stored(version) \in Version
      /\ versions \in [Resources -> Seq(Version)]
  BY CopyType, StoredType DEF BaseInv, TypeOK, Version
<1>2. /\ pc'[w] = "idle"
      /\ \A x \in Workers : x # w =>
           /\ pc'[x] = pc[x] /\ request'[x] = request[x]
           /\ queue'[x] = queue[x]
      /\ \A x \in Workers : queue[x] \subseteq queue'[x]
      /\ again => request[w] \in queue'[w]
  <2>1. Return(w, again) \/ (~again /\ Return(w, Requeue))
        \/ (again /\ Return(w, Requeue))
    BY DEF Write
  <2>2. QED
    BY <2>1, ReturnQueue, ReturnEffect DEF BaseInv, Requeue
<1>3. CASE w \in fresh /\ Store(request[w], Stored(version))
  <2>1. \A x \in Workers : Undisturbed(x)
    BY <1>1, <1>2, <1>3, StoreUndisturbed
  <2>2. /\ \A d \in Resources : Len(versions'[d]) = 1 =>
             versions'[d] = versions[d]
        /\ Stored(version) # Current(request[w]) =>
             Len(versions'[request[w]]) > 1
    BY <1>1, <1>3, StoreLengths DEF BaseInv
  <2>3. QED
    BY <1>2, <1>3, <2>1, <2>2
<1>4. CASE UNCHANGED versions /\ Drop(w) /\ Return(w, Requeue)
  <2>1. \A x \in Workers : Undisturbed(x)
    BY <1>2, <1>4, NoStoreUndisturbed DEF Drop, Busy
  <2>2. request[w] \in queue'[w]
    BY <1>4, ReturnQueue DEF Requeue
  <2>3. QED
    BY <1>2, <1>4, <2>1, <2>2
<1>5. QED
  BY <1>3, <1>4 DEF Write

=============================================================================
