-------------------------- MODULE EntitySync_proofs --------------------------
(***************************************************************************)
(* The Entity controller, as long as one worker reconciles Entity          *)
(* resources, leaves an object in onos-topo without a resource to withdraw *)
(* it only when a deletion finds no Service, and implements TopologySync:  *)
(* every step is a step of the abstract specification or changes nothing   *)
(* it sees.                                                                *)
(***************************************************************************)
EXTENDS EntityObjects_proofs

-----------------------------------------------------------------------------
(* What the theorems ask of the deployment, and the parts of IInv.  There  *)
(* is one controller instance, with the one worker that controller-runtime *)
(* gives it, and users do not change URIs.  With two instances NoOrphan    *)
(* and OnlyGivenUp are false.                                              *)
SingleController == OneWorker /\ FixedURIs

(* The conjuncts of IInv that speak of the versions of resources.          *)
VersionsInv ==
  /\ \A e \in Resources : \A version \in ToSet(versions[e]) :
       Exists(version) => version.spec \in SpecsOf[e]
  /\ \A e \in Resources : \A version \in ToSet(versions[e]) :
       Exists(version) /\ Adding(version) => Held(Current(e))

(* The conjuncts of IInv that speak of the copies of workers.              *)
CopiesInv ==
  \A w \in Workers : Busy(w) =>
    /\ resource[w].spec \in SpecsOf[request[w]]
    /\ Adding(resource[w]) => Held(Current(request[w]))

LEMMA IInvParts ==
  IInv <=> CoreInv /\ VersionsInv /\ CopiesInv /\ AbsentInv /\ EarlyInv
BY DEF IInv, SpecInv, AddingInv, VersionsInv, CopiesInv

LEMMA IInvNextParts ==
  IInv' <=> CoreInv' /\ VersionsInv' /\ CopiesInv' /\ AbsentInv' /\ EarlyInv'
BY DEF IInv, SpecInv, AddingInv, VersionsInv, CopiesInv

(* A resource on its way into onos-topo answers for its object.            *)
LEMMA AddingHeld ==
  ASSUME NEW version, Exists(version), Adding(version)
  PROVE  Held(version)
BY DEF Adding, Held

(* The URI of a resource is the URI of any of its specs.                   *)
LEMMA SameURI ==
  ASSUME IInv, FixedURIs, NEW e \in Resources, NEW spec \in SpecsOf[e],
         Exists(Current(e))
  PROVE  Current(e).spec.uri = spec.uri
BY CurrentType DEF IInv, CoreInv, SpecInv, FixedURIs

(* Every resource that held its object still does, for the same URI.       *)
HoldsKept ==
  \A e \in Resources : Held(Current(e)) =>
    /\ Held(Current(e)')
    /\ Current(e)'.spec.uri = Current(e).spec.uri

(* No object becomes an orphan, except perhaps those of U.                 *)
NewOrphansIn(U) == \A u \in URIs : Orphan(u)' => Orphan(u) \/ u \in U

LEMMA HoldsKeptOrphans ==
  ASSUME HoldsKept, \A u \in URIs : topo'[u] # NoObject => topo[u] # NoObject
  PROVE  NewOrphansIn({})
<1> SUFFICES ASSUME NEW u \in URIs, topo'[u] # NoObject,
                    ~\E e \in Resources : /\ Held(Current(e)')
                                          /\ Current(e)'.spec.uri = u
             PROVE  Orphan(u)
  BY DEF NewOrphansIn, Orphan, Held, Exists, HasTopoFinalizer, Current
<1>1. \A e \in Resources : ~(Held(Current(e)) /\ Current(e).spec.uri = u)
  BY DEF HoldsKept
<1>2. QED
  BY <1>1 DEF Orphan

(* Without new orphans the step is right.                                  *)
LEMMA NoNewOrphans ==
  ASSUME NewOrphansIn({})
  PROVE  OrphansGivenUp
BY DEF NewOrphansIn, OrphansGivenUp

(* A write that does not end the hold of its resource.                     *)
LEMMA KeepHold ==
  ASSUME IInv, FixedURIs, NEW e \in Resources, NEW version \in Version,
         Store(e, version),
         Exists(version) => version.spec \in SpecsOf[e],
         Held(Current(e)) => Held(version)
  PROVE  HoldsKept /\ VersionsInv'
<1>1. /\ Current(e)' = version
      /\ ToSet(versions'[e]) = ToSet(versions[e]) \cup {version}
      /\ \A d \in Resources : d # e => /\ versions'[d] = versions[d]
                                       /\ Current(d)' = Current(d)
  BY StoreCurrent DEF IInv, CoreInv
<1>2. HoldsKept
  <2>1. SUFFICES ASSUME Held(Current(e))
                 PROVE  version.spec.uri = Current(e).spec.uri
    BY <1>1 DEF HoldsKept
  <2>2. Exists(Current(e)) /\ Exists(version)
    BY <2>1 DEF Held
  <2>3. QED
    BY <2>2, SameURI
<1>3. VersionsInv'
  <2>1. SUFFICES ASSUME NEW d \in Resources, NEW v \in ToSet(versions'[d]),
                        Exists(v)
                 PROVE  /\ v.spec \in SpecsOf[d]
                        /\ Adding(v) => Held(Current(d)')
    BY DEF VersionsInv, Held, Adding, Exists, HasTopoFinalizer, Current
  <2>2. CASE v \in ToSet(versions[d])
    BY <1>1, <1>2, <2>1, <2>2, IInvParts DEF VersionsInv, HoldsKept
  <2>3. CASE v \notin ToSet(versions[d])
    BY <1>1, <2>1, <2>3, AddingHeld
  <2>4. QED
    BY <2>2, <2>3
<1>4. QED
  BY <1>2, <1>3

(***************************************************************************)
(* A worker's write that ends the hold: the copy was fresh and to be       *)
(* deleted, so nobody can still see the resource as Adding, and only its   *)
(* object may lose the last hold.                                          *)
(***************************************************************************)
LEMMA EndHold ==
  ASSUME IInv, FixedURIs, NEW w \in Workers, Busy(w), w \in fresh,
         resource[w].deleting, topo' = topo,
         NEW e \in Resources, e = request[w],
         NEW version \in Version, Store(e, version),
         Exists(version) => /\ version.deleting
                            /\ version.spec = resource[w].spec
  PROVE  NewOrphansIn({ObjectID(w)}) /\ VersionsInv'
<1>1. Exists(resource[w]) /\ Current(e) = resource[w]
      /\ ToSet(versions[e]) = {resource[w]} /\ resource[w].spec \in SpecsOf[e]
  BY FreshCopy DEF IInv, CoreInv, CopyInv, SpecInv
<1>2. /\ Current(e)' = version
      /\ ToSet(versions'[e]) = ToSet(versions[e]) \cup {version}
      /\ \A d \in Resources : d # e => /\ versions'[d] = versions[d]
                                       /\ Current(d)' = Current(d)
  BY <1>1, StoreCurrent DEF IInv, CoreInv
<1>3. VersionsInv'
  <2>1. SUFFICES ASSUME NEW d \in Resources, NEW v \in ToSet(versions'[d]),
                        Exists(v)
                 PROVE  /\ v.spec \in SpecsOf[d]
                        /\ Adding(v) => Held(Current(d)')
    BY DEF VersionsInv, Held, Adding, Exists, HasTopoFinalizer, Current
  <2>2. CASE d = e
    BY <1>1, <1>2, <2>1, <2>2 DEF Adding
  <2>3. CASE d # e
    BY <1>2, <2>1, <2>3, IInvParts DEF VersionsInv
  <2>4. QED
    BY <2>2, <2>3
<1>4. NewOrphansIn({ObjectID(w)})
  <2>1. SUFFICES ASSUME NEW u \in URIs, topo[u] # NoObject, u # ObjectID(w),
                        ~\E d \in Resources : /\ Held(Current(d)')
                                              /\ Current(d)'.spec.uri = u
                 PROVE  Orphan(u)
    BY DEF NewOrphansIn, Orphan, Held, Exists, HasTopoFinalizer, Current
  <2>2. \A d \in Resources : ~(Held(Current(d)) /\ Current(d).spec.uri = u)
    BY <1>1, <1>2, <2>1 DEF ObjectID
  <2>3. QED
    BY <2>1, <2>2 DEF Orphan
<1>5. QED
  BY <1>3, <1>4

(* With one worker, its return leaves nobody with a copy.                  *)
LEMMA AllIdle ==
  ASSUME SingleController, NEW w \in Workers, pc'[w] = "idle"
  PROVE  CopiesInv' /\ AbsentInv'
<1>1. \A x \in Workers : x = w
  BY DEF SingleController, OneWorker
<1>2. QED
  BY <1>1 DEF CopiesInv, AbsentInv, Busy

(* Steps that leave the workers alone and end no hold.                     *)
LEMMA WorkersAlone ==
  ASSUME IInv, HoldsKept, UNCHANGED <<pc, request, resource>>
  PROVE  CopiesInv'
<1>1. SUFFICES ASSUME NEW w \in Workers, Busy(w),
                      NEW e \in Resources, e = request[w]
               PROVE  /\ resource[w].spec \in SpecsOf[e]
                      /\ Adding(resource[w]) => Held(Current(e)')
  BY DEF IInv, CoreInv, CopyInv, CopiesInv, Busy, Held, Adding, Exists,
         HasTopoFinalizer, Current
<1>2. resource[w].spec \in SpecsOf[e] /\ (Adding(resource[w]) => Held(Current(e)))
  BY <1>1, IInvParts DEF CopiesInv
<1>3. QED
  BY <1>2 DEF HoldsKept

-----------------------------------------------------------------------------
(* Every step preserves IInv, and leaves orphans as OnlyGivenUp says.      *)

(* Steps that create no object.                                            *)
LEMMA EarlyKept ==
  ASSUME EarlyInv, UNCHANGED <<services, outages>>,
         \A u \in URIs : topo'[u] # NoObject => topo[u] # NoObject,
         \A w \in Workers :
           pc'[w] \in {"exists", "update", "create", "notFound"}
           => pc'[w] = pc[w]
  PROVE  EarlyInv'
BY DEF EarlyInv


(* Users and the garbage collector.                                        *)
LEMMA UsersOrphans ==
  ASSUME IInv, SingleController, NEW e \in Resources,
         User(e) \/ CollectorRelease(e)
  PROVE  IInv' /\ OrphansGivenUp
<1>1. /\ UNCHANGED <<services, topo, pc, request, resource, outages>>
      /\ CoreInv' /\ CoreInv /\ FixedURIs
  BY UsersCore
  DEF IInv, User, UserCreate, UserUpdate, UserDelete, CollectorRelease,
      Operation, SingleController
<1>2. Exists(Current(e)) => Current(e).spec \in SpecsOf[e]
  BY <1>1, CurrentType DEF CoreInv, IInv, SpecInv
<1>3. \E version \in Version :
        /\ Store(e, version)
        /\ Exists(version) => version.spec \in SpecsOf[e]
        /\ Held(Current(e)) => Held(version)
  BY <1>1, <1>2, UsersEdit DEF UserEdit, CoreInv
<1>4. HoldsKept /\ VersionsInv'
  BY <1>1, <1>3, KeepHold
<1>5. OrphansGivenUp /\ CopiesInv'
  BY <1>1, <1>4, HoldsKeptOrphans, NoNewOrphans, WorkersAlone
<1>6. AbsentInv' /\ EarlyInv'
  BY <1>1, EarlyKept DEF IInv, AbsentInv, ObjectID
<1>7. QED
  BY <1>1, <1>4, <1>5, <1>6, IInvNextParts

(* Steps that store nothing: every version there is was there before.      *)
LEMMA NothingStored ==
  ASSUME IInv, \A e \in Resources : Current(e)' = Current(e),
         \A e \in Resources : ToSet(versions'[e]) \subseteq ToSet(versions[e])
  PROVE  HoldsKept /\ VersionsInv'
<1>1. HoldsKept
  BY DEF HoldsKept
<1>2. VersionsInv'
  <2>1. SUFFICES ASSUME NEW e \in Resources, NEW v \in ToSet(versions'[e]),
                        Exists(v)
                 PROVE  /\ v.spec \in SpecsOf[e]
                        /\ Adding(v) => Held(Current(e)')
    BY DEF VersionsInv, Held, Adding, Exists, HasTopoFinalizer, Current
  <2>2. QED
    BY <2>1, IInvParts DEF VersionsInv
<1>3. QED
  BY <1>1, <1>2

(* A worker that gives up, unless there are no objects.                    *)
GivesUp(w) == GivingUp(w) /\ outages > 0

LEMMA GivingUpEarly ==
  ASSUME IInv, NEW w \in Workers, GivingUp(w), ObjectID(w) \in URIs
  PROVE  topo[ObjectID(w)] = NoObject \/ GivesUp(w)
<1>1. outages \in Nat
  BY BoundAssumption DEF IInv, CoreInv, TypeOK
<1>2. QED
  BY <1>1 DEF IInv, EarlyInv, GivingUp, GivesUp

(* A write of the worker: it keeps the hold, or the object is gone, or     *)
(* taken for gone.                                                         *)
LEMMA WriteOrphans ==
  ASSUME IInv, SingleController, CoreInv',
         NEW w \in Workers, Busy(w), NEW version \in Resource,
         version.spec = resource[w].spec, NEW again, Write(w, version, again),
         \/ Held(resource[w]) => Held(Stored(version))
         \/ /\ resource[w].deleting /\ version.deleting
            /\ topo[ObjectID(w)] = NoObject \/ GivesUp(w)
  PROVE  IInv' /\ OrphansGivenUp
<1>1. /\ UNCHANGED <<services, topo, outages>> /\ pc'[w] = "idle"
      /\ \A x \in Workers : x = w
  <2>1. Return(w, again) \/ Return(w, Requeue)
    BY DEF Write
  <2>2. QED
    BY <2>1, ReturnEffect
    DEF IInv, CoreInv, Write, SingleController, OneWorker
<1>2. CopiesInv' /\ AbsentInv' /\ EarlyInv'
  <2>1. EarlyInv'
    BY <1>1, EarlyKept DEF IInv
  <2>2. QED
    BY <1>1, <2>1, AllIdle
<1>3. PICK e \in Resources : e = request[w] /\ resource[w].spec \in SpecsOf[e]
  BY DEF IInv, CoreInv, CopyInv, SpecInv
<1>4. OrphansGivenUp /\ VersionsInv'
  <2>1. CASE w \in fresh /\ Store(request[w], Stored(version))
    <3>1. /\ Stored(version) \in Version /\ Current(e) = resource[w]
          /\ Exists(Stored(version)) => Stored(version) = version
      BY <1>3, <2>1, StoredType, FreshCopy, StoredHeld, NothingIsNoResource
      DEF IInv
    <3>2. CASE Held(resource[w]) => Held(Stored(version))
      <4>1. HoldsKept /\ VersionsInv'
        BY <1>3, <2>1, <3>1, <3>2, KeepHold DEF SingleController
      <4>2. QED
        BY <1>1, <4>1, HoldsKeptOrphans, NoNewOrphans
    <3>3. CASE /\ resource[w].deleting /\ version.deleting
               /\ topo[ObjectID(w)] = NoObject \/ GivesUp(w)
      <4>1. NewOrphansIn({ObjectID(w)}) /\ VersionsInv'
        BY <1>1, <1>3, <2>1, <3>1, <3>3, EndHold DEF SingleController
      <4>2. OrphansGivenUp
        BY <1>1, <3>3, <4>1 DEF NewOrphansIn, OrphansGivenUp, Orphan, GivesUp
      <4>3. QED
        BY <4>1, <4>2
    <3>4. QED
      BY <3>2, <3>3
  <2>2. CASE UNCHANGED versions
    <3>1. HoldsKept /\ VersionsInv'
      BY <2>2, NothingStored DEF Current
    <3>2. QED
      BY <1>1, <3>1, HoldsKeptOrphans, NoNewOrphans
  <2>3. QED
    BY <2>1, <2>2 DEF Write
<1>5. QED
  BY <1>2, <1>4, IInvNextParts

LEMMA WritesOrphans ==
  ASSUME IInv, SingleController, NEW w \in Workers, Writes(w)
  PROVE  IInv' /\ OrphansGivenUp
<1>1. Busy(w) /\ CoreInv' /\ CoreInv /\ TypeInv
  BY WritesCore, CoreInvParts
  DEF IInv, Writes, SetPending, Abandon, SetAdding, AddTopoFinalizer,
      SetAdded, SetRemoving, SetRemoved, Release, Busy
<1>2. /\ resource[w] \in Resource /\ Exists(resource[w])
      /\ resource[w].finalizers \in SUBSET Finalizer
      /\ resource[w].deleting \in BOOLEAN
      /\ ObjectID(w) \in URIs
  BY <1>1, CopyType DEF CoreInv, CopyInv
<1>3. ASSUME NEW state \in States, NEW again,
             Write(w, [resource[w] EXCEPT !.state = state], again),
             \/ state # "Removed"
             \/ resource[w].deleting /\ topo[ObjectID(w)] = NoObject
      PROVE  IInv' /\ OrphansGivenUp
  <2> DEFINE new == [resource[w] EXCEPT !.state = state]
  <2>1. /\ new \in Resource /\ new.state = state /\ new.spec = resource[w].spec
        /\ new.deleting = resource[w].deleting
        /\ new.finalizers = resource[w].finalizers
    BY <1>1, <1>2, EditedCopyType DEF TypeInv, BaseInv, Resource
  <2>2. CASE state # "Removed"
    <3>1. Held(resource[w]) => Held(Stored(new))
      <4>1. HAVE Held(resource[w])
      <4>2. HasTopoFinalizer(new) /\ new.state # "Removed"
        BY <2>1, <2>2, <4>1 DEF Held, HasTopoFinalizer
      <4>3. QED
        BY <2>1, <4>2, StoredHeld, NothingIsNoResource
    <3>2. QED
      BY <1>1, <1>3, <2>1, <3>1, WriteOrphans
  <2>3. CASE resource[w].deleting /\ topo[ObjectID(w)] = NoObject
    BY <1>1, <1>3, <2>1, <2>3, WriteOrphans
  <2>4. QED
    BY <1>3, <2>2, <2>3
<1>4. CASE SetPending(w) \/ SetAdding(w) \/ SetAdded(w) \/ SetRemoving(w)
  BY <1>3, <1>4 DEF SetPending, SetAdding, SetAdded, SetRemoving, WriteState,
                    States
<1>5. CASE SetRemoved(w)
  <2>1. resource[w].deleting /\ topo[ObjectID(w)] = NoObject
    BY <1>5 DEF SetRemoved, IInv, AbsentInv, CoreInv, PathInv, Removing
  <2>2. QED
    BY <1>3, <1>5, <2>1 DEF SetRemoved, WriteState, States
<1>6. CASE AddTopoFinalizer(w)
  <2> DEFINE new == [resource[w] EXCEPT
                       !.finalizers = AddFinalizer(@, TopoFinalizer)]
  <2>1. /\ new \in Resource /\ new.state = resource[w].state
        /\ new.spec = resource[w].spec
        /\ new.finalizers = AddFinalizer(resource[w].finalizers, TopoFinalizer)
    BY <1>1, <1>2, EditedCopyType DEF TypeInv, BaseInv, Resource
  <2>2. Held(resource[w]) => Held(Stored(new))
    BY <2>1, StoredHeld, NothingIsNoResource
    DEF Held, HasTopoFinalizer, HasFinalizer, AddFinalizer
  <2>3. QED
    BY <1>1, <1>6, <2>1, <2>2, WriteOrphans DEF AddTopoFinalizer
<1>7. CASE Abandon(w) \/ Release(w)
  <2> DEFINE new == [resource[w] EXCEPT
                       !.finalizers = RemoveFinalizer(@, TopoFinalizer)]
  <2>1. /\ new \in Resource /\ new.spec = resource[w].spec
        /\ new.deleting = resource[w].deleting
    BY <1>1, <1>2, EditedCopyType DEF TypeInv, BaseInv, Resource
  <2>2. PICK again \in {Done, Requeue} : Write(w, new, again)
    BY <1>7 DEF Abandon, Release
  <2>3. CASE Abandon(w)
    <3>1. /\ resource[w].deleting
          /\ topo[ObjectID(w)] = NoObject \/ GivesUp(w)
      BY <1>2, <2>3, GivingUpEarly DEF Abandon, GivingUp
    <3>2. QED
      BY <1>1, <2>1, <2>2, <3>1, WriteOrphans
  <2>4. CASE Release(w)
    <3>1. ~Held(resource[w])
      BY <2>4 DEF Release, Held
    <3>2. QED
      BY <1>1, <2>1, <2>2, <3>1, WriteOrphans
  <2>5. QED
    BY <1>7, <2>3, <2>4
<1>8. QED
  BY <1>4, <1>5, <1>6, <1>7 DEF Writes

(* A copy fetched from the cache is a version that VersionsInv speaks of.  *)
LEMMA TakeOrphans ==
  ASSUME IInv, SingleController, NEW w \in Workers, NEW e \in Resources,
         Take(w, e)
  PROVE  IInv' /\ OrphansGivenUp
<1>1. /\ CoreInv' /\ \A d \in Resources : Current(d)' = Current(d)
      /\ UNCHANGED <<versions, services, topo, outages>>
      /\ \A x \in Workers : pc'[x] = pc[x] \/ pc'[x] = "service"
  BY TakeCore DEF IInv, CoreInv, TypeOK, Take, Skip, Fetch
<1>2. HoldsKept /\ VersionsInv'
  BY <1>1, NothingStored
<1>3. OrphansGivenUp /\ EarlyInv'
  BY <1>1, <1>2, HoldsKeptOrphans, NoNewOrphans, EarlyKept DEF IInv
<1>4. CASE Skip(w, e)
  <2>1. UNCHANGED <<pc, request, resource>>
    BY <1>4 DEF Skip
  <2>2. CopiesInv' /\ AbsentInv'
    BY <1>1, <1>2, <2>1, WorkersAlone DEF IInv, AbsentInv, ObjectID
  <2>3. QED
    BY <1>1, <1>2, <1>3, <2>2, IInvNextParts
<1>5. CASE Fetch(w, e)
  <2>1. /\ pc'[w] = "service" /\ request'[w] = e /\ resource'[w] = Cached(e)
        /\ \A x \in Workers : x = w
    BY <1>5 DEF Fetch, IInv, CoreInv, TypeOK, SingleController, OneWorker
  <2>2. Exists(Cached(e)) /\ Cached(e) \in ToSet(versions[e])
    BY <1>5, CurrentType DEF Fetch, IInv, CoreInv
  <2>3. /\ Cached(e).spec \in SpecsOf[e]
        /\ Adding(Cached(e)) => Held(Current(e)')
    BY <1>1, <2>2, IInvParts DEF VersionsInv
  <2>4. CopiesInv'
    <3>1. SUFFICES ASSUME NEW x \in Workers
                   PROVE  /\ resource'[x].spec \in SpecsOf[request'[x]]
                          /\ Adding(resource'[x]) =>
                               Held(Last(versions'[request'[x]]))
      BY DEF CopiesInv, Held, Adding, Exists, HasTopoFinalizer, Current
    <3>2. x = w
      BY <2>1
    <3>3. QED
      BY <2>1, <2>3, <3>2 DEF Current
  <2>5. AbsentInv'
    BY <2>1 DEF AbsentInv
  <2>6. QED
    BY <1>1, <1>2, <1>3, <2>4, <2>5, IInvNextParts
<1>6. QED
  BY <1>4, <1>5 DEF Take

(* After a step of the reconcile that stays on its path.                   *)
LEMMA CopyKept ==
  ASSUME IInv, SingleController, NEW w \in Workers, versions' = versions,
         \/ pc'[w] = "idle"
         \/ Busy(w) /\ request'[w] = request[w] /\ resource'[w] = resource[w]
  PROVE  CopiesInv'
<1>1. CASE pc'[w] = "idle"
  BY <1>1, AllIdle
<1>2. CASE Busy(w) /\ request'[w] = request[w] /\ resource'[w] = resource[w]
  <2>1. SUFFICES ASSUME NEW x \in Workers
                 PROVE  /\ resource'[x].spec \in SpecsOf[request'[x]]
                        /\ Adding(resource'[x]) =>
                             Held(Last(versions'[request'[x]]))
    BY DEF CopiesInv, Held, Adding, Exists, HasTopoFinalizer, Current
  <2>2. x = w
    BY DEF SingleController, OneWorker
  <2>3. /\ resource[w].spec \in SpecsOf[request[w]]
        /\ Adding(resource[w]) => Held(Last(versions[request[w]]))
    BY <1>2, IInvParts DEF CopiesInv, Current
  <2>4. QED
    BY <1>2, <2>2, <2>3
<1>3. QED
  BY <1>1, <1>2

(* The object a worker creates is that of the resource it reconciles.      *)
LEMMA CopyHolds ==
  ASSUME IInv, SingleController, NEW w \in Workers, Busy(w),
         Adding(resource[w])
  PROVE  \E e \in Resources : /\ Held(Current(e))
                              /\ Current(e).spec.uri = ObjectID(w)
<1>1. PICK e \in Resources : e = request[w]
  BY DEF IInv, CoreInv, CopyInv
<1>2. Held(Current(e)) /\ resource[w].spec \in SpecsOf[e]
  BY <1>1, IInvParts DEF CopiesInv
<1>3. QED
  BY <1>2, SameURI DEF Held, ObjectID, SingleController

(* Objects are created only by a reconcile that has found the Service.     *)
LEMMA MovesEarly ==
  ASSUME CoreInv, EarlyInv, NEW w \in Workers, Moves(w),
         \A x \in Workers : x = w, UNCHANGED <<services, outages>>,
         ObjectID(w) \in URIs, topo \in [URIs -> Aspects \cup {NoObject}]
  PROVE  EarlyInv'
<1> SUFFICES ASSUME outages = 0
             PROVE  /\ services \in {<<"up">>, <<"down">>, <<"down", "up">>}
                    /\ services # <<"up">> =>
                         /\ \A u \in URIs : topo'[u] = NoObject
                         /\ pc'[w] \notin {"exists", "update", "create"}
                    /\ pc'[w] = "notFound" =>
                         \A u \in URIs : topo'[u] = NoObject
  BY DEF EarlyInv
<1>1. /\ services \in {<<"up">>, <<"down">>, <<"down", "up">>}
      /\ services # <<"up">> =>
           /\ \A u \in URIs : topo[u] = NoObject
           /\ pc[w] \notin {"exists", "update", "create"}
      /\ pc[w] = "notFound" => \A u \in URIs : topo[u] = NoObject
  BY DEF EarlyInv
<1>2. services # <<"up">> => Head(services) = "down"
  BY <1>1
<1>3. services # <<"up">> => pc'[w] \notin {"exists", "update", "create"}
  <2>1. pc'[w] = "exists" => ConnectService(w)
    BY MovesLabels
  <2>2. pc'[w] \in {"update", "create"} => pc[w] \in {"exists", "update"}
    BY MovesLabels DEF EntityExists, UpdateEntity
  <2>3. QED
    BY <1>1, <1>2, <2>1, <2>2 DEF ConnectService
<1>4. pc[w] \notin {"update", "create"} =>
        \A u \in URIs : topo'[u] # NoObject => topo[u] # NoObject
  BY DEF Moves, ReadService, ReadServiceFails, ConnectService,
         ServiceNotFound, CallFails, Ignore, EntityExists, UpdateEntity,
         CreateEntity, DeleteEntity
<1>5. pc'[w] = "notFound" => pc[w] = "service" /\ services # <<"up">>
  <2>1. HAVE pc'[w] = "notFound"
  <2>2. ReadService(w)
    BY <2>1, MovesLabels
  <2>3. Head(services) # "up"
    BY <2>1, <2>2 DEF ReadService, Goto, CoreInv, TypeOK
  <2>4. QED
    BY <2>2, <2>3 DEF ReadService
<1>6. QED
  BY <1>1, <1>3, <1>4, <1>5

(* Steps between the fetch and the write.                                  *)
LEMMA MovesOrphans ==
  ASSUME IInv, SingleController, NEW w \in Workers, Moves(w)
  PROVE  IInv' /\ OrphansGivenUp
<1>1. /\ CoreInv' /\ CoreInv
      /\ versions' = versions /\ UNCHANGED <<services, outages>>
      /\ \/ pc'[w] = "idle"
         \/ Busy(w) /\ request'[w] = request[w] /\ resource'[w] = resource[w]
      /\ \A x \in Workers : x = w
  BY MovesCore, MovesEffect
  DEF IInv, Moves, ReadService, ReadServiceFails, ConnectService,
      ServiceNotFound, CallFails, Ignore, EntityExists, UpdateEntity,
      CreateEntity, DeleteEntity, Reply, SingleController, OneWorker
<1>2. CopiesInv' /\ HoldsKept /\ VersionsInv'
  BY <1>1, CopyKept, NothingStored DEF Current
<1>3. Busy(w) /\ ObjectID(w) \in URIs /\ topo \in [URIs -> Aspects \cup {NoObject}]
  <2>1. Busy(w)
    BY DEF Moves, ReadService, ReadServiceFails, ConnectService,
           ServiceNotFound, CallFails, Ignore, EntityExists, UpdateEntity,
           CreateEntity, DeleteEntity, Busy
  <2>2. QED
    BY <1>1, <2>1, CopyType DEF CoreInv, TypeOK
<1>4. OrphansGivenUp
  <2>1. CASE UNCHANGED topo
    BY <1>2, <2>1, HoldsKeptOrphans, NoNewOrphans
  <2>2. CASE UpdateEntity(w) /\ ~UNCHANGED topo
    <3>1. /\ topo[ObjectID(w)] # NoObject
          /\ topo' = [topo EXCEPT ![ObjectID(w)] =
                        SetAspects(@, resource[w].spec.aspects)]
      BY <1>1, <2>2 DEF UpdateEntity, CoreInv, RevisionInv
    <3>2. \A u \in URIs : topo'[u] # NoObject => topo[u] # NoObject
      BY <1>3, <3>1
    <3>3. QED
      BY <1>2, <3>2, HoldsKeptOrphans, NoNewOrphans
  <2>3. CASE DeleteEntity(w)
    <3>1. topo' = [topo EXCEPT ![ObjectID(w)] = NoObject]
      BY <2>3 DEF DeleteEntity
    <3>2. \A u \in URIs : topo'[u] # NoObject => topo[u] # NoObject
      BY <1>3, <3>1
    <3>3. QED
      BY <1>2, <3>2, HoldsKeptOrphans, NoNewOrphans
  <2>4. CASE CreateEntity(w) /\ ~UNCHANGED topo
    <3>1. /\ Adding(resource[w])
          /\ \A u \in URIs : u # ObjectID(w) => topo'[u] = topo[u]
      BY <1>1, <1>3, <2>4 DEF CreateEntity, CoreInv, PathInv
    <3>2. PICK e \in Resources : /\ Held(Current(e))
                                 /\ Current(e).spec.uri = ObjectID(w)
      BY <1>3, <3>1, CopyHolds
    <3>3. NewOrphansIn({})
      <4>1. SUFFICES ASSUME NEW u \in URIs, topo'[u] # NoObject,
                            ~\E d \in Resources :
                               /\ Held(Current(d)')
                               /\ Current(d)'.spec.uri = u
                     PROVE  Orphan(u)
        BY DEF NewOrphansIn, Orphan, Held, Exists, HasTopoFinalizer, Current
      <4>2. \A d \in Resources : ~(Held(Current(d)) /\ Current(d).spec.uri = u)
        BY <1>2, <4>1 DEF HoldsKept
      <4>3. QED
        BY <3>1, <3>2, <4>1, <4>2 DEF Orphan
    <3>4. QED
      BY <3>3, NoNewOrphans
  <2>5. QED
    BY <2>1, <2>2, <2>3, <2>4
    DEF Moves, ReadService, ReadServiceFails, ConnectService,
        ServiceNotFound, CallFails, Ignore, EntityExists
<1>5. AbsentInv'
  <2>1. CASE pc'[w] # "deleted"
    BY <1>1, <2>1 DEF AbsentInv
  <2>2. CASE pc'[w] = "deleted"
    <3>1. DeleteEntity(w)
      BY <1>1, <2>2, MovesLabels
    <3>2. topo'[ObjectID(w)] = NoObject
      BY <1>3, <3>1 DEF DeleteEntity
    <3>3. QED
      BY <1>1, <2>2, <3>2 DEF AbsentInv, ObjectID
  <2>3. QED
    BY <2>1, <2>2
<1>6. EarlyInv'
  BY <1>1, <1>3, MovesEarly DEF IInv
<1>7. QED
  BY <1>1, <1>2, <1>4, <1>5, <1>6, IInvNextParts

(* Before its first removal onos-topo is installed, and seen to be.        *)
LEMMA EnvironmentEarly ==
  ASSUME EarlyInv, outages \in Nat,
         \A u \in URIs : topo'[u] # NoObject => topo[u] # NoObject,
         UNCHANGED <<pc, request, resource>>
           \/ \A w \in Workers : pc'[w] = "idle",
         \/ \E e \in Resources : Deliver(e)
         \/ \E u \in URIs : TopoClientWrite(u)
         \/ DeliverService \/ Resync \/ TopoInstall \/ TopoUninstall
         \/ Restart
  PROVE  EarlyInv'
<1>1. CASE TopoUninstall
  <2>1. outages' # 0
    BY <1>1 DEF TopoUninstall
  <2>2. QED
    BY <2>1 DEF EarlyInv
<1>2. \A w \in Workers :
        pc'[w] \in {"exists", "update", "create", "notFound"} => pc'[w] = pc[w]
  OBVIOUS
<1>3. CASE UNCHANGED <<services, outages>>
  BY <1>2, <1>3, EarlyKept
<1>4. CASE DeliverService \/ TopoInstall \/ Restart
  <2>1. outages' = outages
    BY <1>4 DEF DeliverService, TopoInstall, Restart
  <2>2. ASSUME outages = 0
        PROVE  \/ services' = services
               \/ services' = <<"up">>
               \/ services # <<"up">> /\ services' = <<"down", "up">>
    <3>1. CASE services = <<"up">>
      BY <1>4, <3>1 DEF DeliverService, TopoInstall, Restart, ServiceUp, Last
    <3>2. CASE services = <<"down">>
      BY <1>4, <3>2 DEF DeliverService, TopoInstall, Restart, ServiceUp, Last
    <3>3. CASE services = <<"down", "up">>
      BY <1>4, <3>3 DEF DeliverService, TopoInstall, Restart, ServiceUp, Last
    <3>4. QED
      BY <2>2, <3>1, <3>2, <3>3 DEF EarlyInv
  <2>3. QED
    BY <1>2, <2>1, <2>2 DEF EarlyInv
<1>5. QED
  BY <1>1, <1>3, <1>4 DEF Deliver, TopoClientWrite, Resync

(* The informers, the topo service and restarts.                           *)
LEMMA EnvironmentOrphans ==
  ASSUME IInv, SingleController,
         \/ \E e \in Resources : Deliver(e)
         \/ \E u \in URIs : TopoClientWrite(u)
         \/ DeliverService \/ Resync \/ TopoInstall \/ TopoUninstall
         \/ Restart
  PROVE  IInv' /\ OrphansGivenUp
<1>1. CoreInv' /\ CoreInv /\ \A e \in Resources : Current(e)' = Current(e)
  BY EnvironmentCore DEF IInv
<1>2. UNCHANGED <<pc, request, resource>> \/ \A w \in Workers : pc'[w] = "idle"
  BY <1>1, EnvironmentVersions
<1>3. \A e \in Resources : ToSet(versions'[e]) \subseteq ToSet(versions[e])
  BY <1>1, EnvironmentVersions
<1>4. HoldsKept /\ VersionsInv'
  BY <1>1, <1>3, NothingStored
<1>5. \A u \in URIs : topo'[u] # NoObject => topo[u] # NoObject
  BY DEF Deliver, TopoClientWrite, DeliverService, Resync, TopoInstall,
         TopoUninstall, Restart
<1>6. OrphansGivenUp
  BY <1>4, <1>5, HoldsKeptOrphans, NoNewOrphans
<1>7. CopiesInv'
  BY <1>2, <1>4, WorkersAlone DEF CopiesInv, Busy
<1>8. AbsentInv'
  <2>1. CASE UNCHANGED <<pc, request, resource>>
    <3>1. \A w \in Workers : pc[w] = "deleted" => ObjectID(w) \in URIs
      BY <1>1, CopyType DEF CoreInv, Busy
    <3>2. QED
      BY <1>5, <2>1, <3>1 DEF IInv, AbsentInv, ObjectID
  <2>2. CASE \A w \in Workers : pc'[w] = "idle"
    BY <2>2 DEF AbsentInv
  <2>3. QED
    BY <1>2, <2>1, <2>2
<1>9. EarlyInv'
  BY <1>1, <1>2, <1>5, EnvironmentEarly, BoundAssumption
  DEF IInv, CoreInv, TypeOK
<1>10. QED
  BY <1>1, <1>4, <1>6, <1>7, <1>8, <1>9, IInvNextParts

LEMMA IInvInit == Init => IInv
<1> SUFFICES ASSUME Init
             PROVE  IInv
  OBVIOUS
<1>1. \A e \in Resources : ToSet(versions[e]) = {NoResource}
  BY OneElement DEF Init, Version
<1>2. CoreInv
  BY CoreInvInit
<1>3. QED
  BY <1>1, <1>2, IInvParts
  DEF Init, VersionsInv, CopiesInv, AbsentInv, EarlyInv, Busy, Exists

LEMMA IInvStep ==
  SingleController /\ IInv /\ [Next]_vars => IInv' /\ OrphansGivenUp
<1> SUFFICES ASSUME SingleController, IInv, [Next]_vars
             PROVE  IInv' /\ OrphansGivenUp
  OBVIOUS
<1>1. ASSUME NEW w \in Workers, Step(w)
      PROVE  IInv' /\ OrphansGivenUp
  BY <1>1, WritesOrphans, MovesOrphans DEF Step, Writes, Moves
<1>2. CASE UNCHANGED vars
  <2>1. CoreInv'
    BY <1>2, CoreInvStep DEF IInv
  <2>2. HoldsKept /\ VersionsInv'
    BY <1>2, NothingStored DEF vars, Current
  <2>3. OrphansGivenUp /\ CopiesInv'
    BY <1>2, <2>2, HoldsKeptOrphans, NoNewOrphans, WorkersAlone DEF vars
  <2>4. AbsentInv' /\ EarlyInv'
    BY <1>2, EarlyKept DEF vars, IInv, AbsentInv, ObjectID
  <2>5. QED
    BY <2>1, <2>2, <2>3, <2>4, IInvNextParts
<1>3. QED
  BY <1>1, <1>2, UsersOrphans, TakeOrphans, EnvironmentOrphans DEF Next

(***************************************************************************)
(* A controller instance leaves an object behind only when, after a        *)
(* removal of onos-topo, a deletion finds no Service: for any number of    *)
(* resources and objects, users' requests, outages of onos-topo that keep  *)
(* or lose the objects, Services read late, lost replies and restarts.     *)
(***************************************************************************)
THEOREM OnlyGivenUpHolds ==
  ASSUME SingleController
  PROVE  Spec => OnlyGivenUp
<1>1. IInv /\ [Next]_vars => IInv'
  BY IInvStep
<1>2. IInv /\ [Next]_vars => [OrphansGivenUp]_vars
  BY IInvStep
<1>3. QED
  BY <1>1, <1>2, IInvInit, PTL DEF Spec, OnlyGivenUp

-----------------------------------------------------------------------------
(* What the writers of a resource do to it.                                *)

(* A version that neither takes charge of the object nor gives it up.      *)
Continues(before, after) ==
  /\ ChargeOf(after) = ChargeOf(before)
  /\ Served(after) => Served(before)

(* Users and the garbage collector.                                        *)
LEMMA UsersStore ==
  ASSUME IInv, SingleController, NEW e \in Resources,
         User(e) \/ CollectorRelease(e)
  PROVE  \E version \in Version :
           Store(e, version) /\ Continues(Current(e), version)
<1>1. PICK version \in Version :
        Store(e, version) /\ UserEdit(e, Current(e), version)
  BY UsersEdit DEF IInv, CoreInv
<1>2. ASSUME Held(Current(e))
      PROVE  version.spec.uri = Current(e).spec.uri
  BY <1>1, <1>2, SameURI DEF UserEdit, Held, SingleController
<1>3. Held(version) <=> Held(Current(e))
  BY <1>1 DEF UserEdit, Held
<1>4. Served(version) => Served(Current(e))
  BY <1>1, <1>3 DEF UserEdit, Served, Held
<1>5. QED
  BY <1>1, <1>2, <1>3, <1>4 DEF Continues, ChargeOf

(***************************************************************************)
(* A write of the worker: only for a resource to delete whose object is    *)
(* gone, or taken for gone, does it end the hold, and only for another one *)
(* does it begin it.                                                       *)
(***************************************************************************)
Rightly(w, version) ==
  /\ Held(resource[w]) /\ ~Held(version) =>
       /\ resource[w].deleting
       /\ topo[ObjectID(w)] = NoObject \/ GivesUp(w)
  /\ ~Held(resource[w]) /\ Held(version) => ~resource[w].deleting

WritesRightly(w) ==
  \E version \in Resource : \E again :
    /\ Write(w, version, again)
    /\ version.deleting = resource[w].deleting
    /\ version.spec = resource[w].spec
    /\ Rightly(w, Stored(version))

LEMMA WritesShape ==
  ASSUME IInv, NEW w \in Workers, Writes(w)
  PROVE  /\ Busy(w) /\ resource[w].deleting \in BOOLEAN
         /\ WritesRightly(w)
<1>1. Busy(w) /\ CoreInv /\ TypeInv
  BY CoreInvParts
  DEF IInv, Writes, SetPending, Abandon, SetAdding, AddTopoFinalizer,
      SetAdded, SetRemoving, SetRemoved, Release, Busy
<1>2. /\ resource[w] \in Resource /\ Exists(resource[w])
      /\ resource[w].finalizers \in SUBSET Finalizer
      /\ resource[w].deleting \in BOOLEAN
      /\ resource[w].deleting => HasTopoFinalizer(resource[w])
      /\ ObjectID(w) \in URIs
  BY <1>1, CopyType DEF CoreInv, CopyInv, Finalized
<1>3. SUFFICES WritesRightly(w)
  BY <1>1, <1>2
<1>4. ASSUME NEW state \in States,
             \/ state # "Removed"
             \/ resource[w].deleting /\ topo[ObjectID(w)] = NoObject,
             resource[w].deleting /\ state # "Removed" =>
               resource[w].state # "Removed",
             NEW again,
             Write(w, [resource[w] EXCEPT !.state = state], again)
      PROVE  WritesRightly(w)
  <2> DEFINE new == [resource[w] EXCEPT !.state = state]
  <2>1. /\ new \in Resource /\ new.state = state /\ new.spec = resource[w].spec
        /\ new.deleting = resource[w].deleting
        /\ new.finalizers = resource[w].finalizers
    BY <1>1, <1>2, EditedCopyType DEF TypeInv, BaseInv, Resource
  <2>2. /\ HasTopoFinalizer(new) <=> HasTopoFinalizer(resource[w])
        /\ Exists(Stored(new)) => Stored(new) = new
        /\ HasTopoFinalizer(new) /\ state # "Removed" => Held(Stored(new))
    BY <2>1, StoredHeld, NothingIsNoResource DEF HasTopoFinalizer
  <2>3. Rightly(w, Stored(new))
    BY <1>2, <1>4, <2>1, <2>2 DEF Rightly, Held
  <2>4. QED
    BY <1>4, <2>1, <2>3 DEF WritesRightly
<1>5. CASE SetPending(w) \/ SetAdding(w)
  BY <1>4, <1>5 DEF SetPending, SetAdding, WriteState, States
<1>6. CASE SetAdded(w)
  <2>1. ~resource[w].deleting
    BY <1>1, <1>6 DEF SetAdded, CoreInv, PathInv, Adding
  <2>2. QED
    BY <1>4, <1>6, <2>1 DEF SetAdded, WriteState, States
<1>7. CASE SetRemoving(w)
  BY <1>4, <1>7 DEF SetRemoving, WriteState, States
<1>8. CASE SetRemoved(w)
  <2>1. resource[w].deleting /\ topo[ObjectID(w)] = NoObject
    BY <1>1, <1>8 DEF SetRemoved, IInv, AbsentInv, CoreInv, PathInv, Removing
  <2>2. QED
    BY <1>4, <1>8, <2>1 DEF SetRemoved, WriteState, States
<1>9. CASE AddTopoFinalizer(w)
  <2> DEFINE new == [resource[w] EXCEPT
                       !.finalizers = AddFinalizer(@, TopoFinalizer)]
  <2>1. /\ new \in Resource /\ new.deleting = resource[w].deleting
        /\ new.spec = resource[w].spec
    BY <1>1, <1>2, EditedCopyType DEF TypeInv, BaseInv, Resource
  <2>2. Rightly(w, Stored(new))
    BY <1>9 DEF AddTopoFinalizer, Rightly, Held
  <2>3. Write(w, new, Done)
    BY <1>9 DEF AddTopoFinalizer
  <2> HIDE DEF new
  <2>4. QED
    BY <2>1, <2>2, <2>3 DEF WritesRightly
<1>10. CASE Abandon(w) \/ Release(w)
  <2> DEFINE new == [resource[w] EXCEPT
                       !.finalizers = RemoveFinalizer(@, TopoFinalizer)]
  <2>1. /\ new \in Resource /\ new.spec = resource[w].spec
        /\ new.deleting = resource[w].deleting
        /\ new.state = resource[w].state
    BY <1>1, <1>2, EditedCopyType DEF TypeInv, BaseInv, Resource
  <2>2. PICK again : Write(w, new, again)
    BY <1>10 DEF Abandon, Release
  <2>3. Exists(Stored(new)) => Stored(new) = new
    BY <2>1, StoredHeld, NothingIsNoResource
  <2>4. ~Held(resource[w]) => ~Held(Stored(new))
    BY <1>2, <1>10, <2>1, <2>3 DEF Abandon, Release, Held
  <2>5. Held(resource[w]) =>
          /\ resource[w].deleting
          /\ topo[ObjectID(w)] = NoObject \/ GivesUp(w)
    <3>1. HAVE Held(resource[w])
    <3>2. Abandon(w)
      BY <1>10, <3>1 DEF Release, Held
    <3>3. GivingUp(w)
      BY <3>2 DEF Abandon, GivingUp
    <3>4. QED
      BY <1>2, <3>3, GivingUpEarly DEF GivingUp
  <2>6. Rightly(w, Stored(new))
    BY <2>4, <2>5 DEF Rightly
  <2> HIDE DEF new
  <2>7. QED
    BY <2>1, <2>2, <2>6 DEF WritesRightly
<1>11. QED
  BY <1>5, <1>6, <1>7, <1>8, <1>9, <1>10 DEF Writes

LEMMA SyncInvInit == Init => SyncInv
BY IInvInit, VersionsInit DEF SyncInv

LEMMA SyncInvStep == SingleController /\ SyncInv /\ [Next]_vars => SyncInv'
BY IInvStep, VersionsStep DEF SyncInv, IInv, SingleController

-----------------------------------------------------------------------------
(* The abstract state, and the abstract actions in its terms.              *)

WantedSet == {e \in Resources : Wanted(e)}
Charges == [e \in Resources |-> ChargeOf(Current(e))]
Objects == {u \in URIs : topo[u] # NoObject}
Closed == outages > 0 /\ \E w \in Workers : GivingUp(w)

(* There is one worker, and it alone takes onos-topo for gone.             *)
LEMMA ClosedOne ==
  ASSUME SingleController, NEW w \in Workers
  PROVE  (Closed <=> GivesUp(w)) /\ (Closed' <=> GivesUp(w)')
<1>1. \A x \in Workers : x = w
  BY DEF SingleController, OneWorker
<1>2. Closed <=> GivesUp(w)
  BY <1>1 DEF Closed, GivesUp
<1>3. Closed' <=> GivesUp(w)'
  BY <1>1 DEF Closed, GivesUp
<1>4. QED
  BY <1>2, <1>3

(* Nothing has changed but, perhaps, what onos-topo is taken for.          *)
Stutters == WantedSet' = WantedSet /\ Charges' = Charges /\ Objects' = Objects

LEMMA StutterSync ==
  ASSUME Stutters
  PROVE  [Sync!Next]_(Sync!vars)
<1>1. Closed' \in BOOLEAN
  BY DEF Closed
<1>2. Sync!Close
  BY <1>1 DEF Stutters, Sync!Close, WantedSet, Charges, Objects, Closed
<1>3. QED
  BY <1>2 DEF Sync!Next

LEMMA WantSync ==
  ASSUME NEW e \in Resources, e \notin WantedSet, Charges[e] = NoObject,
         WantedSet' = WantedSet \cup {e}, Charges' = Charges,
         Objects' = Objects,
         Closed' <=> Closed
  PROVE  [Sync!Next]_(Sync!vars)
<1>1. Sync!Want(e)
  BY DEF Sync!Want, WantedSet, Charges, Objects, Closed
<1>2. QED
  BY <1>1 DEF Sync!Next

LEMMA UnwantSync ==
  ASSUME NEW e \in Resources, e \in WantedSet,
         WantedSet' = WantedSet \ {e}, Charges' = Charges, Objects' = Objects,
         Closed' <=> Closed
  PROVE  [Sync!Next]_(Sync!vars)
<1>1. Sync!Unwant(e)
  BY DEF Sync!Unwant, WantedSet, Charges, Objects, Closed
<1>2. QED
  BY <1>1 DEF Sync!Next

LEMMA TakeChargeSync ==
  ASSUME NEW e \in Resources, NEW spec \in SpecsOf[e],
         e \in WantedSet, Charges[e] = NoObject, WantedSet' = WantedSet,
         Charges' = [Charges EXCEPT ![e] = spec.uri], Objects' = Objects,
         Closed' <=> Closed
  PROVE  [Sync!Next]_(Sync!vars)
<1>1. spec.uri \in URIs
  BY SpecsAssumption DEF Specs
<1>2. Sync!TakeCharge(e, spec.uri)
  BY DEF Sync!TakeCharge, WantedSet, Charges, Objects, Closed
<1>3. QED
  BY <1>1, <1>2 DEF Sync!Next

LEMMA PublishSync ==
  ASSUME NEW u \in URIs, NEW e \in Resources, Charges[e] = u,
         WantedSet' = WantedSet, Charges' = Charges,
         Objects' = Objects \cup {u}, Closed' <=> Closed
  PROVE  [Sync!Next]_(Sync!vars)
<1>1. Sync!Publish(u)
  BY DEF Sync!Publish, WantedSet, Charges, Objects, Closed
<1>2. QED
  BY <1>1 DEF Sync!Next

LEMMA WithdrawSync ==
  ASSUME NEW e \in Resources, NEW spec \in SpecsOf[e],
         ~(e \in WantedSet /\ Charges[e] = spec.uri),
         WantedSet' = WantedSet, Charges' = Charges,
         Objects' = Objects \ {spec.uri}, Closed' <=> Closed
  PROVE  [Sync!Next]_(Sync!vars)
<1>1. spec.uri \in URIs
  BY SpecsAssumption DEF Specs
<1>2. Sync!Withdraw(spec.uri)
  BY DEF Sync!Withdraw, WantedSet, Charges, Objects, Closed
<1>3. QED
  BY <1>1, <1>2 DEF Sync!Next

LEMMA GiveUpSync ==
  ASSUME NEW e \in Resources, e \notin WantedSet,
         Closed \/ Charges[e] \notin Objects, WantedSet' = WantedSet,
         Charges' = [Charges EXCEPT ![e] = NoObject], Objects' = Objects,
         ~Closed'
  PROVE  [Sync!Next]_(Sync!vars)
<1>1. Sync!GiveUp(e)
  BY DEF Sync!GiveUp, WantedSet, Charges, Objects, Closed
<1>2. QED
  BY <1>1 DEF Sync!Next

LEMMA LoseSync ==
  ASSUME WantedSet' = WantedSet, Charges' = Charges, Objects' = {}
  PROVE  [Sync!Next]_(Sync!vars)
<1>1. Closed' \in BOOLEAN
  BY DEF Closed
<1>2. Sync!Lose
  BY <1>1 DEF Sync!Lose, WantedSet, Charges, Objects, Closed
<1>3. QED
  BY <1>2 DEF Sync!Next

-----------------------------------------------------------------------------
(* The steps of the controller and of its surroundings.                    *)

(* What a step makes of the last versions decides two of the variables.    *)
LEMMA SameVersions ==
  ASSUME \A e \in Resources : Current(e)' = Current(e)
  PROVE  WantedSet' = WantedSet /\ Charges' = Charges
BY DEF WantedSet, Charges, Wanted

(* A new last version of e.                                                *)
LEMMA NewVersion ==
  ASSUME TypeOK, NEW e \in Resources, NEW version \in Version,
         Store(e, version)
  PROVE  /\ Exists(version) /\ ~version.deleting =>
              WantedSet' = WantedSet \cup {e}
         /\ ~(Exists(version) /\ ~version.deleting) =>
              WantedSet' = WantedSet \ {e}
         /\ Charges' = [Charges EXCEPT ![e] = ChargeOf(version)]
<1>1. /\ Current(e)' = version
      /\ \A d \in Resources : d # e => Current(d)' = Current(d)
  BY StoreCurrent
<1>2. /\ Exists(version) /\ ~version.deleting =>
           WantedSet' = WantedSet \cup {e}
      /\ ~(Exists(version) /\ ~version.deleting) =>
           WantedSet' = WantedSet \ {e}
  BY <1>1 DEF WantedSet, Wanted
<1>3. Charges' = [Charges EXCEPT ![e] = ChargeOf(version)]
  BY <1>1 DEF Charges
<1>4. QED
  BY <1>2, <1>3

(* Users want and stop to want resources.                                  *)
LEMMA UsersSync ==
  ASSUME SyncInv, SingleController, NEW e \in Resources,
         User(e) \/ CollectorRelease(e)
  PROVE  [Sync!Next]_(Sync!vars)
<1>1. PICK version \in Version :
        Store(e, version) /\ Continues(Current(e), version)
  BY UsersStore DEF SyncInv
<1>2. /\ Exists(version) /\ ~version.deleting =>
           WantedSet' = WantedSet \cup {e}
      /\ ~(Exists(version) /\ ~version.deleting) =>
           WantedSet' = WantedSet \ {e}
      /\ Charges' = [Charges EXCEPT ![e] = ChargeOf(version)]
  BY <1>1, NewVersion DEF SyncInv, IInv, CoreInv
<1>3. Objects' = Objects /\ (Closed' <=> Closed)
  BY DEF User, UserCreate, UserUpdate, UserDelete, CollectorRelease,
         Operation, Objects, Closed, GivingUp
<1>4. Charges' = Charges
  BY <1>1, <1>2 DEF Charges, Continues
<1>5. CASE Exists(version) /\ ~version.deleting
  <2>1. CASE e \in WantedSet
    BY <1>2, <1>3, <1>4, <1>5, <2>1, StutterSync DEF Stutters
  <2>2. CASE e \notin WantedSet
    <3>1. ~Served(Current(e))
      BY <2>2 DEF WantedSet, Wanted, Served, Held
    <3>2. Charges[e] = NoObject
      BY <1>1, <1>5, <3>1 DEF Continues, Served, ChargeOf, Charges
    <3>3. QED
      BY <1>2, <1>3, <1>4, <1>5, <2>2, <3>2, WantSync
  <2>3. QED
    BY <2>1, <2>2
<1>6. CASE ~(Exists(version) /\ ~version.deleting)
  <2>1. CASE e \in WantedSet
    BY <1>2, <1>3, <1>4, <1>6, <2>1, UnwantSync
  <2>2. CASE e \notin WantedSet
    BY <1>2, <1>3, <1>4, <1>6, <2>2, StutterSync DEF Stutters
  <2>3. QED
    BY <2>1, <2>2
<1>7. QED
  BY <1>5, <1>6

(* The status and the finalizer put a resource in charge of its object,    *)
(* and take it out of charge once the object is gone.                      *)
LEMMA WritesSync ==
  ASSUME SyncInv, SingleController, NEW w \in Workers, Writes(w)
  PROVE  [Sync!Next]_(Sync!vars)
<1>1. Busy(w) /\ resource[w].deleting \in BOOLEAN /\ WritesRightly(w)
  BY WritesShape DEF SyncInv
<1>2. PICK version \in Resource :
        /\ \E again : Write(w, version, again)
        /\ version.deleting = resource[w].deleting
        /\ version.spec = resource[w].spec
        /\ Rightly(w, Stored(version))
  BY <1>1 DEF WritesRightly
<1>3. PICK again : Write(w, version, again)
  BY <1>2
<1>4. Objects' = Objects /\ ~Closed'
  <2>1. pc'[w] = "idle"
    <3>1. Return(w, again) \/ Return(w, Requeue)
      BY <1>3 DEF Write
    <3>2. QED
      BY <1>1, <3>1, ReturnEffect DEF SyncInv, IInv, CoreInv
  <2>2. QED
    BY <1>3, <2>1, ClosedOne DEF Write, Objects, GivesUp, GivingUp
<1>5. CASE UNCHANGED versions
  BY <1>4, <1>5, SameVersions, StutterSync DEF Stutters, Current
<1>6. CASE w \in fresh /\ Store(request[w], Stored(version))
  <2>1. PICK e \in Resources : e = request[w]
    BY <1>1 DEF SyncInv, IInv, CoreInv, CopyInv
  <2>2. /\ Stored(version) \in Version /\ Exists(resource[w])
        /\ Current(e) = resource[w] /\ resource[w].spec \in SpecsOf[e]
        /\ ObjectID(w) \in URIs
    BY <1>1, <1>6, <2>1, StoredType, FreshCopy, CopyType
    DEF SyncInv, IInv, CoreInv, CopyInv, SpecInv
  <2>3. Exists(Stored(version)) => Stored(version) = version
    BY StoredHeld, NothingIsNoResource
  <2>4. Exists(Stored(version)) /\ ~Stored(version).deleting
          <=> ~resource[w].deleting
    <3>1. ~version.deleting => Stored(version) = version
      BY DEF Stored
    <3>2. Exists(version)
      BY NothingIsNoResource DEF Exists
    <3>3. QED
      BY <1>2, <2>3, <3>1, <3>2
  <2>5. e \in WantedSet <=> ~resource[w].deleting
    BY <2>2 DEF WantedSet, Wanted
  <2>6. /\ WantedSet' = WantedSet
        /\ Charges' = [Charges EXCEPT ![e] = ChargeOf(Stored(version))]
    <3>1. /\ Exists(Stored(version)) /\ ~Stored(version).deleting =>
               WantedSet' = WantedSet \cup {e}
          /\ ~(Exists(Stored(version)) /\ ~Stored(version).deleting) =>
               WantedSet' = WantedSet \ {e}
          /\ Charges' = [Charges EXCEPT ![e] = ChargeOf(Stored(version))]
      BY <1>6, <2>1, <2>2, NewVersion DEF SyncInv, IInv, CoreInv
    <3>2. QED
      BY <2>4, <2>5, <3>1
  <2>7. Charges[e] = ChargeOf(resource[w])
    BY <2>2 DEF Charges
  <2>8. CASE Held(resource[w]) /\ ~Held(Stored(version))
    <3>1. Charges[e] = ObjectID(w) /\ ChargeOf(Stored(version)) = NoObject
      BY <2>7, <2>8 DEF ChargeOf, ObjectID
    <3>2. e \notin WantedSet /\ (Closed \/ Charges[e] \notin Objects)
      BY <1>2, <2>5, <2>8, <3>1, ClosedOne DEF Rightly, Objects
    <3>3. QED
      BY <1>4, <2>6, <3>1, <3>2, GiveUpSync
  <2>9. CASE ~Held(resource[w]) /\ Held(Stored(version))
    <3>1. /\ Charges[e] = NoObject
          /\ ChargeOf(Stored(version)) = resource[w].spec.uri
      BY <1>2, <2>3, <2>7, <2>9 DEF ChargeOf, Held
    <3>2. e \in WantedSet /\ ~Closed
      BY <1>2, <2>5, <2>9, ClosedOne DEF Rightly, GivesUp, GivingUp
    <3>3. QED
      BY <1>4, <2>2, <2>6, <3>1, <3>2, TakeChargeSync
  <2>10. CASE Held(resource[w]) <=> Held(Stored(version))
    <3>1. ChargeOf(Stored(version)) = ChargeOf(resource[w])
      BY <1>2, <2>3, <2>10 DEF ChargeOf, Held
    <3>2. Charges' = Charges
      BY <2>6, <2>7, <3>1 DEF Charges
    <3>3. QED
      BY <1>4, <2>6, <3>2, StutterSync DEF Stutters
  <2>11. QED
    BY <2>8, <2>9, <2>10
<1>7. QED
  BY <1>3, <1>5, <1>6 DEF Write

(* A reconcile publishes and withdraws.                                    *)
LEMMA MovesSync ==
  ASSUME SyncInv, SingleController, NEW w \in Workers, Moves(w)
  PROVE  [Sync!Next]_(Sync!vars)
<1>1. versions' = versions /\ Busy(w)
  BY MovesEffect
  DEF SyncInv, IInv, Moves, ReadService, ReadServiceFails, ConnectService,
      ServiceNotFound, CallFails, Ignore, EntityExists, UpdateEntity,
      CreateEntity, DeleteEntity, Busy
<1>2. WantedSet' = WantedSet /\ Charges' = Charges
  BY <1>1, SameVersions DEF Current
<1>3. /\ ObjectID(w) \in URIs /\ resource[w].spec.aspects \in Aspects
      /\ topo \in [URIs -> Aspects \cup {NoObject}]
      /\ request[w] \in Resources
      /\ resource[w].spec \in SpecsOf[request[w]]
      /\ CoreInv
  BY <1>1, CopyType DEF SyncInv, IInv, CoreInv, TypeOK, CopyInv, SpecInv
<1>4. CASE UNCHANGED topo
  BY <1>2, <1>4, StutterSync DEF Stutters, Objects
<1> DEFINE Calling == pc[w] \in {"create", "delete"}
<1>5. Calling => ~Closed /\ ~Closed'
  <2>1. HAVE Calling
  <2>2. ~ReadService(w)
    BY <2>1 DEF ReadService
  <2>3. pc'[w] # "notFound"
    BY <1>3, <2>2, MovesLabels
  <2>4. QED
    BY <2>1, <2>3, ClosedOne DEF GivesUp, GivingUp
<1>6. CASE UpdateEntity(w) /\ ~UNCHANGED topo
  <2>1. /\ topo[ObjectID(w)] # NoObject
        /\ topo' = [topo EXCEPT ![ObjectID(w)] =
                      SetAspects(@, resource[w].spec.aspects)]
    BY <1>3, <1>6 DEF UpdateEntity, CoreInv, RevisionInv
  <2>2. SetAspects(topo[ObjectID(w)], resource[w].spec.aspects) \in Aspects
    BY <1>3, <2>1, AspectsType
  <2>3. Objects' = Objects
    BY <1>3, <2>1, <2>2, NoObjectAssumption DEF Objects
  <2>4. QED
    BY <1>2, <2>3, StutterSync DEF Stutters
<1>7. CASE CreateEntity(w) /\ ~UNCHANGED topo
  <2>1. topo' = [topo EXCEPT ![ObjectID(w)] =
                   SetAspects(NoAspects, resource[w].spec.aspects)]
    BY <1>7 DEF CreateEntity
  <2>2. SetAspects(NoAspects, resource[w].spec.aspects) \in Aspects
    BY <1>3, AspectsType DEF NoAspects, Aspects
  <2>3. Objects' = Objects \cup {ObjectID(w)}
    BY <1>3, <2>1, <2>2, NoObjectAssumption DEF Objects
  <2>4. Adding(resource[w])
    BY <1>3, <1>7 DEF CreateEntity, CoreInv, PathInv
  <2>5. PICK e \in Resources : /\ Held(Current(e))
                               /\ Current(e).spec.uri = ObjectID(w)
    BY <1>1, <2>4, CopyHolds DEF SyncInv
  <2>6. Charges[e] = ObjectID(w)
    BY <2>5 DEF Charges, ChargeOf
  <2>7. QED
    BY <1>2, <1>3, <1>5, <1>7, <2>3, <2>6, PublishSync DEF CreateEntity
<1>8. CASE DeleteEntity(w)
  <2>1. Objects' = Objects \ {resource[w].spec.uri}
    BY <1>3, <1>8 DEF DeleteEntity, Objects, ObjectID
  <2>2. resource[w].deleting
    BY <1>3, <1>8 DEF DeleteEntity, CoreInv, PathInv, Removing
  <2>3. ~Served(Current(request[w]))
    BY <1>1, <2>2 DEF SyncInv, DeletedInv
  <2>4. ~(/\ request[w] \in WantedSet
          /\ Charges[request[w]] = resource[w].spec.uri)
    BY <1>3, <2>3, NoObjectAssumption
    DEF Served, WantedSet, Wanted, Charges, ChargeOf, ObjectID
  <2>5. QED
    BY <1>2, <1>3, <1>5, <1>8, <2>1, <2>4, WithdrawSync DEF DeleteEntity
<1>9. QED
  BY <1>4, <1>6, <1>7, <1>8
  DEF Moves, ReadService, ReadServiceFails, ConnectService,
      ServiceNotFound, CallFails, Ignore, EntityExists

(* Only the removal of onos-topo concerns the objects.                     *)
LEMMA EnvironmentSync ==
  ASSUME SyncInv, SingleController,
         \/ \E e \in Resources : Deliver(e)
         \/ \E u \in URIs : TopoClientWrite(u)
         \/ DeliverService \/ Resync \/ TopoInstall \/ TopoUninstall
         \/ Restart
  PROVE  [Sync!Next]_(Sync!vars)
<1>1. WantedSet' = WantedSet /\ Charges' = Charges
  BY EnvironmentVersions, SameVersions DEF SyncInv, IInv
<1>2. CASE TopoUninstall
  <2>1. CASE StoreSurvives
    BY <1>1, <1>2, <2>1, StutterSync DEF TopoUninstall, Stutters, Objects
  <2>2. CASE ~StoreSurvives
    <3>1. Objects' = {}
      BY <1>2, <2>2 DEF TopoUninstall, Objects
    <3>2. QED
      BY <1>1, <3>1, LoseSync
  <2>3. QED
    BY <2>1, <2>2
<1>3. CASE UNCHANGED topo
  BY <1>1, <1>3, StutterSync DEF Stutters, Objects
<1>4. QED
  BY <1>2, <1>3
  DEF Deliver, TopoClientWrite, DeliverService, Resync, TopoInstall, Restart

LEMMA InitSync == Init => Sync!Init
<1> SUFFICES ASSUME Init
             PROVE  Sync!Init
  OBVIOUS
<1>1. \A e \in Resources : Current(e) = NoResource
  BY OneElement DEF Init, Current, Version
<1>2. WantedSet = {} /\ Charges = [e \in Resources |-> NoObject]
  BY <1>1 DEF WantedSet, Charges, Wanted, ChargeOf, Held, Exists
<1>3. Objects = {}
  BY DEF Init, Objects
<1>4. Closed = FALSE
  BY DEF Init, Closed
<1>5. QED
  BY <1>2, <1>3, <1>4 DEF Sync!Init, WantedSet, Charges, Objects, Closed

LEMMA StepSync ==
  ASSUME SingleController, SyncInv, [Next]_vars
  PROVE  [Sync!Next]_(Sync!vars)
<1>1. ASSUME NEW w \in Workers, Step(w)
      PROVE  [Sync!Next]_(Sync!vars)
  BY <1>1, WritesSync, MovesSync DEF Step, Writes, Moves
<1>2. CASE UNCHANGED <<versions, topo>>
  BY <1>2, SameVersions, StutterSync DEF Stutters, Objects, Current
<1>3. ASSUME NEW w \in Workers, NEW e \in Resources, Take(w, e)
      PROVE  [Sync!Next]_(Sync!vars)
  BY <1>2, <1>3 DEF Take, Skip, Fetch
<1>4. CASE UNCHANGED vars
  BY <1>2, <1>4 DEF vars
<1>5. QED
  BY <1>1, <1>3, <1>4, UsersSync, EnvironmentSync DEF Next

(***************************************************************************)
(* The Entity controller, with a single instance, implements TopologySync: *)
(* for any Entities that share any objects, Services read late and outages *)
(* that keep or lose the objects, onos-topo shows objects of Entities in   *)
(* charge only, objects are withdrawn only for Entities that are not to be *)
(* served, and the last Entity in charge leaves an object behind only      *)
(* while a deletion, after an outage, has found no Service.                *)
(***************************************************************************)
THEOREM EntityImplementsTopologySync ==
  ASSUME SingleController
  PROVE  Spec => ImplementsTopologySync
<1>1. SyncInv /\ [Next]_vars => SyncInv'
  BY SyncInvStep
<1>2. SyncInv /\ [Next]_vars => [Sync!Next]_(Sync!vars)
  BY StepSync
<1>3. QED
  BY <1>1, <1>2, SyncInvInit, InitSync, PTL
  DEF Spec, ImplementsTopologySync, Sync!Spec

=============================================================================
