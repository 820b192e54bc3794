------------------------ MODULE EntityObjects_proofs ------------------------
(***************************************************************************)
(* What Added means for the object in onos-topo, as long as one worker     *)
(* reconciles Entity resources: the object was there, with the aspects of  *)
(* the spec, when the status said so, and it stays there as long as        *)
(* onos-topo keeps its objects.                                            *)
(***************************************************************************)
EXTENDS EntityController_proofs

-----------------------------------------------------------------------------
(* What the writers of a resource do to it, for any number of workers.     *)

(* A deleting resource that is still held is not removed.                  *)
LEMMA StoredHeld ==
  ASSUME NEW version, version # NoResource
  PROVE  /\ Exists(Stored(version)) => Stored(version) = version
         /\ /\ HasTopoFinalizer(version) /\ version.state # "Removed"
            => Held(Stored(version))
BY DEF Stored, Held, Exists, HasTopoFinalizer, HasFinalizer

(* Users and Kubernetes give a new resource one of its specs, and leave    *)
(* status and finalizer of one there is alone.                             *)
UserEdit(e, before, after) ==
  /\ Held(before) => Held(after)
  /\ Exists(after) =>
       \/ /\ ~Exists(before) /\ after.spec \in SpecsOf[e]
          /\ ~after.deleting /\ after.state = "Pending" /\ ~Held(after)
       \/ /\ Exists(before) /\ after.state = before.state
          /\ before.deleting => after.deleting
          /\ HasTopoFinalizer(after) <=> HasTopoFinalizer(before)
          /\ after.spec = before.spec \/ after.spec \in SpecsOf[e]

LEMMA UsersEdit ==
  ASSUME TypeOK, NEW e \in Resources, User(e) \/ CollectorRelease(e)
  PROVE  \E version \in Version :
           Store(e, version) /\ UserEdit(e, Current(e), version)
<1>1. /\ Current(e) \in Version
      /\ Exists(Current(e)) => /\ Current(e) \in Resource
                               /\ Current(e).finalizers \in SUBSET Finalizer
                               /\ Current(e).deleting \in BOOLEAN
  BY CurrentType DEF Resource
<1>2. CASE UserCreate(e)
  <2>1. PICK spec \in SpecsOf[e] : Store(e, NewResource(spec))
    BY <1>2 DEF UserCreate
  <2>2. /\ NewResource(spec) \in Version
        /\ UserEdit(e, Current(e), NewResource(spec))
    BY <1>2, SpecsAssumption
    DEF UserCreate, UserEdit, NewResource, Version, Resource, States, Held,
        HasTopoFinalizer, HasFinalizer
  <2>3. QED
    BY <2>1, <2>2
<1>3. CASE UserUpdate(e)
  <2>1. PICK spec \in SpecsOf[e] : Store(e, [Current(e) EXCEPT !.spec = spec])
    BY <1>3 DEF UserUpdate
  <2> DEFINE new == [Current(e) EXCEPT !.spec = spec]
  <2>2. /\ new \in Resource /\ new.state = Current(e).state
        /\ new.finalizers = Current(e).finalizers
        /\ new.deleting = Current(e).deleting
        /\ new.spec = spec /\ Exists(Current(e))
    BY <1>1, <1>3, SpecsAssumption DEF UserUpdate, Resource
  <2>3. UserEdit(e, Current(e), new)
    BY <2>2, NothingIsNoResource DEF UserEdit, Held, HasTopoFinalizer, Exists
  <2>4. QED
    BY <2>1, <2>2, <2>3 DEF Version
<1>4. CASE UserDelete(e)
  <2>1. PICK added \in {{}, {GCFinalizer}} :
          Store(e, Stored([Current(e) EXCEPT !.deleting = TRUE,
                                     !.finalizers = @ \cup added]))
    BY <1>4 DEF UserDelete
  <2> DEFINE new == [Current(e) EXCEPT !.deleting = TRUE,
                                       !.finalizers = @ \cup added]
  <2>2. /\ new \in Resource /\ new.state = Current(e).state
        /\ new.finalizers = Current(e).finalizers \cup added
        /\ new.deleting /\ new.spec = Current(e).spec
        /\ Exists(Current(e))
    BY <1>1, <1>4 DEF UserDelete, Resource, Finalizer
  <2>3. HasTopoFinalizer(new) <=> HasTopoFinalizer(Current(e))
    BY <2>2, NoneAssumption DEF HasTopoFinalizer, HasFinalizer
  <2>4. /\ Stored(new) \in Version
        /\ Held(Current(e)) => Held(Stored(new))
        /\ Exists(Stored(new)) => Stored(new) = new
    BY <2>2, <2>3, StoredHeld, StoredType, NothingIsNoResource DEF Held
  <2>5. UserEdit(e, Current(e), Stored(new))
    BY <2>2, <2>3, <2>4 DEF UserEdit
  <2>6. QED
    BY <2>1, <2>4, <2>5
<1>5. CASE CollectorRelease(e)
  <2> DEFINE new == [Current(e) EXCEPT !.finalizers = @ \ {GCFinalizer}]
  <2>1. /\ new \in Resource /\ new.state = Current(e).state
        /\ new.finalizers = Current(e).finalizers \ {GCFinalizer}
        /\ new.deleting /\ new.spec = Current(e).spec
        /\ Exists(Current(e))
    BY <1>1, <1>5 DEF CollectorRelease, Resource, Finalizer
  <2>2. HasTopoFinalizer(new) <=> HasTopoFinalizer(Current(e))
    BY <2>1, NoneAssumption DEF HasTopoFinalizer, HasFinalizer
  <2>3. /\ Stored(new) \in Version
        /\ Held(Current(e)) => Held(Stored(new))
        /\ Exists(Stored(new)) => Stored(new) = new
    BY <2>1, <2>2, StoredHeld, StoredType, NothingIsNoResource DEF Held
  <2>4. UserEdit(e, Current(e), Stored(new))
    BY <2>1, <2>2, <2>3 DEF UserEdit
  <2>5. QED
    BY <1>5, <2>3, <2>4 DEF CollectorRelease
<1>6. QED
  BY <1>2, <1>3, <1>4, <1>5 DEF User

(* A worker neither changes the spec nor the wish to delete, and says      *)
(* Added only after the object was created.                                *)
WorkerEdit(w, after) ==
  /\ after.spec = resource[w].spec
  /\ after.deleting = resource[w].deleting
  /\ after.state = "Added" => resource[w].state = "Added" \/ pc[w] = "created"

WritesEdited(w) ==
  \E version \in Resource, again \in BOOLEAN :
    Write(w, version, again) /\ WorkerEdit(w, version)

LEMMA WritesEdit ==
  ASSUME CoreInv, NEW w \in Workers, Writes(w)
  PROVE  Busy(w) /\ resource[w].deleting \in BOOLEAN /\ WritesEdited(w)
<1>1. Busy(w)
  BY DEF Writes, SetPending, Abandon, SetAdding, AddTopoFinalizer,
         SetAdded, SetRemoving, SetRemoved, Release, Busy
<1>2. resource[w] \in Resource /\ resource[w].deleting \in BOOLEAN
  BY <1>1, CopyType DEF CoreInv
<1>3. ASSUME NEW state \in States, state = "Added" => pc[w] = "created",
             NEW again \in BOOLEAN, WriteState(w, state, again)
      PROVE  WritesEdited(w)
  <2> DEFINE new == [resource[w] EXCEPT !.state = state]
  <2>1. /\ new \in Resource /\ new.state = state /\ new.spec = resource[w].spec
        /\ new.deleting = resource[w].deleting
    BY <1>1, <1>2, EditedCopyType DEF CoreInv, BaseInv, Resource
  <2>2. WorkerEdit(w, new)
    BY <1>3, <2>1 DEF WorkerEdit
  <2>3. QED
    BY <1>3, <2>1, <2>2 DEF WriteState, WritesEdited
<1>4. ASSUME NEW finalizers \in SUBSET Finalizer, NEW again \in BOOLEAN,
             Write(w, [resource[w] EXCEPT !.finalizers = finalizers], again)
      PROVE  WritesEdited(w)
  <2> DEFINE new == [resource[w] EXCEPT !.finalizers = finalizers]
  <2>1. /\ new \in Resource /\ new.state = resource[w].state
        /\ new.spec = resource[w].spec
        /\ new.deleting = resource[w].deleting
    BY <1>2 DEF Resource
  <2>2. WorkerEdit(w, new)
    BY <2>1 DEF WorkerEdit
  <2> HIDE DEF new
  <2>3. QED
    BY <1>4, <2>1, <2>2 DEF new, WritesEdited
<1>5. CASE SetPending(w) \/ SetAdding(w) \/ SetRemoving(w) \/ SetRemoved(w)
  BY <1>1, <1>2, <1>3, <1>5 DEF SetPending, SetAdding, SetRemoving, SetRemoved,
                    States, Done, Requeue
<1>6. CASE SetAdded(w)
  BY <1>1, <1>2, <1>3, <1>6 DEF SetAdded, States, Done
<1>7. CASE AddTopoFinalizer(w) \/ Abandon(w) \/ Release(w)
  <2>1. resource[w].finalizers \in SUBSET Finalizer
    BY <1>1, CopyType DEF CoreInv
  <2>2. PICK again \in BOOLEAN, finalizers \in SUBSET Finalizer :
          Write(w, [resource[w] EXCEPT !.finalizers = finalizers], again)
    BY <1>7, <2>1, FinalizerTypes
    DEF AddTopoFinalizer, Abandon, Release, Done, Requeue
  <2>3. QED
    BY <1>1, <1>2, <1>4, <2>2
<1>8. QED
  BY <1>5, <1>6, <1>7 DEF Writes

(* What the informers, onos-topo and restarts leave of the versions.       *)
LEMMA EnvironmentVersions ==
  ASSUME CoreInv,
         \/ \E e \in Resources : Deliver(e)
         \/ \E u \in URIs : TopoClientWrite(u)
         \/ DeliverService \/ Resync \/ TopoInstall \/ TopoUninstall
         \/ Restart
  PROVE  /\ \A e \in Resources : Current(e)' = Current(e)
         /\ \A e \in Resources : ToSet(versions'[e]) \subseteq ToSet(versions[e])
         /\ \/ UNCHANGED <<pc, request, resource>>
            \/ \A w \in Workers : pc'[w] = "idle"
<1>1. \A e \in Resources : Current(e)' = Current(e)
  BY EnvironmentCore
<1>2. \/ UNCHANGED <<pc, request, resource>>
      \/ \A w \in Workers : pc'[w] = "idle"
  BY DEF Deliver, TopoClientWrite, DeliverService, Resync, TopoInstall,
         TopoUninstall, Restart
<1>3. ASSUME NEW d \in Resources, Deliver(d)
      PROVE  \A e \in Resources : ToSet(versions'[e]) \subseteq ToSet(versions[e])
  <2>1. /\ versions \in [Resources -> Seq(Version)] /\ Len(versions[d]) > 1
        /\ versions' = [versions EXCEPT ![d] = Tail(@)]
    BY <1>3 DEF Deliver, CoreInv, TypeOK, Version
  <2>2. QED
    BY <2>1, TailLast
<1>4. ASSUME Restart, NEW e \in Resources
      PROVE  ToSet(versions'[e]) \subseteq ToSet(versions[e])
  <2>1. /\ versions'[e] = <<Current(e)>> /\ Current(e) \in Version
        /\ Current(e) \in ToSet(versions[e])
    BY <1>4, CurrentType DEF Restart, CoreInv
  <2>2. QED
    BY <2>1, OneElement
<1>5. QED
  BY <1>1, <1>2, <1>3, <1>4
  DEF TopoClientWrite, DeliverService, Resync, TopoInstall, TopoUninstall

-----------------------------------------------------------------------------
(* The versions that may still be seen: SpecInv for any number of workers, *)
(* DeletedInv for one.                                                     *)

(* The conjuncts of DeletedInv.                                             *)
DeletedVersions ==
  \A e \in Resources : \A version \in ToSet(versions[e]) :
    Exists(version) /\ version.deleting => ~Served(Current(e))

DeletedCopies ==
  \A w \in Workers :
    Busy(w) /\ resource[w].deleting => ~Served(Current(request[w]))

LEMMA DeletedParts == DeletedInv <=> DeletedVersions /\ DeletedCopies
BY DEF DeletedInv, DeletedVersions, DeletedCopies

LEMMA DeletedNextParts == DeletedInv' <=> DeletedVersions' /\ DeletedCopies'
BY DEF DeletedInv, DeletedVersions, DeletedCopies

(* No resource begins to be served.                                        *)
ServesNoMore ==
  \A e \in Resources : Served(Current(e)') => Served(Current(e))

LEMMA DeletedVersionsKept ==
  ASSUME DeletedVersions, ServesNoMore,
         \A e \in Resources : \A version \in ToSet(versions'[e]) :
           \/ version \in ToSet(versions[e])
           \/ ~Served(Current(e)')
           \/ ~version.deleting
  PROVE  DeletedVersions'
<1> SUFFICES ASSUME NEW e \in Resources, NEW version \in ToSet(versions'[e]),
                    Exists(version), version.deleting, Served(Current(e)')
             PROVE  FALSE
  BY DEF DeletedVersions, Served, Held, Exists, HasTopoFinalizer, Current
<1>1. version \in ToSet(versions[e]) /\ Served(Current(e))
  BY DEF ServesNoMore
<1>2. QED
  BY <1>1 DEF DeletedVersions

(* Workers keep the copies they have, or are idle.                         *)
CopiesStay ==
  \A w \in Workers : pc'[w] # "idle" =>
    /\ Busy(w) /\ request'[w] = request[w] /\ resource'[w] = resource[w]

LEMMA CopiesKept ==
  ASSUME CopyInv, CopiesStay
  PROVE  /\ SpecCopies => SpecCopies'
         /\ DeletedCopies /\ ServesNoMore => DeletedCopies'
<1>1. SpecCopies => SpecCopies'
  BY DEF SpecCopies, CopiesStay, Busy
<1>2. ASSUME DeletedCopies, ServesNoMore, NEW w \in Workers, pc'[w] # "idle",
             resource'[w].deleting, Served(Last(versions'[request'[w]]))
      PROVE  FALSE
  <2>1. /\ Busy(w) /\ request'[w] = request[w] /\ resource'[w] = resource[w]
        /\ request[w] \in Resources
    BY <1>2 DEF CopiesStay, CopyInv
  <2>2. Served(Current(request[w]))
    BY <1>2, <2>1 DEF ServesNoMore, Current
  <2>3. QED
    BY <1>2, <2>1, <2>2 DEF DeletedCopies
<1>3. DeletedCopies /\ ServesNoMore => DeletedCopies'
  BY <1>2
  DEF DeletedCopies, Served, Held, Exists, HasTopoFinalizer, Current, Busy
<1>4. QED
  BY <1>1, <1>3

LEMMA UsersVersions ==
  ASSUME CoreInv, NEW e \in Resources, User(e) \/ CollectorRelease(e)
  PROVE  (SpecInv => SpecInv') /\ (DeletedInv => DeletedInv')
<1>1. PICK version \in Version :
        Store(e, version) /\ UserEdit(e, Current(e), version)
  BY UsersEdit DEF CoreInv
<1>2. /\ Current(e)' = version /\ Current(e) \in ToSet(versions[e])
      /\ ToSet(versions'[e]) = ToSet(versions[e]) \cup {version}
      /\ \A d \in Resources : d # e => /\ versions'[d] = versions[d]
                                       /\ Current(d)' = Current(d)
  BY <1>1, StoreCurrent, CurrentType DEF CoreInv
<1>3. ServesNoMore
  BY <1>1, <1>2 DEF ServesNoMore, UserEdit, Served, Held
<1>4. UNCHANGED <<pc, request, resource>>
  BY DEF User, UserCreate, UserUpdate, UserDelete, CollectorRelease, Operation
<1>5. SpecVersions => SpecVersions'
  <2>1. SpecVersions => (Exists(version) => version.spec \in SpecsOf[e])
    BY <1>1, <1>2 DEF SpecVersions, UserEdit
  <2>2. QED
    BY <1>2, <2>1, SpecVersionsKept
<1>6. DeletedVersions => DeletedVersions'
  BY <1>2, <1>3, DeletedVersionsKept DEF Served
<1>7. CopyInv /\ CopiesStay
  BY <1>4 DEF CoreInv, CopiesStay, Busy
<1>8. QED
  BY <1>3, <1>5, <1>6, <1>7, CopiesKept, SpecParts, SpecNextParts,
     DeletedParts, DeletedNextParts

(* A fresh copy is the only version, so that no other one is deceived.     *)
LEMMA WritesVersions ==
  ASSUME CoreInv, NEW w \in Workers, Writes(w)
  PROVE  /\ SpecInv => SpecInv'
         /\ OneWorker /\ DeletedInv => DeletedInv'
<1>1. Busy(w) /\ resource[w].deleting \in BOOLEAN /\ WritesEdited(w)
  BY WritesEdit
<1>2. PICK version \in Resource, again \in BOOLEAN :
        Write(w, version, again) /\ WorkerEdit(w, version)
  BY <1>1 DEF WritesEdited
<1>3. /\ pc'[w] = "idle"
      /\ \A x \in Workers : x # w =>
           /\ pc'[x] = pc[x] /\ request'[x] = request[x]
           /\ resource'[x] = resource[x]
  BY <1>1, <1>2, WriteEffect DEF CoreInv, BaseInv
<1>4. SpecCopies => SpecCopies'
  BY <1>3 DEF SpecCopies, Busy
<1>5. OneWorker => DeletedCopies'
  <2>1. OneWorker => \A x \in Workers : pc'[x] = "idle"
    BY <1>3 DEF OneWorker
  <2>2. QED
    BY <2>1 DEF DeletedCopies, Busy
<1>6. CASE UNCHANGED versions
  <2>1. ServesNoMore
    BY <1>6 DEF ServesNoMore, Current
  <2>2. /\ SpecVersions => SpecVersions'
        /\ DeletedVersions => DeletedVersions'
    BY <1>6, <2>1, SpecVersionsKept, DeletedVersionsKept
  <2>3. QED
    BY <1>4, <1>5, <2>2, SpecParts, SpecNextParts, DeletedParts,
       DeletedNextParts
<1>7. CASE w \in fresh /\ Store(request[w], Stored(version))
  <2>1. PICK e \in Resources : e = request[w]
    BY <1>1 DEF CoreInv, CopyInv
  <2>2. /\ Stored(version) \in Version /\ Stored(version) \in {version, NoResource}
        /\ ToSet(versions[e]) = {resource[w]} /\ Exists(resource[w])
    BY <1>1, <1>7, <2>1, StoredType, FreshCopy DEF CoreInv, CopyInv, Stored
  <2>3. /\ Current(e)' = Stored(version)
        /\ ToSet(versions'[e]) = ToSet(versions[e]) \cup {Stored(version)}
        /\ \A d \in Resources : d # e => /\ versions'[d] = versions[d]
                                         /\ Current(d)' = Current(d)
    BY <1>7, <2>1, <2>2, StoreCurrent DEF CoreInv
  <2>4. SpecVersions => SpecVersions'
    <3>1. SpecVersions => resource[w].spec \in SpecsOf[e]
      BY <2>2 DEF SpecVersions
    <3>2. SpecVersions =>
            (Exists(Stored(version)) => Stored(version).spec \in SpecsOf[e])
      BY <1>2, <2>2, <3>1 DEF WorkerEdit, Exists
    <3>3. QED
      BY <2>3, <3>2, SpecVersionsKept
  <2>5. ASSUME DeletedVersions
        PROVE  DeletedVersions'
    <3>1. SUFFICES ASSUME NEW d \in Resources, NEW v \in ToSet(versions'[d]),
                          Exists(v), v.deleting
                   PROVE  ~Served(Current(d)')
      BY DEF DeletedVersions, Served, Held, Exists, HasTopoFinalizer, Current
    <3>2. CASE d # e
      BY <2>3, <2>5, <3>1, <3>2 DEF DeletedVersions
    <3>3. CASE d = e
      <4>1. version.deleting
        BY <1>2, <2>2, <2>3, <3>1, <3>3 DEF WorkerEdit, Exists
      <4>2. QED
        BY <2>2, <2>3, <3>3, <4>1 DEF Served, Held, Exists
    <3>4. QED
      BY <3>2, <3>3
  <2>6. QED
    BY <1>4, <1>5, <2>4, <2>5, SpecParts, SpecNextParts, DeletedParts,
       DeletedNextParts
<1>8. QED
  BY <1>2, <1>6, <1>7 DEF Write

LEMMA TakeVersions ==
  ASSUME CoreInv, NEW w \in Workers, NEW e \in Resources, Take(w, e)
  PROVE  (SpecInv => SpecInv') /\ (DeletedInv => DeletedInv')
<1>1. versions' = versions /\ ServesNoMore
  BY DEF Take, Skip, Fetch, ServesNoMore, Current
<1>2. /\ SpecVersions => SpecVersions'
      /\ DeletedVersions => DeletedVersions'
  BY <1>1, SpecVersionsKept, DeletedVersionsKept
<1>3. CASE Skip(w, e)
  <2>1. CopiesStay /\ CopyInv
    BY <1>3 DEF Skip, CopiesStay, Busy, CoreInv
  <2>2. QED
    BY <1>1, <1>2, <2>1, CopiesKept, SpecParts, SpecNextParts, DeletedParts,
       DeletedNextParts
<1>4. CASE Fetch(w, e)
  <2>1. /\ request'[w] = e /\ resource'[w] = Cached(e)
        /\ Exists(Cached(e)) /\ Cached(e) \in ToSet(versions[e])
        /\ \A x \in Workers : x # w =>
             /\ pc'[x] = pc[x] /\ request'[x] = request[x]
             /\ resource'[x] = resource[x]
    BY <1>4, CurrentType DEF Fetch, CoreInv, TypeOK
  <2>2. SpecInv => SpecCopies'
    BY <2>1, SpecParts DEF SpecVersions, SpecCopies, Busy
  <2>3. ASSUME DeletedInv
        PROVE  DeletedCopies'
    <3>1. SUFFICES ASSUME NEW x \in Workers, pc'[x] # "idle",
                          resource'[x].deleting
                   PROVE  ~Served(Last(versions'[request'[x]]))
      BY DEF DeletedCopies, Served, Held, Exists, HasTopoFinalizer, Current,
             Busy
    <3>2. CASE x = w
      BY <1>1, <2>1, <2>3, <3>1, <3>2, DeletedParts
      DEF DeletedVersions, Current
    <3>3. CASE x # w
      BY <1>1, <2>1, <2>3, <3>1, <3>3, DeletedParts
      DEF DeletedCopies, Current, Busy
    <3>4. QED
      BY <3>2, <3>3
  <2>4. QED
    BY <1>2, <2>2, <2>3, SpecParts, SpecNextParts, DeletedParts,
       DeletedNextParts
<1>5. QED
  BY <1>3, <1>4 DEF Take

(* Steps of a reconcile and of the surroundings that store nothing.        *)
LEMMA QuietVersions ==
  ASSUME CopyInv, CopiesStay,
         \A e \in Resources : Current(e)' = Current(e),
         \A e \in Resources : ToSet(versions'[e]) \subseteq ToSet(versions[e])
  PROVE  (SpecInv => SpecInv') /\ (DeletedInv => DeletedInv')
<1>1. ServesNoMore
  BY DEF ServesNoMore
<1>2. /\ SpecVersions => SpecVersions'
      /\ DeletedVersions => DeletedVersions'
  BY <1>1, SpecVersionsKept, DeletedVersionsKept
<1>3. QED
  BY <1>1, <1>2, CopiesKept, SpecParts, SpecNextParts, DeletedParts,
     DeletedNextParts

LEMMA MovesVersions ==
  ASSUME CoreInv, NEW w \in Workers, Moves(w)
  PROVE  (SpecInv => SpecInv') /\ (DeletedInv => DeletedInv')
<1>1. /\ versions' = versions
      /\ \A x \in Workers : x # w =>
           /\ pc'[x] = pc[x] /\ request'[x] = request[x]
           /\ resource'[x] = resource[x]
      /\ \/ pc'[w] = "idle"
         \/ Busy(w) /\ request'[w] = request[w] /\ resource'[w] = resource[w]
  BY MovesEffect
<1>2. CopiesStay /\ CopyInv
  BY <1>1 DEF CopiesStay, Busy, CoreInv
<1>3. QED
  BY <1>1, <1>2, QuietVersions DEF Current

LEMMA EnvironmentVersionsKept ==
  ASSUME CoreInv,
         \/ \E e \in Resources : Deliver(e)
         \/ \E u \in URIs : TopoClientWrite(u)
         \/ DeliverService \/ Resync \/ TopoInstall \/ TopoUninstall
         \/ Restart
  PROVE  (SpecInv => SpecInv') /\ (DeletedInv => DeletedInv')
<1>1. /\ \A e \in Resources : Current(e)' = Current(e)
      /\ \A e \in Resources : ToSet(versions'[e]) \subseteq ToSet(versions[e])
      /\ \/ UNCHANGED <<pc, request, resource>>
         \/ \A w \in Workers : pc'[w] = "idle"
  BY EnvironmentVersions
<1>2. CopiesStay /\ CopyInv
  BY <1>1 DEF CopiesStay, Busy, CoreInv
<1>3. QED
  BY <1>1, <1>2, QuietVersions

LEMMA VersionsStep ==
  CoreInv /\ [Next]_vars =>
    /\ SpecInv => SpecInv'
    /\ OneWorker /\ DeletedInv => DeletedInv'
<1> SUFFICES ASSUME CoreInv, [Next]_vars
             PROVE  /\ SpecInv => SpecInv'
                    /\ OneWorker /\ DeletedInv => DeletedInv'
  OBVIOUS
<1>1. ASSUME NEW w \in Workers, Step(w)
      PROVE  /\ SpecInv => SpecInv'
             /\ OneWorker /\ DeletedInv => DeletedInv'
  BY <1>1, WritesVersions, MovesVersions DEF Step, Writes, Moves
<1>2. CASE UNCHANGED vars
  <2>1. CopiesStay /\ CopyInv
    BY <1>2 DEF vars, CopiesStay, Busy, CoreInv
  <2>2. QED
    BY <1>2, <2>1, QuietVersions DEF vars, Current
<1>3. QED
  BY <1>1, <1>2, UsersVersions, TakeVersions, EnvironmentVersionsKept DEF Next

LEMMA VersionsInit == Init => SpecInv /\ DeletedInv
<1> SUFFICES ASSUME Init
             PROVE  SpecInv /\ DeletedInv
  OBVIOUS
<1>1. \A e \in Resources : ToSet(versions[e]) = {NoResource}
  BY OneElement DEF Init, Version
<1>2. QED
  BY <1>1 DEF Init, SpecInv, DeletedInv, Exists, Busy

-----------------------------------------------------------------------------
(* An Entity that is Added has its object.                                 *)

LEMMA PublishedParts ==
  PublishedInv =>
    /\ CoreInv /\ BaseInv /\ SpecInv /\ DeletedInv /\ AddedInv
    /\ outages \in Nat /\ topo \in [URIs -> Aspects \cup {NoObject}]
    /\ \A e \in Resources : Exists(Current(e)) =>
         /\ Current(e).spec \in SpecsOf[e] /\ Current(e).spec.uri \in URIs
         /\ Added(Current(e)) => Served(Current(e))
<1> SUFFICES ASSUME PublishedInv
             PROVE  /\ BaseInv
                    /\ outages \in Nat /\ topo \in [URIs -> Aspects \cup {NoObject}]
                    /\ \A e \in Resources : Exists(Current(e)) =>
                         /\ Current(e).spec \in SpecsOf[e]
                         /\ Current(e).spec.uri \in URIs
                         /\ Added(Current(e)) => Served(Current(e))
  BY DEF PublishedInv
<1>1. BaseInv /\ CoreInv /\ SpecInv
  BY DEF PublishedInv, CoreInv, BaseInv
<1>2. outages \in Nat /\ topo \in [URIs -> Aspects \cup {NoObject}]
  BY <1>1, BoundAssumption DEF BaseInv, TypeOK
<1>3. ASSUME NEW e \in Resources, Exists(Current(e))
      PROVE  /\ Current(e).spec \in SpecsOf[e] /\ Current(e).spec.uri \in URIs
             /\ Added(Current(e)) => Served(Current(e))
  <2>1. Current(e).spec \in SpecsOf[e]
    BY <1>1, <1>3, CurrentType DEF SpecInv, BaseInv
  <2>2. Current(e).spec.uri \in URIs
    BY <2>1, SpecsAssumption DEF Specs
  <2>3. Lawful(Current(e))
    BY <1>1, CoreInvParts
  <2>4. QED
    BY <1>3, <2>1, <2>2, <2>3 DEF Lawful, Added, Served, Held
<1>4. QED
  BY <1>1, <1>2, <1>3

(* Objects stay, and an Entity or a worker that counts on one did so       *)
(* before, or can.                                                         *)
LEMMA AddedKept ==
  ASSUME PublishedInv, ObjectsKept' => ObjectsKept,
         ObjectsKept' => \A u \in URIs : topo[u] # NoObject => topo'[u] # NoObject,
         \A w \in Workers : pc'[w] = "created" =>
           \/ pc[w] = "created" /\ resource'[w] = resource[w]
           \/ topo'[resource'[w].spec.uri] # NoObject,
         \A e \in Resources : Exists(Current(e)') /\ Added(Current(e)') =>
           \/ /\ Exists(Current(e)) /\ Added(Current(e))
              /\ Current(e)'.spec.uri = Current(e).spec.uri
           \/ ObjectsKept' => topo'[Current(e)'.spec.uri] # NoObject
  PROVE  AddedInv'
<1>1. ASSUME ObjectsKept', NEW w \in Workers, pc'[w] = "created"
      PROVE  topo'[resource'[w].spec.uri] # NoObject
  <2>1. CASE pc[w] = "created" /\ resource'[w] = resource[w]
    <3>1. topo[ObjectID(w)] # NoObject
      BY <1>1, <2>1 DEF PublishedInv, AddedInv
    <3>2. ObjectID(w) \in URIs
      BY <2>1, CopyType, PublishedParts DEF BaseInv, Busy
    <3>3. QED
      BY <1>1, <2>1, <3>1, <3>2 DEF ObjectID
  <2>2. QED
    BY <1>1, <2>1
<1>2. ASSUME ObjectsKept', NEW e \in Resources, Exists(Current(e)'),
             Added(Current(e)')
      PROVE  topo'[Current(e)'.spec.uri] # NoObject
  <2>1. CASE /\ Exists(Current(e)) /\ Added(Current(e))
             /\ Current(e)'.spec.uri = Current(e).spec.uri
    <3>1. topo[Current(e).spec.uri] # NoObject /\ Current(e).spec.uri \in URIs
      BY <1>2, <2>1, PublishedParts DEF AddedInv
    <3>2. QED
      BY <1>2, <2>1, <3>1
  <2>2. QED
    BY <1>2, <2>1
<1>3. QED
  BY <1>1, <1>2 DEF AddedInv, ObjectID, Exists, Added

LEMMA UsersAdded ==
  ASSUME PublishedInv, FixedURIs, NEW e \in Resources,
         User(e) \/ CollectorRelease(e)
  PROVE  AddedInv'
<1>1. PICK version \in Version :
        Store(e, version) /\ UserEdit(e, Current(e), version)
  BY UsersEdit, PublishedParts DEF BaseInv
<1>2. /\ Current(e)' = version
      /\ \A d \in Resources : d # e => Current(d)' = Current(d)
  BY <1>1, StoreCurrent, PublishedParts DEF BaseInv
<1>3. UNCHANGED <<topo, pc, resource, outages>>
  BY DEF User, UserCreate, UserUpdate, UserDelete, CollectorRelease, Operation
<1>4. ASSUME Exists(version), Added(version)
      PROVE  /\ Exists(Current(e)) /\ Added(Current(e))
             /\ version.spec.uri = Current(e).spec.uri
  <2>1. /\ Exists(Current(e)) /\ Added(Current(e))
        /\ version.spec = Current(e).spec \/ version.spec \in SpecsOf[e]
    BY <1>1, <1>4 DEF UserEdit, Added
  <2>2. Current(e).spec \in SpecsOf[e]
    BY <2>1, PublishedParts
  <2>3. QED
    BY <2>1, <2>2 DEF FixedURIs
<1>5. QED
  BY <1>2, <1>3, <1>4, AddedKept DEF ObjectsKept

(* Only a worker that has seen to the object says Added.                   *)
LEMMA WritesAdded ==
  ASSUME PublishedInv, NEW w \in Workers, Writes(w)
  PROVE  AddedInv'
<1>1. Busy(w) /\ WritesEdited(w)
  BY WritesEdit, PublishedParts
<1>2. PICK version \in Resource, again \in BOOLEAN :
        Write(w, version, again) /\ WorkerEdit(w, version)
  BY <1>1 DEF WritesEdited
<1>3. /\ pc'[w] = "idle"
      /\ \A x \in Workers : x # w =>
           pc'[x] = pc[x] /\ resource'[x] = resource[x]
      /\ UNCHANGED <<topo, outages>>
  BY <1>1, <1>2, WriteEffect, PublishedParts
<1>4. \A e \in Resources : Exists(Current(e)') /\ Added(Current(e)') =>
        \/ /\ Exists(Current(e)) /\ Added(Current(e))
           /\ Current(e)'.spec.uri = Current(e).spec.uri
        \/ ObjectsKept => topo[Current(e)'.spec.uri] # NoObject
  <2>1. CASE UNCHANGED versions
    BY <2>1 DEF Current
  <2>2. CASE w \in fresh /\ Store(request[w], Stored(version))
    <3>1. PICK e \in Resources : e = request[w]
      BY <1>1, PublishedParts DEF BaseInv, CopyInv
    <3>2. /\ Current(e)' = Stored(version) /\ Current(e) = resource[w]
          /\ Exists(resource[w])
          /\ \A d \in Resources : d # e => Current(d)' = Current(d)
      BY <1>1, <2>2, <3>1, StoredType, StoreCurrent, FreshCopy, PublishedParts
      DEF BaseInv, CopyInv
    <3>3. SUFFICES ASSUME Exists(Stored(version)), Added(Stored(version))
                   PROVE  \/ /\ Added(resource[w])
                             /\ Stored(version).spec.uri = ObjectID(w)
                          \/ ObjectsKept =>
                               topo[Stored(version).spec.uri] # NoObject
      BY <3>2 DEF ObjectID
    <3>4. /\ Stored(version) = version
          /\ version.spec.uri = ObjectID(w)
          /\ ~resource[w].deleting
          /\ resource[w].state = "Added" \/ pc[w] = "created"
      BY <1>2, <3>3, StoredHeld, NothingIsNoResource
      DEF WorkerEdit, Added, ObjectID
    <3>5. CASE resource[w].state = "Added"
      BY <3>4, <3>5 DEF Added
    <3>6. CASE pc[w] = "created"
      BY <3>4, <3>6, PublishedParts DEF AddedInv
    <3>7. QED
      BY <3>4, <3>5, <3>6
  <2>3. QED
    BY <1>2, <2>1, <2>2 DEF Write
<1>5. QED
  BY <1>3, <1>4, AddedKept DEF ObjectsKept

(* Which step leads to which label.                                        *)
LEMMA MovesLabels ==
  ASSUME CoreInv, NEW w \in Workers, Moves(w)
  PROVE  /\ pc'[w] = "deleted" => DeleteEntity(w)
         /\ pc'[w] = "notFound" => ReadService(w)
         /\ pc'[w] = "exists" => ConnectService(w)
         /\ pc'[w] = "update" => EntityExists(w)
         /\ pc'[w] = "create" => EntityExists(w) \/ UpdateEntity(w)
         /\ pc'[w] = "created" => CreateEntity(w)
<1>1. ASSUME NEW label, pc' = [pc EXCEPT ![w] = label]
      PROVE  pc'[w] = label
  BY <1>1 DEF CoreInv, TypeOK
<1>2. CASE ServiceNotFound(w) \/ CallFails(w) \/ Ignore(w)
  BY <1>1, <1>2 DEF ServiceNotFound, CallFails, Ignore, Return
<1>3. CASE ReadServiceFails(w)
  BY <1>1, <1>3 DEF ReadServiceFails, Goto
<1>4. CASE ConnectService(w)
  BY <1>1, <1>4 DEF ConnectService, Goto
<1>5. CASE EntityExists(w)
  <2>1. PICK label \in {"create", "update"} : Goto(w, label)
    BY <1>5 DEF EntityExists
  <2>2. QED
    BY <1>1, <1>5, <2>1 DEF Goto
<1>6. CASE UpdateEntity(w)
  <2>1. Goto(w, "create") \/ Return(w, Requeue)
    BY <1>6 DEF UpdateEntity, Reply
  <2>2. QED
    BY <1>1, <1>6, <2>1 DEF Goto, Return
<1>7. CASE CreateEntity(w)
  <2>1. Goto(w, "created") \/ Return(w, Requeue)
    BY <1>7 DEF CreateEntity, Reply
  <2>2. QED
    BY <1>1, <1>7, <2>1 DEF Goto, Return
<1>8. CASE ReadService(w)
  <2>1. PICK label \in {"found", "notFound"} : Goto(w, label)
    BY <1>8 DEF ReadService
  <2>2. QED
    BY <1>1, <1>8, <2>1 DEF Goto
<1>9. CASE DeleteEntity(w)
  <2>1. Goto(w, "deleted") \/ Return(w, Requeue)
    BY <1>9 DEF DeleteEntity, Reply
  <2>2. QED
    BY <1>1, <1>9, <2>1 DEF Goto, Return
<1>10. QED
  BY <1>2, <1>3, <1>4, <1>5, <1>6, <1>7, <1>8, <1>9 DEF Moves

(* What the calls to onos-topo do to the objects.                          *)
LEMMA MovesObjects ==
  ASSUME PublishedInv, NEW w \in Workers, Moves(w)
  PROVE  /\ Busy(w) /\ ObjectID(w) \in URIs /\ UNCHANGED outages
         /\ \/ DeleteEntity(w)
            \/ \A u \in URIs : topo[u] # NoObject => topo'[u] # NoObject
         /\ CreateEntity(w) => topo'[ObjectID(w)] # NoObject
<1>1. Busy(w) /\ UNCHANGED outages
  BY DEF Moves, ReadService, ReadServiceFails, ConnectService,
         ServiceNotFound, CallFails, Ignore, EntityExists, UpdateEntity,
         CreateEntity, DeleteEntity, Busy, Reply
<1>2. /\ ObjectID(w) \in URIs /\ resource[w].spec.aspects \in Aspects
      /\ topo \in [URIs -> Aspects \cup {NoObject}]
  BY <1>1, CopyType, PublishedParts DEF BaseInv
<1>3. CASE UNCHANGED topo /\ ~CreateEntity(w)
  BY <1>1, <1>2, <1>3
<1>4. CASE UpdateEntity(w) /\ ~UNCHANGED topo
  <2>1. /\ topo[ObjectID(w)] # NoObject
        /\ topo' = [topo EXCEPT ![ObjectID(w)] =
                      SetAspects(@, resource[w].spec.aspects)]
        /\ ~CreateEntity(w)
    BY <1>4, PublishedParts DEF UpdateEntity, CreateEntity, CoreInv, RevisionInv
  <2>2. SetAspects(topo[ObjectID(w)], resource[w].spec.aspects) # NoObject
    BY <1>2, <2>1, AspectsType, NoObjectAssumption
  <2>3. QED
    BY <1>1, <1>2, <2>1, <2>2
<1>5. CASE CreateEntity(w)
  <2>1. SetAspects(NoAspects, resource[w].spec.aspects) # NoObject
    BY <1>2, AspectsType, NoObjectAssumption DEF NoAspects, Aspects
  <2>2. IF topo[ObjectID(w)] = NoObject
        THEN topo' = [topo EXCEPT ![ObjectID(w)] =
                        SetAspects(NoAspects, resource[w].spec.aspects)]
        ELSE topo' = topo
    BY <1>5 DEF CreateEntity
  <2>3. QED
    BY <1>1, <1>2, <2>1, <2>2
<1>6. QED
  BY <1>1, <1>2, <1>3, <1>4, <1>5
  DEF Moves, ReadService, ReadServiceFails, ConnectService,
      ServiceNotFound, CallFails, Ignore, EntityExists, CreateEntity,
      DeleteEntity

(* Nobody withdraws an object that an Entity is served by.                 *)
LEMMA DeleteAdded ==
  ASSUME PublishedInv, OneWorker, DistinctURIs, NEW w \in Workers,
         DeleteEntity(w)
  PROVE  AddedInv'
<1>1. /\ Moves(w) /\ Busy(w) /\ pc[w] = "delete"
      /\ topo' = [topo EXCEPT ![ObjectID(w)] = NoObject]
      /\ UNCHANGED <<versions, outages>>
  BY DEF Moves, DeleteEntity, Reply, Busy
<1>2. ~(\E x \in Workers : pc'[x] = "created")
  BY <1>1, MovesLabels, PublishedParts DEF OneWorker, CreateEntity
<1>3. /\ request[w] \in Resources /\ resource[w].spec \in SpecsOf[request[w]]
      /\ ~Served(Current(request[w]))
  <2>1. resource[w].deleting
    BY <1>1, PublishedParts DEF CoreInv, PathInv, Removing
  <2>2. QED
    BY <1>1, <2>1, PublishedParts DEF BaseInv, CopyInv, SpecInv, DeletedInv
<1>4. ASSUME NEW e \in Resources, Exists(Current(e)), Added(Current(e))
      PROVE  topo'[Current(e).spec.uri] = topo[Current(e).spec.uri]
  <2>1. e # request[w] /\ Current(e).spec \in SpecsOf[e]
    BY <1>3, <1>4, PublishedParts
  <2>2. Current(e).spec.uri # ObjectID(w)
    BY <1>3, <2>1 DEF DistinctURIs, ObjectID
  <2>3. QED
    BY <1>1, <1>4, <2>2, PublishedParts
<1>5. QED
  BY <1>1, <1>2, <1>4, PublishedParts
  DEF AddedInv, ObjectsKept, Current, Exists, Added

LEMMA MovesAdded ==
  ASSUME PublishedInv, OneWorker, DistinctURIs, NEW w \in Workers, Moves(w)
  PROVE  AddedInv'
<1>1. CASE DeleteEntity(w)
  BY <1>1, DeleteAdded
<1>2. CASE ~DeleteEntity(w)
  <2>1. /\ UNCHANGED <<versions, outages>>
        /\ \A u \in URIs : topo[u] # NoObject => topo'[u] # NoObject
        /\ CreateEntity(w) => topo'[ObjectID(w)] # NoObject
    BY <1>2, MovesObjects, MovesEffect, PublishedParts
  <2>2. \A x \in Workers : pc'[x] = "created" =>
          topo'[resource'[x].spec.uri] # NoObject
    <3>1. SUFFICES ASSUME pc'[w] = "created"
                   PROVE  topo'[resource'[w].spec.uri] # NoObject
      BY DEF OneWorker
    <3>2. CreateEntity(w) /\ resource'[w] = resource[w]
      BY <3>1, MovesLabels, MovesEffect, PublishedParts
    <3>3. QED
      BY <2>1, <3>2 DEF ObjectID
  <2>3. QED
    BY <2>1, <2>2, AddedKept DEF ObjectsKept, Current
<1>3. QED
  BY <1>1, <1>2

(* The workers and the resources stay, and the objects if they are kept.   *)
LEMMA QuietAdded ==
  ASSUME PublishedInv, ObjectsKept' => ObjectsKept /\ UNCHANGED topo,
         \A w \in Workers : pc'[w] = "created" =>
           pc[w] = "created" /\ resource'[w] = resource[w],
         \A e \in Resources : Current(e)' = Current(e)
  PROVE  AddedInv'
BY AddedKept

LEMMA EnvironmentAdded ==
  ASSUME PublishedInv,
         \/ \E e \in Resources : Deliver(e)
         \/ \E u \in URIs : TopoClientWrite(u)
         \/ DeliverService \/ Resync \/ TopoInstall \/ TopoUninstall
         \/ Restart
  PROVE  AddedInv'
<1>1. /\ \A e \in Resources : Current(e)' = Current(e)
      /\ \/ UNCHANGED <<pc, request, resource>>
         \/ \A w \in Workers : pc'[w] = "idle"
  BY EnvironmentVersions, PublishedParts
<1>2. ObjectsKept' => ObjectsKept /\ UNCHANGED topo
  <2>1. CASE TopoUninstall
    <3>1. outages' = outages + 1 /\ (StoreSurvives => topo' = topo)
      BY <2>1 DEF TopoUninstall
    <3>2. outages' # 0
      BY <3>1, PublishedParts
    <3>3. QED
      BY <3>1, <3>2 DEF ObjectsKept
  <2>2. CASE UNCHANGED <<topo, outages>>
    BY <2>2 DEF ObjectsKept
  <2>3. QED
    BY <2>1, <2>2
    DEF Deliver, TopoClientWrite, DeliverService, Resync, TopoInstall, Restart
<1>3. QED
  BY <1>1, <1>2, QuietAdded

LEMMA TakeAdded ==
  ASSUME PublishedInv, NEW w \in Workers, NEW e \in Resources, Take(w, e)
  PROVE  AddedInv'
<1>1. /\ UNCHANGED <<versions, topo, outages>>
      /\ \A x \in Workers : pc'[x] = "created" =>
           pc[x] = "created" /\ resource'[x] = resource[x]
  BY PublishedParts DEF Take, Skip, Fetch, BaseInv, TypeOK
<1>2. QED
  BY <1>1, QuietAdded DEF ObjectsKept, Current

LEMMA PublishedInvInit == Init => PublishedInv
<1> SUFFICES ASSUME Init
             PROVE  AddedInv
  BY CoreInvInit, VersionsInit DEF PublishedInv
<1>1. \A e \in Resources : Current(e) = NoResource
  BY OneElement DEF Init, Current, Version
<1>2. QED
  BY <1>1 DEF Init, AddedInv, Exists

LEMMA PublishedInvStep ==
  ASSUME OneWorker, FixedURIs, DistinctURIs
  PROVE  PublishedInv /\ [Next]_vars => PublishedInv'
<1> SUFFICES ASSUME PublishedInv, [Next]_vars
             PROVE  AddedInv'
  BY CoreInvStep, VersionsStep DEF PublishedInv
<1>1. ASSUME NEW w \in Workers, Step(w)
      PROVE  AddedInv'
  BY <1>1, WritesAdded, MovesAdded DEF Step, Writes, Moves
<1>2. CASE UNCHANGED vars
  BY <1>2, QuietAdded DEF vars, ObjectsKept, Current
<1>3. QED
  BY <1>1, <1>2, UsersAdded, TakeAdded, EnvironmentAdded DEF Next

(***************************************************************************)
(* As long as onos-topo keeps its objects, an Entity at rest that is not   *)
(* to be deleted has its object in onos-topo, for any bounds, provided one *)
(* worker, URIs that do not change and no URI that two Entities name.      *)
(***************************************************************************)
THEOREM RestMeansPublishedHolds ==
  ASSUME OneWorker, FixedURIs, DistinctURIs
  PROVE  Spec => []RestMeansPublished
<1>1. WakeInv /\ PublishedInv => RestMeansPublished
  <2>1. SUFFICES ASSUME WakeInv, PublishedInv,
                        NEW w \in Workers, NEW e \in Resources,
                        AtRest(w, e), ObjectsKept,
                        Exists(Current(e)), ~Current(e).deleting
                 PROVE  topo[Current(e).spec.uri] # NoObject
    BY DEF RestMeansPublished
  <2>2. Added(Current(e))
    BY <2>1 DEF WakeInv, SettledInv, Settled, Finalized, StuckPending, Seen,
                AtRest
  <2>3. QED
    BY <2>1, <2>2, PublishedParts DEF AddedInv
<1>2. PublishedInv /\ [Next]_vars => PublishedInv'
  BY PublishedInvStep
<1>3. QED
  BY <1>1, <1>2, PublishedInvInit, WakeInvCorrect, PTL DEF Spec

-----------------------------------------------------------------------------
(* The object carries the aspects of the spec when the status says Added.  *)

(* What CarriedInv says of one worker.                                     *)
CarriedBy(w) ==
  LET object == topo[ObjectID(w)] IN
  /\ pc[w] = "update" => object = NoObject \/ w \in topoFresh
  /\ pc[w] \in {"create", "created"} =>
       object = NoObject \/ Carries(object, resource[w].spec.aspects)
  /\ pc[w] = "created" => object # NoObject \/ outages > 0

LEMMA CarriedParts == CarriedInv <=> \A w \in Workers : CarriedBy(w)
BY DEF CarriedInv, CarriedBy

LEMMA CarriedNextParts == CarriedInv' <=> \A w \in Workers : CarriedBy(w)'
BY DEF CarriedInv, CarriedBy

(* Workers that call onos-topo keep their place, and the objects stay.     *)
LEMMA CarriedKept ==
  ASSUME CarriedInv, UNCHANGED <<topo, topoFresh, outages>>,
         \A w \in Workers : pc'[w] \in {"update", "create", "created"} =>
           pc'[w] = pc[w] /\ resource'[w] = resource[w]
  PROVE  CarriedInv'
<1> SUFFICES ASSUME NEW w \in Workers,
                    pc'[w] \in {"update", "create", "created"}
             PROVE  CarriedBy(w)'
  BY CarriedNextParts DEF CarriedBy
<1>1. pc'[w] = pc[w] /\ resource'[w] = resource[w] /\ CarriedBy(w)
  BY CarriedParts
<1>2. QED
  BY <1>1 DEF CarriedBy, ObjectID

(* The calls of a reconcile, in order.                                     *)
LEMMA MovesCarried ==
  ASSUME CoreInv, CarriedInv, OneWorker, NEW w \in Workers, Moves(w)
  PROVE  CarriedInv'
<1>1. /\ CarriedBy(w)
      /\ outages \in Nat /\ topo \in [URIs -> Aspects \cup {NoObject}]
      /\ topoFresh \subseteq Workers
  BY CarriedParts, BoundAssumption DEF CoreInv, TypeOK
<1>2. SUFFICES ASSUME pc'[w] \in {"update", "create", "created"}
               PROVE  CarriedBy(w)'
  BY CarriedNextParts DEF CarriedBy, OneWorker
<1>3. resource'[w] = resource[w]
  BY <1>2, MovesEffect
<1>4. CASE pc'[w] = "update"
  <2>1. topoFresh' = topoFresh \cup {w} \/ topo[ObjectID(w)] = NoObject
    BY <1>4, MovesLabels DEF EntityExists
  <2>2. topo' = topo
    BY <1>4, MovesLabels DEF EntityExists
  <2>3. QED
    BY <1>3, <1>4, <2>1, <2>2 DEF CarriedBy, ObjectID
<1>5. CASE pc'[w] = "create"
  <2>1. CASE EntityExists(w)
    <3>1. topo[ObjectID(w)] = NoObject /\ topo' = topo
      <4>1. Goto(w, IF topo[ObjectID(w)] = NoObject THEN "create" ELSE "update")
        BY <2>1 DEF EntityExists
      <4>2. pc \in [Workers -> PCs]
        BY DEF CoreInv, TypeOK
      <4>3. topo[ObjectID(w)] = NoObject
        BY <1>5, <4>1, <4>2 DEF Goto
      <4>4. QED
        BY <2>1, <4>3 DEF EntityExists
    <3>2. QED
      BY <1>3, <1>5, <3>1 DEF CarriedBy, ObjectID
  <2>2. CASE UpdateEntity(w)
    <3>1. pc[w] = "update" /\ Busy(w)
      BY <2>2 DEF UpdateEntity, Busy
    <3>2. ObjectID(w) \in URIs /\ resource[w].spec.aspects \in Aspects
      BY <3>1, CopyType DEF CoreInv
    <3>3. CASE w \in topoFresh
      <4>1. topo[ObjectID(w)] \in Aspects
        BY <1>1, <3>2, <3>3 DEF CoreInv, RevisionInv
      <4>2. topo'[ObjectID(w)]
              = SetAspects(topo[ObjectID(w)], resource[w].spec.aspects)
        BY <1>1, <2>2, <3>2, <3>3 DEF UpdateEntity
      <4>3. Carries(topo'[ObjectID(w)], resource[w].spec.aspects)
        BY <3>2, <4>1, <4>2, WrittenCarries
      <4>4. QED
        BY <1>3, <1>5, <4>3 DEF CarriedBy, ObjectID, Carries, SetAspects
    <3>4. CASE w \notin topoFresh
      <4>1. topo' = topo /\ topo[ObjectID(w)] = NoObject
        BY <1>1, <2>2, <3>1, <3>4 DEF UpdateEntity, CarriedBy
      <4>2. QED
        BY <1>3, <1>5, <4>1 DEF CarriedBy, ObjectID
    <3>5. QED
      BY <3>3, <3>4
  <2>3. QED
    BY <1>5, <2>1, <2>2, MovesLabels
<1>6. CASE pc'[w] = "created"
  <2>1. CreateEntity(w) /\ pc[w] = "create" /\ Busy(w)
    BY <1>6, MovesLabels DEF CreateEntity, Busy
  <2>2. ObjectID(w) \in URIs /\ resource[w].spec.aspects \in Aspects
    BY <2>1, CopyType DEF CoreInv
  <2>3. CASE topo[ObjectID(w)] = NoObject
    <3>1. topo'[ObjectID(w)] = SetAspects(NoAspects, resource[w].spec.aspects)
      BY <1>1, <2>1, <2>2, <2>3 DEF CreateEntity
    <3>2. NoAspects \in Aspects
      BY DEF NoAspects, Aspects
    <3>3. /\ Carries(topo'[ObjectID(w)], resource[w].spec.aspects)
          /\ topo'[ObjectID(w)] # NoObject
      BY <2>2, <3>1, <3>2, WrittenCarries, AspectsType, NoObjectAssumption
    <3>4. QED
      BY <1>3, <1>6, <3>3 DEF CarriedBy, ObjectID, Carries, SetAspects
  <2>4. CASE topo[ObjectID(w)] # NoObject
    <3>1. topo' = topo
      BY <2>1, <2>4 DEF CreateEntity
    <3>2. Carries(topo[ObjectID(w)], resource[w].spec.aspects)
      BY <1>1, <2>1, <2>4 DEF CarriedBy
    <3>3. QED
      BY <1>3, <1>6, <2>4, <3>1, <3>2
      DEF CarriedBy, ObjectID, Carries, SetAspects
  <2>5. QED
    BY <2>3, <2>4
<1>7. QED
  BY <1>2, <1>4, <1>5, <1>6

LEMMA EnvironmentCarried ==
  ASSUME CoreInv, CarriedInv, ~TopoClients,
         \/ \E e \in Resources : Deliver(e)
         \/ \E u \in URIs : TopoClientWrite(u)
         \/ DeliverService \/ Resync \/ TopoInstall \/ TopoUninstall
         \/ Restart
  PROVE  CarriedInv'
<1>1. CASE TopoUninstall /\ ~StoreSurvives
  <2>1. topo' = [u \in URIs |-> NoObject] /\ outages' > 0 /\ resource' = resource
        /\ pc' = pc
    BY <1>1, BoundAssumption DEF TopoUninstall, CoreInv, TypeOK
  <2>2. \A w \in Workers : pc[w] \in {"update", "create", "created"} =>
          ObjectID(w) \in URIs
    BY CopyType DEF CoreInv, Busy
  <2>3. ASSUME NEW w \in Workers
        PROVE  CarriedBy(w)'
    BY <2>1, <2>2 DEF CarriedBy, ObjectID
  <2>4. QED
    BY <2>3, CarriedNextParts
<1>2. CASE TopoUninstall /\ StoreSurvives
  <2>1. /\ UNCHANGED <<topo, topoFresh, pc, resource>> /\ outages' > 0
    BY <1>2, BoundAssumption DEF TopoUninstall, CoreInv, TypeOK
  <2>2. QED
    BY <2>1 DEF CarriedInv, ObjectID, Carries, SetAspects
<1>3. CASE Restart
  BY <1>3 DEF Restart, CarriedInv
<1>4. CASE UNCHANGED <<topo, topoFresh, outages, pc, resource>>
  BY <1>4, CarriedKept
<1>5. QED
  BY <1>1, <1>2, <1>3, <1>4, SwitchAssumption
  DEF Deliver, TopoClientWrite, DeliverService, Resync, TopoInstall

LEMMA CarriedInvStep ==
  ASSUME OneWorker, ~TopoClients
  PROVE  CoreInv /\ CarriedInv /\ [Next]_vars => CarriedInv'
<1> SUFFICES ASSUME CoreInv, CarriedInv, [Next]_vars
             PROVE  CarriedInv'
  OBVIOUS
<1>1. ASSUME NEW e \in Resources, User(e) \/ CollectorRelease(e)
      PROVE  CarriedInv'
  <2>1. UNCHANGED <<topo, topoFresh, outages, pc, resource>>
    BY <1>1
    DEF User, UserCreate, UserUpdate, UserDelete, CollectorRelease, Operation
  <2>2. QED
    BY <2>1, CarriedKept
<1>2. ASSUME NEW w \in Workers, NEW e \in Resources, Take(w, e)
      PROVE  CarriedInv'
  <2>1. /\ UNCHANGED <<topo, topoFresh, outages>>
        /\ \A x \in Workers : pc'[x] \in {"update", "create", "created"} =>
             pc'[x] = pc[x] /\ resource'[x] = resource[x]
    BY <1>2 DEF Take, Skip, Fetch, CoreInv, TypeOK
  <2>2. QED
    BY <2>1, CarriedKept
<1>3. ASSUME NEW w \in Workers, Writes(w)
      PROVE  CarriedInv'
  <2>1. Busy(w) /\ WritesEdited(w)
    BY <1>3, WritesEdit
  <2>2. PICK version \in Resource, again \in BOOLEAN : Write(w, version, again)
    BY <2>1 DEF WritesEdited
  <2>3. /\ pc'[w] = "idle"
        /\ \A x \in Workers : x # w =>
             pc'[x] = pc[x] /\ resource'[x] = resource[x]
        /\ UNCHANGED <<topo, topoFresh, outages>>
    BY <2>1, <2>2, WriteEffect DEF CoreInv, BaseInv
  <2>4. QED
    BY <2>3, CarriedKept
<1>4. ASSUME NEW w \in Workers, Step(w)
      PROVE  CarriedInv'
  BY <1>3, <1>4, MovesCarried DEF Step, Writes, Moves
<1>5. CASE UNCHANGED vars
  BY <1>5, CarriedKept DEF vars
<1>6. QED
  BY <1>1, <1>2, <1>4, <1>5, EnvironmentCarried DEF Next

(* The write of SetAdded, which is the only one to report Added.           *)
LEMMA AddedStep ==
  ASSUME CoreInv, CarriedInv, [Next]_vars, NEW e \in Resources,
         Exists(Current(e)), Exists(Current(e)'),
         Current(e).state # "Added", Current(e)'.state = "Added"
  PROVE  LET object == topo[Current(e)'.spec.uri]
         IN \/ object = NoObject /\ outages > 0
            \/ /\ object # NoObject
               /\ Carries(object, Current(e)'.spec.aspects)
<1>1. ASSUME NEW d \in Resources, User(d) \/ CollectorRelease(d)
      PROVE  FALSE
  <2>1. PICK version \in Version :
          Store(d, version) /\ UserEdit(d, Current(d), version)
    BY <1>1, UsersEdit DEF CoreInv
  <2>2. /\ Current(d)' = version
        /\ \A c \in Resources : c # d => Current(c)' = Current(c)
    BY <2>1, StoreCurrent DEF CoreInv
  <2>3. QED
    BY <2>1, <2>2 DEF UserEdit
<1>2. ASSUME Current(e)' = Current(e)
      PROVE  FALSE
  BY <1>2
<1>3. ASSUME NEW w \in Workers, NEW d \in Resources, Take(w, d)
      PROVE  FALSE
  BY <1>2, <1>3, TakeCore
<1>4. ASSUME NEW w \in Workers, Moves(w)
      PROVE  FALSE
  BY <1>2, <1>4, MovesEffect DEF Current
<1>5. PICK w \in Workers : Writes(w)
  BY <1>1, <1>2, <1>3, <1>4, EnvironmentCore
  DEF Next, Step, Writes, Moves, vars, Current
<1>6. Busy(w) /\ WritesEdited(w) /\ request[w] \in Resources
  BY <1>5, WritesEdit DEF CoreInv, CopyInv
<1>7. PICK version \in Resource, again \in BOOLEAN :
        Write(w, version, again) /\ WorkerEdit(w, version)
  BY <1>6 DEF WritesEdited
<1>8. w \in fresh /\ Store(request[w], Stored(version))
  BY <1>2, <1>7 DEF Write, Current
<1>9. /\ Current(e)' = Stored(version) /\ Current(e) = resource[w]
  <2>1. PICK d \in Resources : d = request[w]
    BY <1>6
  <2>2. /\ Current(d)' = Stored(version) /\ Current(d) = resource[w]
        /\ \A c \in Resources : c # d => Current(c)' = Current(c)
    BY <1>6, <1>8, <2>1, StoredType, StoreCurrent, FreshCopy DEF CoreInv
  <2>3. QED
    BY <1>2, <2>2
<1>10. Current(e)' = version
  BY <1>9, StoredHeld, NothingIsNoResource
<1>11. pc[w] = "created" /\ version.spec = resource[w].spec
  BY <1>7, <1>9, <1>10 DEF WorkerEdit
<1>12. QED
  BY <1>10, <1>11 DEF CarriedInv, ObjectID

(***************************************************************************)
(* The step that reports Added finds the aspects of the very spec that is  *)
(* on the server in the object, for any number of Entities, even if they   *)
(* share URIs or change them, provided one worker and no other client that *)
(* writes the object.                                                      *)
(***************************************************************************)
THEOREM AddedCarriesSpecHolds ==
  ASSUME OneWorker, ~TopoClients
  PROVE  Spec => AddedCarriesSpec
<1>1. Init => CarriedInv
  BY DEF Init, CarriedInv
<1>2. CoreInv /\ CarriedInv /\ [Next]_vars => CarriedInv'
  BY CarriedInvStep
<1>3. CoreInv /\ CarriedInv /\ [Next]_vars =>
        [\A e \in Resources :
           /\ Exists(Current(e)) /\ Exists(Current(e)')
           /\ Current(e).state # "Added" /\ Current(e)'.state = "Added"
           => LET object == topo[Current(e)'.spec.uri]
              IN \/ object = NoObject /\ outages > 0
                 \/ /\ object # NoObject
                    /\ Carries(object, Current(e)'.spec.aspects)]_vars
  BY AddedStep
<1>4. QED
  BY <1>1, <1>2, <1>3, CoreInvCorrect, PTL DEF Spec, AddedCarriesSpec

=============================================================================
