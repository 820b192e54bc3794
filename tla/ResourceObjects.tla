--------------------------- MODULE ResourceObjects ---------------------------
(***************************************************************************)
(* The objects of the resources in the memory of a Go program: the cache   *)
(* of its informers, the deep copies it hands out                          *)
(* (pkg/apis/*/v1beta1/zz_generated.deepcopy.go) to goroutines that change *)
(* them in place, and the typed clients of pkg/clientset, which send an    *)
(* object to the API server and decode the answer into a new one.          *)
(*                                                                         *)
(* A Go struct is copied by assignment, which shares what its references   *)
(* (maps, slices, pointers) point to.  A behaviour is about one resource   *)
(* of one type and one of its references: an object is the version it was  *)
(* read at and the cell its reference points to.                           *)
(***************************************************************************)
EXTENDS Naturals, Sequences

CONSTANTS
  Types,      \* the types of resources to look at
  Clients,    \* goroutines, each with one object at a time
  Values,     \* contents of a map, a slice or what a pointer points to
  Nil, Gone,
  MaxWrites   \* bound on the writes to the API server

ASSUME ClientsAssumption == "cache" \notin Clients

AllTypes == {"Entity", "Kind", "Relation", "Service", "Model",
             "ModelRegistry"}

ASSUME TypesAssumption == Types \subseteq AllTypes

ASSUME NilAssumption == Nil \notin Values /\ Gone \notin Values \cup {Nil}

-----------------------------------------------------------------------------
(* The references in the Go types of the resources, ObjectMeta as one.     *)

EntityFields == {"metadata", "kind", "aspects"}
KindFields == {"metadata", "aspects"}
RelationFields == {"metadata", "kind", "source", "target", "aspects"}
ServiceFields == {"metadata", "selector"}
ModelFields == {"metadata", "plugin", "modules", "files", "registryStatuses"}
ModelRegistryFields == {"metadata", "volume"}

Fields(t) ==
  CASE t = "Entity" -> EntityFields
    [] t = "Kind" -> KindFields
    [] t = "Relation" -> RelationFields
    [] t = "Service" -> ServiceFields
    [] t = "Model" -> ModelFields
    [] t = "ModelRegistry" -> ModelRegistryFields

StatusFields == {"registryStatuses"}

(* The references that DeepCopyInto of each type, and of the types within, *)
(* gives a cell of their own; a list is copied item by item.               *)
EntityDeepCopy == {"metadata", "kind", "aspects"}
KindDeepCopy == {"metadata", "aspects"}
(* Deviation: the end points are assigned.                                 *)
RelationDeepCopyShallow == {"metadata", "kind", "aspects"}
RelationDeepCopy == {"metadata", "kind", "source", "target", "aspects"}
ServiceDeepCopy == {"metadata", "selector"}
(* Deviation: a pointer is assigned.                                       *)
ModelSpecDeepCopyShallow == {"modules", "files"}
ModelSpecDeepCopy == {"plugin", "modules", "files"}
ModelStatusDeepCopy == {"registryStatuses"}
ModelDeepCopy == {"metadata"} \cup ModelSpecDeepCopy \cup ModelStatusDeepCopy
ModelRegistryDeepCopy == {"metadata", "volume"}

DeepCopied(t) ==
  CASE t = "Entity" -> EntityDeepCopy
    [] t = "Kind" -> KindDeepCopy
    [] t = "Relation" -> RelationDeepCopy
    [] t = "Service" -> ServiceDeepCopy
    [] t = "Model" -> ModelDeepCopy
    [] t = "ModelRegistry" -> ModelRegistryDeepCopy

-----------------------------------------------------------------------------

Holders == Clients \cup {"cache"}
Cells == Holders \X {0, 1}  \* enough for one to be free
NoCell == <<"cache", 2>>

VARIABLES
  type, field,  \* what the behaviour is about
  log,          \* log[n]: version n on the API server, Gone when deleted
  object,       \* object[h]: version (0: none) and cell of h's object
  memory        \* memory[c]: the content of cell c

vars == <<type, field, log, object, memory>>

Last(s) == s[Len(s)]

Content(ref) == IF ref = NoCell THEN Nil ELSE memory[ref]

View(h) == [version |-> object[h].version, content |-> Content(object[h].ref)]

Nothing == [version |-> 0, ref |-> NoCell]

Holds(h) == object[h].version > 0

Init ==
  /\ type \in Types
  /\ field \in Fields(type)
  /\ log = <<Gone>>
  /\ object = [h \in Holders |-> Nothing]
  /\ memory = [c \in Cells |-> Nil]

(* A cell that nobody points to.                                           *)
NewCell(h) ==
  CHOOSE c \in {h} \X {0, 1} : \A g \in Holders : object[g].ref # c

(* Holder h gets a new object.                                             *)
Allocate(h, version, content) ==
  LET ref == IF content = Nil THEN NoCell ELSE NewCell(h)
  IN /\ object' = [object EXCEPT ![h] = [version |-> version, ref |-> ref]]
     /\ memory' = IF content = Nil THEN memory
                  ELSE [memory EXCEPT ![ref] = content]

-----------------------------------------------------------------------------
(* In the program.                                                         *)

(* Deviation: the tombstone of a deleted object is cached.                 *)
DeliverTombstone ==
  /\ object["cache"].version # Len(log)
  /\ Allocate("cache", Len(log), Last(log))
  /\ UNCHANGED <<type, field, log>>

(* The informer replaces the object in its cache.                          *)
Deliver ==
  /\ object["cache"].version # Len(log)
  /\ IF Last(log) = Gone
     THEN /\ object' = [object EXCEPT !["cache"] = Nothing]
          /\ UNCHANGED memory
     ELSE Allocate("cache", Len(log), Last(log))
  /\ UNCHANGED <<type, field, log>>

(* A read from the cache: *out = *in, and a deep copy of the references.   *)
CachedGet(c) ==
  /\ Holds("cache")
  /\ IF field \in DeepCopied(type)
     THEN Allocate(c, object["cache"].version, View("cache").content)
     ELSE /\ object' = [object EXCEPT ![c] = object["cache"]]
          /\ UNCHANGED memory
  /\ UNCHANGED <<type, field, log>>

(* A client changes its object in place, as AddFinalizer does.             *)
Mutate(c) ==
  /\ Holds(c)
  /\ \E v \in Values \ {View(c).content} :
       IF object[c].ref = NoCell
       THEN Allocate(c, object[c].version, v)
       ELSE /\ memory' = [memory EXCEPT ![object[c].ref] = v]
            /\ UNCHANGED object
  /\ UNCHANGED <<type, field, log>>

-----------------------------------------------------------------------------
(* The methods of the typed client, by client c.                           *)

Exists == Last(log) # Gone

(* The server stores content and answers with what it has stored, which is *)
(* decoded into a new object.                                              *)
Respond(c, content) ==
  IF content = Last(log)
  THEN /\ Allocate(c, Len(log), content)
       /\ UNCHANGED <<type, field, log>>
  ELSE /\ Len(log) <= MaxWrites
       /\ log' = Append(log, content)
       /\ Allocate(c, Len(log) + 1, content)
       /\ UNCHANGED <<type, field>>

(* Get, an item of List and an event of Watch.                             *)
Get(c) ==
  /\ Exists
  /\ Allocate(c, Len(log), Last(log))
  /\ UNCHANGED <<type, field, log>>

Create(c) ==
  /\ ~Exists
  /\ \E content \in Values \cup {Nil} :
       Respond(c, IF field \in StatusFields THEN Nil ELSE content)

(* An object that is no longer the last version is refused.                *)
Update(c) ==
  /\ Exists /\ object[c].version = Len(log)
  /\ Respond(c, IF field \in StatusFields THEN Last(log)
                ELSE View(c).content)

(* The subresource "status", which a ModelRegistry does not have: the      *)
(* server ignores the rest of the object.                                  *)
UpdateStatus(c) ==
  /\ type # "ModelRegistry"
  /\ Exists /\ object[c].version = Len(log)
  /\ Respond(c, IF field \in StatusFields THEN View(c).content
                ELSE Last(log))

(* A patch changes the version there is, whichever it is.                  *)
Patch(c) ==
  /\ Exists
  /\ \E content \in Values : Respond(c, content)

(* Delete and DeleteCollection: no object is sent, none comes back.        *)
Delete(c) ==
  /\ Exists /\ Len(log) <= MaxWrites
  /\ log' = Append(log, Gone)
  /\ UNCHANGED <<type, field, object, memory>>

-----------------------------------------------------------------------------

Next ==
  \/ Deliver
  \/ \E c \in Clients :
       \/ CachedGet(c) \/ Mutate(c) \/ Get(c) \/ Create(c) \/ Update(c)
       \/ UpdateStatus(c) \/ Patch(c) \/ Delete(c)

Spec == Init /\ [][Next]_vars

-----------------------------------------------------------------------------
(* Properties.                                                             *)

(* Every variable has its type.                                            *)
TypeOK ==
  /\ type \in Types /\ field \in Fields(type)
  /\ log \in Seq(Values \cup {Nil, Gone}) /\ Len(log) > 0
  /\ object \in [Holders -> [version : Nat, ref : Cells \cup {NoCell}]]
  /\ memory \in [Cells -> Values \cup {Nil}]

(***************************************************************************)
(* No two holders see the same change: what a goroutine does to its copy   *)
(* reaches neither the cache nor another goroutine, whichever way the      *)
(* copies were made ("DeepCopyInto ... copying the receiver").             *)
(***************************************************************************)
Isolation ==
  [][\A g, h \in Holders :
       View(g)' # View(g) /\ View(h)' # View(h) => g = h]_vars

(***************************************************************************)
(* The cache holds what the API server had at that version, not what a     *)
(* reconcile that has changed its copy, and failed to write it, left there.*)
(***************************************************************************)
CacheFaithful ==
  Holds("cache") => View("cache").content = log[object["cache"].version]

=============================================================================
