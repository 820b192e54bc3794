---------------------------- MODULE TopologySync ----------------------------
(***************************************************************************)
(* What the topo operator promises (README.md:44-47 of the repository): an *)
(* object is in onos-topo only while a resource is in charge of it, and    *)
(* goes before the last resource in charge does.  Nothing is said of       *)
(* statuses, finalizers, caches or calls.                                  *)
(***************************************************************************)
CONSTANTS
  Resources,
  URIs,
  Names,    \* Names[e]: the objects resource e may be in charge of
  Nothing   \* no object

VARIABLES
  wanted,   \* the resources users want: there, and not being deleted
  charge,   \* charge[e]: the object resource e is in charge of
  objects,  \* the objects in onos-topo
  closed    \* TRUE: the operator takes onos-topo for gone, see Close

vars == <<wanted, charge, objects, closed>>

Init ==
  /\ wanted = {}
  /\ charge = [e \in Resources |-> Nothing]
  /\ objects = {}
  /\ closed = FALSE

-----------------------------------------------------------------------------
(* Users and their cluster.                                                *)

Want(e) ==
  /\ e \notin wanted /\ charge[e] = Nothing
  /\ wanted' = wanted \cup {e}
  /\ UNCHANGED <<charge, objects, closed>>

Unwant(e) ==
  /\ e \in wanted
  /\ wanted' = wanted \ {e}
  /\ UNCHANGED <<charge, objects, closed>>

(* The namespace of the resources is being deleted, and onos-topo with it; *)
(* or a reconcile finds no onos-topo, for as long as it lasts.             *)
Close ==
  /\ closed' \in BOOLEAN
  /\ UNCHANGED <<wanted, charge, objects>>

-----------------------------------------------------------------------------
(* The operator, and the loss of onos-topo with all its objects.           *)

TakeCharge(e, u) ==
  /\ e \in wanted /\ charge[e] = Nothing
  /\ u \in Names[e]
  /\ charge' = [charge EXCEPT ![e] = u]
  /\ UNCHANGED <<wanted, objects, closed>>

Publish(u) ==
  /\ \E e \in Resources : charge[e] = u
  /\ objects' = objects \cup {u}
  /\ UNCHANGED <<wanted, charge, closed>>

(* For the sake of a resource that is not, or no longer, to be served.     *)
Withdraw(u) ==
  /\ \E e \in Resources :
       u \in Names[e] /\ ~(e \in wanted /\ charge[e] = u)
  /\ objects' = objects \ {u}
  /\ UNCHANGED <<wanted, charge, closed>>

(* The last resource in charge leaves no object behind, unless onos-topo   *)
(* is taken for gone.                                                      *)
GiveUp(e) ==
  /\ e \notin wanted
  /\ \/ closed
     \/ charge[e] \in objects =>
          \E f \in Resources \ {e} : charge[f] = charge[e]
  /\ charge' = [charge EXCEPT ![e] = Nothing]
  /\ closed' \in {closed, FALSE}
  /\ UNCHANGED <<wanted, objects>>

Lose ==
  /\ objects' = {}
  /\ closed' \in BOOLEAN
  /\ UNCHANGED <<wanted, charge>>

Next ==
  \/ \E e \in Resources : Want(e) \/ Unwant(e) \/ GiveUp(e)
  \/ \E e \in Resources, u \in URIs : TakeCharge(e, u)
  \/ \E u \in URIs : Publish(u) \/ Withdraw(u)
  \/ Close \/ Lose

Spec == Init /\ [][Next]_vars

=============================================================================
