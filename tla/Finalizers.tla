----------------------------- MODULE Finalizers -----------------------------
(***************************************************************************)
(* The finalizer helpers of pkg/controller/util/k8s/finalizers.go.         *)
(*                                                                         *)
(* A Kubernetes object carries a list of finalizers, but the operator and  *)
(* the API server only ever ask whether a finalizer is in the list and     *)
(* whether the list is empty, so the list is modelled as the set of its    *)
(* elements.                                                               *)
(***************************************************************************)

(* A loop over the list that answers true at the first match.              *)
HasFinalizer(finalizers, finalizer) == finalizer \in finalizers

AddFinalizer(finalizers, finalizer) == finalizers \cup {finalizer}

(***************************************************************************)
(* The loop visits the finalizers that differ from the one to remove and,  *)
(* for each of them, appends the one to remove (finalizers.go:31).  With   *)
(* no other finalizer the result is empty; with others they are all lost   *)
(* and the one to remove is still there.                                   *)
(***************************************************************************)
RemoveFinalizer(finalizers, finalizer) ==
  {finalizer : f \in finalizers \ {finalizer}}

(* What a reader of the call sites expects of it.                          *)
WithoutFinalizer(finalizers, finalizer) == finalizers \ {finalizer}
=============================================================================
