------------------------- MODULE MCEntityController -------------------------
(* Small instances of EntityController for TLC.                            *)
EXTENDS EntityController, TLC

CONSTANTS e1, e2, u1, u2, k1, v1, v2

Aspect1 == [k \in {k1} |-> v1]
Aspect2 == [k \in {k1} |-> v2]

(* The two controllers of the deployed program are interchangeable.        *)
WorkerSymmetry == Permutations(Workers)

(* One resource whose aspects the user may change.                         *)
SpecsOne == (e1 :> {[uri |-> u1, aspects |-> Aspect1],
                    [uri |-> u1, aspects |-> Aspect2]})

(* Two resources that name the same object.                                *)
SpecsShared == (e1 :> {[uri |-> u1, aspects |-> Aspect1]})
            @@ (e2 :> {[uri |-> u1, aspects |-> Aspect2]})

(* Two resources with an object each.                                      *)
SpecsApart == (e1 :> {[uri |-> u1, aspects |-> Aspect1]})
           @@ (e2 :> {[uri |-> u2, aspects |-> Aspect1]})
=============================================================================
