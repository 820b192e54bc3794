---------------------- MODULE MCKindRelationController ----------------------
(* Small instances of KindRelationController for TLC.                      *)
EXTENDS KindRelationController, TLC

CONSTANTS e1, e2, u1, u2, k1, v1, v2

Aspect1 == [k \in {k1} |-> v1]
Aspect2 == [k \in {k1} |-> v2]

(* One resource whose aspects the user may change.                         *)
SpecsOne == (e1 :> {[uri |-> u1, aspects |-> Aspect1],
                    [uri |-> u1, aspects |-> Aspect2]})
=============================================================================
