----------------------------- MODULE MCCommitTx -----------------------------
(* Three operations: two update one entity and are delivered to two scopes  *)
(* in opposite orders, the third goes to one scope only.                    *)
EXTENDS CommitTx, TLC

CONSTANTS o1, o2, o3, e1, e2, s1, s2

MCEntityOf == (o1 :> e1) @@ (o2 :> e2) @@ (o3 :> e1)
MCDeliveries == (o1 :> <<s1, s2>>) @@ (o2 :> <<s2, s1>>) @@ (o3 :> <<s1>>)

Symmetry == Permutations(Tx)
=============================================================================
