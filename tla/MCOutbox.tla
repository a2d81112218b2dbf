------------------------------ MODULE MCOutbox ------------------------------
(* Symmetric model values for the outbox runs. *)
EXTENDS Outbox, TLC

Symmetry == Permutations(Op) \cup Permutations(Entity)
=============================================================================
