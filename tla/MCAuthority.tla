---------------------------- MODULE MCAuthority -----------------------------
(* Server processes are interchangeable. *)
EXTENDS Authority, TLC

Symmetry == Permutations(Process)
=============================================================================
