----------------------------- MODULE MCExchange -----------------------------
(* Exchange with the symmetry that its safety runs use: clients, operations, *)
(* handlers and entities are interchangeable.                                *)
EXTENDS Exchange, TLC

Symmetry ==
  Permutations(Client) \cup Permutations(Op) \cup Permutations(Handler)
    \cup Permutations(Entity)
=============================================================================
