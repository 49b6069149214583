------------------------------- MODULE MCGame -------------------------------
(* Instances of Game for TLC. *)
EXTENDS Game, TLC

Position == (0 .. WORLD_WIDTH - 1) \X (0 .. WORLD_HEIGHT - 1)
West == {p \in Position : p[1] = 0}
Corner == {<<0, 0>>}

OneAttack == {[x |-> 1, y |-> 0, damage |-> 2]}
NoAttack == {}

(* The server calls with any id, the loops over ids may run in any order. *)
Symmetry == Permutations(Id)
=============================================================================
