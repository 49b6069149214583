------------------------------ MODULE MCLogger ------------------------------
(* Instances of Logger for TLC. *)
EXTENDS Logger, TLC

(* Neither the files nor the handles differ. *)
Symmetry == Permutations(Path) \cup Permutations(Handle)
=============================================================================
