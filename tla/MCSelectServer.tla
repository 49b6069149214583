--------------------------- MODULE MCSelectServer ---------------------------
(* Instances of SelectServer for TLC. *)
EXTENDS SelectServer, TLC

(* The system returns handles in any order. *)
Symmetry == Permutations(Socket)
=============================================================================
