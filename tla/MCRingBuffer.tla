---------------------------- MODULE MCRingBuffer ----------------------------
(* Instances of RingBuffer for TLC. *)
EXTENDS RingBuffer, TLC

(* The buffers do not differ. *)
Symmetry == Permutations(Buffer)
=============================================================================
