---------------------------- MODULE MCEchoServer ----------------------------
(* Instances of EchoServer for TLC. *)
EXTENDS EchoServer, TLC

(* Workers do not differ, and neither do the sessions not yet allocated. *)
Symmetry == Permutations(Worker) \cup Permutations(Session)
=============================================================================
