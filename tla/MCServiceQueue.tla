--------------------------- MODULE MCServiceQueue ---------------------------
(* Instance of ServiceQueue for TLC. *)
EXTENDS ServiceQueue, TLC

Symmetric == Permutations(Threads)
=============================================================================
