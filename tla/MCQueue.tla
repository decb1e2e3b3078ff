------------------------------ MODULE MCQueue -------------------------------
(* Small instances of Queue for TLC. *)
EXTENDS Queue, TLC

QueueSymmetry == Permutations(Threads)
=============================================================================
