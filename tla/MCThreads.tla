------------------------------ MODULE MCThreads ------------------------------
(* Four threads: the main thread creates the others, and three can join one. *)
EXTENDS Threads, TLC
CONSTANTS a, b, c, d
Symmetry == Permutations({b, c, d})
=============================================================================
