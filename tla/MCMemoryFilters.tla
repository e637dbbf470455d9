-------------------------- MODULE MCMemoryFilters ---------------------------
(* Finite instances of MemoryFilters. *)
EXTENDS MemoryFilters, TLC

CONSTANTS t1, t2

Interchangeable == Permutations(Thread)

=============================================================================
