----------------------------- MODULE MCBeliefs -----------------------------
(* Finite instances of Beliefs. *)
EXTENDS Beliefs, TLC

CONSTANTS genesis, m1, m2

Interchangeable == Permutations(Id \ Core)

=============================================================================
