--------------------------- MODULE MCImmortalMind ---------------------------
(* Finite instances of ImmortalMind. *)
EXTENDS ImmortalMind, TLC, FiniteSets

CONSTANTS alice, bob, s1, h1, h2, m1, m2

Interchangeable == Permutations(Hash)

=============================================================================
