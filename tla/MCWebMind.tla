------------------------------ MODULE MCWebMind ------------------------------
(* Finite instances of WebMind. *)
EXTENDS WebMind, TLC

\* Both properties allow anything after a disturbed erasure, and disturbed stays true.
Undisturbed == ~disturbed

Interchangeable == Permutations(Browser)

=============================================================================
