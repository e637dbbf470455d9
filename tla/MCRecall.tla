------------------------------ MODULE MCRecall ------------------------------
(* Finite instances of Recall. *)
EXTENDS Recall, TLC

CONSTANTS i1, i2, i3, p, w1, w2

\* A third id is for the collector: with three in use, nothing is wiped, weighed or
\* added under the lock, and the index has not failed.
RacesAreSmall ==
    Fresh = {} => LockIsFree /\ faulty = {} /\ \A w \in Wiper : wipe[w] = Idle

Interchangeable == Permutations(Id) \cup Permutations(Wiper)

=============================================================================
