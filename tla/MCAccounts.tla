----------------------------- MODULE MCAccounts -----------------------------
(* Finite instances of Accounts. *)
EXTENDS Accounts, TLC

CONSTANTS u1, u2, u3, s1, s2, MaxDepartures, MaxLockouts

\* Bounds of the histories.
Bounded ==
    /\ departures =< MaxDepartures
    /\ \A u \in Username : wrongGuesses[u] =< MaxFailedLogins * MaxLockouts

Interchangeable == Permutations(Username) \cup Permutations(Session)

=============================================================================
