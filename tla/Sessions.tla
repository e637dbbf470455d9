------------------------------ MODULE Sessions ------------------------------
(***************************************************************************)
(* The session log of cognitio/temporal.py.  A session is its number; the  *)
(* sessions of the log have ended, the current one has not.                *)
(***************************************************************************)
EXTENDS Naturals, Sequences

CONSTANT MaxSessionLog   \* MAX_SESSION_LOG

ASSUME SessionsAssumption == MaxSessionLog \in Nat \ {0}

NoSession == 0
Tracker == [session_log : Seq(Nat \ {0}), current_session : Nat]
NewTracker == [session_log |-> <<>>, current_session |-> NoSession]

\* The last n elements of a sequence, all of them if there are no more.
Newest(s, n) == IF Len(s) <= n THEN s ELSE SubSeq(s, Len(s) - n + 1, Len(s))

Closed(tracker) ==
    IF tracker.current_session = NoSession THEN tracker.session_log
    ELSE Newest(Append(tracker.session_log, tracker.current_session), MaxSessionLog)

\* MUTANT of StartSession: the session a crash left open is dropped.
StartSessionAfresh(tracker, n) == [tracker EXCEPT !.current_session = n]

\* A session that is still open, because the process crashed, is closed now.
StartSession(tracker, n) == [session_log |-> Closed(tracker), current_session |-> n]

FinalizeSession(tracker) ==
    [session_log |-> Closed(tracker), current_session |-> NoSession]

=============================================================================
