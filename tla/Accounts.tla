------------------------------ MODULE Accounts ------------------------------
(***************************************************************************)
(* The accounts of agent/accounts.py and the web sessions of              *)
(* frontend/app.py that use them: registration, login with its lockout,   *)
(* the daily message limits, and leaving.                                  *)
(*                                                                         *)
(* Streamlit runs every session's script in a thread of its own.  A        *)
(* method of the account store reads the clock, waits for the store's      *)
(* lock and then runs one transaction: reading the clock and the           *)
(* transaction are two actions, and other sessions step in between.        *)
(*                                                                         *)
(* A password is either right or wrong.  What a message says, and what the *)
(* mind does with it, is in SharedMind.                                    *)
(***************************************************************************)
EXTENDS Integers, FiniteSets

CONSTANTS Username, Session,
          NoUser,               \* st.session_state.user = None
          MaxFailedLogins,      \* MAX_FAILED_LOGINS
          Lockout,              \* LOCKOUT_MINUTES, in ticks of the clock
          DailyLimit, GlobalLimit, MaxAccounts,   \* IMP_...; 0 is unlimited
          DayLength, LastDay,   \* ticks in a day; the days 0 .. LastDay are modelled
          MaxWait               \* ticks a transaction may wait for the store

ASSUME AccountsAssumption ==
    /\ NoUser \notin Username
    /\ IsFiniteSet(Session) /\ IsFiniteSet(Username)
    /\ MaxFailedLogins \in Nat \ {0}
    /\ Lockout \in Nat /\ MaxWait \in Nat \ {0} /\ MaxWait < Lockout
    /\ DailyLimit \in Nat /\ GlobalLimit \in Nat /\ MaxAccounts \in Nat
    /\ DayLength \in Nat \ {0} /\ LastDay \in Nat

VARIABLES
    clock,
    registered, failed, lockedUntil,   \* the table accounts; a lock of 0 is NULL
    usage,                             \* the table usage
    session,                           \* what each session's script is doing
    wrongGuesses, lockouts,   \* history: since the holder last logged in
    spoken,                   \* history: messages let through each day
    departures                \* history: usage rows a day may have lost

account == <<registered, failed, lockedUntil>>
history == <<wrongGuesses, lockouts, spoken, departures>>
vars == <<clock, account, usage, session, history>>

Day == 0 .. LastDay
Today == clock \div DayLength

\* The steps of a script: the login page, waiting to check a password,
\* waiting to insert an account, the chat page, waiting to count a message,
\* and waiting to delete the account.
Step == {"away", "login", "register", "chat", "count", "leave"}

\* at: the clock the script read before it began to wait for the store.
SessionState == [step : Step, user : Username \cup {NoUser}, at : Nat]
Away == [step |-> "away", user |-> NoUser, at |-> 0]

Timed == {"login", "count"}

Goes(s, step, u) ==
    session' = [session EXCEPT ![s] =
                    [step |-> step, user |-> u, at |-> IF step \in Timed THEN clock ELSE 0]]

\* The messages that were counted for a day: each person's first, second, ...
Counted(day) == UNION {{u} \X (1 .. usage[day][u]) : u \in Username}
Total(day) == Cardinality(Counted(day))

TypeOK ==
    /\ clock \in Nat
    /\ registered \subseteq Username
    /\ failed \in [Username -> 0 .. MaxFailedLogins - 1]
    /\ lockedUntil \in [Username -> Nat]
    /\ usage \in [Day -> [Username -> Nat]]
    /\ session \in [Session -> SessionState]
    /\ wrongGuesses \in [Username -> Nat]
    /\ lockouts \in [Username -> Nat]
    /\ spoken \in [Day -> Nat]
    /\ departures \in Nat

Init ==
    /\ clock = 0
    /\ registered = {}
    /\ failed = [u \in Username |-> 0]
    /\ lockedUntil = [u \in Username |-> 0]
    /\ usage = [d \in Day |-> [u \in Username |-> 0]]
    /\ session = [s \in Session |-> Away]
    /\ wrongGuesses = [u \in Username |-> 0]
    /\ lockouts = [u \in Username |-> 0]
    /\ spoken = [d \in Day |-> 0]
    /\ departures = 0

-----------------------------------------------------------------------------
(* Time.  Nothing waits longer than MaxWait for the store.                 *)

Tick ==
    /\ clock + 1 < DayLength * (LastDay + 1)
    /\ \A s \in Session : session[s].step \in Timed => clock - session[s].at < MaxWait
    /\ clock' = clock + 1
    /\ UNCHANGED <<account, usage, session, history>>

-----------------------------------------------------------------------------
(* Logging in.                                                             *)

SubmitLogin(s, u) ==
    /\ session[s].step = "away"
    /\ Goes(s, "login", u)
    /\ UNCHANGED <<clock, account, usage, history>>

\* The account's row, and what the history says of it, as if it were new.
ClearRow(u) ==
    /\ failed' = [failed EXCEPT ![u] = 0]
    /\ lockedUntil' = [lockedUntil EXCEPT ![u] = 0]
    /\ wrongGuesses' = [wrongGuesses EXCEPT ![u] = 0]
    /\ lockouts' = [lockouts EXCEPT ![u] = 0]

\* MUTANT of Locked: the lock is compared the wrong way round.
LockedOnceExpired(u, now) == 0 < lockedUntil[u] /\ lockedUntil[u] < now

Locked(u, now) == now < lockedUntil[u]

\* Nobody has this name, or its account is locked: no password is checked.
Refuse(s) ==
    LET u == session[s].user IN
    /\ session[s].step = "login"
    /\ u \in registered => Locked(u, session[s].at)
    /\ Goes(s, "away", NoUser)
    /\ UNCHANGED <<clock, account, usage, history>>

AcceptPassword(s) ==
    LET u == session[s].user IN
    /\ session[s].step = "login"
    /\ u \in registered
    /\ ~Locked(u, session[s].at)
    /\ ClearRow(u)
    /\ Goes(s, "chat", u)
    /\ UNCHANGED <<clock, registered, usage, spoken, departures>>

Locks(u) == failed[u] + 1 >= MaxFailedLogins

\* A failure after a lock has run out also takes the lock's time away.
RejectPassword(s) ==
    LET u == session[s].user
        locks == Locks(u)
    IN
    /\ session[s].step = "login"
    /\ u \in registered
    /\ ~Locked(u, session[s].at)
    /\ failed' = [failed EXCEPT ![u] = IF locks THEN 0 ELSE @ + 1]
    /\ lockedUntil' = [lockedUntil EXCEPT ![u] = IF locks THEN session[s].at + Lockout ELSE 0]
    /\ wrongGuesses' = [wrongGuesses EXCEPT ![u] = @ + 1]
    /\ lockouts' = [lockouts EXCEPT ![u] = IF locks THEN @ + 1 ELSE @]
    /\ Goes(s, "away", NoUser)
    /\ UNCHANGED <<clock, registered, usage, spoken, departures>>

-----------------------------------------------------------------------------
(* Registering.  The page counts the accounts; the password is hashed      *)
(* before the row is inserted, and other sessions go on meanwhile.         *)

\* MUTANT of RoomForAccount: one account too many passes the check.
RoomForOneMore == MaxAccounts > 0 => Cardinality(registered) =< MaxAccounts

RoomForAccount == MaxAccounts > 0 => Cardinality(registered) < MaxAccounts

SubmitRegistration(s, u) ==
    /\ session[s].step = "away"
    /\ RoomForAccount
    /\ Goes(s, "register", u)
    /\ UNCHANGED <<clock, account, usage, history>>

Register(s) ==
    LET u == session[s].user IN
    /\ session[s].step = "register"
    /\ u \notin registered
    /\ registered' = registered \cup {u}
    /\ ClearRow(u)
    /\ Goes(s, "chat", u)
    /\ UNCHANGED <<clock, usage, spoken, departures>>

NameTaken(s) ==
    /\ session[s].step = "register"
    /\ session[s].user \in registered
    /\ Goes(s, "away", NoUser)
    /\ UNCHANGED <<clock, account, usage, history>>

-----------------------------------------------------------------------------
(* The chat page of a session that is logged in.  Nothing looks whether    *)
(* the account is still there.                                             *)

LogOut(s) ==
    /\ session[s].step = "chat"
    /\ Goes(s, "away", NoUser)
    /\ UNCHANGED <<clock, account, usage, history>>

Say(s) ==
    /\ session[s].step = "chat"
    /\ Goes(s, "count", session[s].user)
    /\ UNCHANGED <<clock, account, usage, history>>

\* MUTANT of AtLimit: the site's limit is compared with one person's count.
AtLimitAlone(day, u) ==
    \/ GlobalLimit > 0 /\ usage[day][u] >= GlobalLimit
    \/ DailyLimit > 0 /\ usage[day][u] >= DailyLimit

\* MUTANT of AtLimit: a person is measured against the count of today, and
\* not against that of the day the message is counted for.
AtLimitToday(day, u) ==
    \/ GlobalLimit > 0 /\ Total(day) >= GlobalLimit
    \/ DailyLimit > 0 /\ usage[Today][u] >= DailyLimit

AtLimit(day, u) ==
    \/ GlobalLimit > 0 /\ Total(day) >= GlobalLimit
    \/ DailyLimit > 0 /\ usage[day][u] >= DailyLimit

DayOf(s) == session[s].at \div DayLength

LetThrough(s) ==
    LET u == session[s].user
        day == DayOf(s)
    IN
    /\ session[s].step = "count"
    /\ ~AtLimit(day, u)
    /\ usage' = [usage EXCEPT ![day][u] = @ + 1]
    /\ spoken' = [spoken EXCEPT ![day] = @ + 1]
    /\ Goes(s, "chat", u)
    /\ UNCHANGED <<clock, account, wrongGuesses, lockouts, departures>>

TurnAway(s) ==
    /\ session[s].step = "count"
    /\ AtLimit(DayOf(s), session[s].user)
    /\ Goes(s, "chat", session[s].user)
    /\ UNCHANGED <<clock, account, usage, history>>

\* The mind has forgotten the person's memories; the account is next.
Leave(s) ==
    /\ session[s].step = "chat"
    /\ Goes(s, "leave", session[s].user)
    /\ UNCHANGED <<clock, account, usage, history>>

DeleteAccount(s) ==
    LET u == session[s].user IN
    /\ session[s].step = "leave"
    /\ registered' = registered \ {u}
    /\ usage' = [d \in Day |-> [usage[d] EXCEPT ![u] = 0]]
    /\ ClearRow(u)
    /\ departures' = departures + 1
    /\ Goes(s, "away", NoUser)
    /\ UNCHANGED <<clock, spoken>>

-----------------------------------------------------------------------------
(* Failure.                                                                *)

\* The tab is closed or the server stops: the tables stay, the script ends.
Abandon(s) ==
    /\ session[s].step # "away"
    /\ Goes(s, "away", NoUser)
    /\ UNCHANGED <<clock, account, usage, history>>

\* The database or the mind raises: nothing is written, the person stays
\* logged in and may already be forgotten by the mind.
Fail(s) ==
    /\ session[s].step \in {"count", "leave"}
    /\ Goes(s, "chat", session[s].user)
    /\ UNCHANGED <<clock, account, usage, history>>

-----------------------------------------------------------------------------
Next ==
    \/ Tick
    \/ \E s \in Session :
        \/ \E u \in Username : SubmitLogin(s, u) \/ SubmitRegistration(s, u)
        \/ Refuse(s) \/ AcceptPassword(s) \/ RejectPassword(s)
        \/ Register(s) \/ NameTaken(s)
        \/ LogOut(s) \/ Say(s) \/ LetThrough(s) \/ TurnAway(s)
        \/ Leave(s) \/ DeleteAccount(s)
        \/ Abandon(s) \/ Fail(s)

Spec == Init /\ [][Next]_vars

-----------------------------------------------------------------------------
(* Properties.                                                             *)

\* However sessions interleave, and whether or not midnight passes between
\* the moment consume_message reads the day and the moment it has the store,
\* no day's rows exceed a person's limit, nor all of them the site's.
PersonalLimit ==
    DailyLimit > 0 => \A d \in Day, u \in Username : usage[d][u] =< DailyLimit
SiteLimit ==
    GlobalLimit > 0 => \A d \in Day : Total(d) =< GlobalLimit
WithinDailyLimits == PersonalLimit /\ SiteLimit

\* What the site's limit really promises of a day's bill: delete_account
\* takes the person's rows away, so each departure lets at most one more
\* personal allowance through.
BillIsBounded ==
    (DailyLimit > 0 /\ GlobalLimit > 0) =>
        \A d \in Day : spoken[d] =< GlobalLimit + DailyLimit * departures

\* Between two logins of its holder an account sees fewer than
\* MaxFailedLogins wrong passwords per lockout, and the lockouts lie apart:
\* authenticate reads the clock before it waits for the store, so a lockout
\* that began after a wait is shorter by the wait, and by no more.
GuessesAreBounded ==
    \A u \in Username :
        /\ wrongGuesses[u] < MaxFailedLogins * (lockouts[u] + 1)
        /\ lockouts[u] > 0 => (lockouts[u] - 1) * (Lockout - MaxWait) =< clock

\* render_login counts the accounts before register inserts one, and another
\* session may have passed the same count: the limit is exceeded by at most
\* one account for every other session.
AccountsAreBounded ==
    MaxAccounts > 0 => Cardinality(registered) < MaxAccounts + Cardinality(Session)

=============================================================================
