------------------------------- MODULE WebMind -------------------------------
(***************************************************************************)
(* The web server, frontend/app.py: one cached mind, browser sessions, and *)
(* the scripts the sessions run on threads of their own.  A script fetches *)
(* the mind when it begins and keeps that engine to its end, whatever      *)
(* becomes of the cache.  It is a sequence of calls; scripts interleave    *)
(* between calls, and save_state makes two of them, for it writes the file *)
(* outside its lock.                                                       *)
(*                                                                         *)
(* Every engine has consolidation workers, which outlive its place in the  *)
(* cache and all use one working_memory.db.  They carry what was told from *)
(* a row to a summary and on to the engine's memory, between the calls of  *)
(* the scripts.                                                            *)
(*                                                                         *)
(* What a person told is the account and the time it was told under.  When *)
(* a checkpoint is due, who may recall what, and the words that the        *)
(* narrative, a reflection or somebody else's insight repeats, are the     *)
(* subjects of SharedMind; what a message costs is that of Accounts.       *)
(***************************************************************************)
EXTENDS SequencesExt, Integers

CONSTANTS Browser,      \* browser sessions
          Name, Admin,  \* user names; those of IMP_ADMIN_USERS
          NoName, Absent,
          MaxOpened, MaxScripts, MaxFaults, MaxRestarts, MaxCheckpoints    \* bounds

ASSUME WebMindAssumption ==
    /\ Admin \subseteq Name
    /\ NoName \notin Name
    /\ {MaxOpened, MaxScripts, MaxFaults, MaxRestarts, MaxCheckpoints} \subseteq Nat

VARIABLES
    engines,     \* the engines of this process, in the order they were made
    cached,      \* which of them get_mind() returns, 0 for none
    workers,     \* their consolidation-worker threads, in the order they were started
    file,        \* memories.json
    tables,      \* does working_memory.db exist, with its tables?
    rows,        \* its interactions, checkpointed or not
    summaries,   \* its pending_memories that are pending
    accounts,    \* accounts.db: the account that has a name, 0 for none
    browser,     \* st.session_state of each session, and its script
    opened,      \* how many accounts were ever opened
    era,         \* history: how often everything was deleted
    late,        \* history: was anything told under an account that another session
                 \* was deleting, or had deleted?
    disturbed,   \* history: was an erasure disturbed (see Disturb)?
    scripts, faults, restarts, checkpoints     \* counts, for the bounds

mind == <<engines, cached, workers>>
database == <<tables, rows, summaries>>
bounds == <<scripts, faults, restarts, checkpoints>>
webVars == <<mind, file, database, accounts, browser, opened, era, late, disturbed, bounds>>

Account == 1 .. MaxOpened

\* What was told: the owner it is kept under, the account that was logged in.
Telling == [owner : Name, account : Account, era : Nat]

\* dreamt is what the insights of the dream at start-up repeat, until the next message
\* of a user has them judged; it is not saved.
Engine == [frozen : BOOLEAN, memory : SUBSET Telling, dreamt : SUBSET Telling]
Fresh == [frozen |-> FALSE, memory |-> {}, dreamt |-> {}]
Saved == [frozen : BOOLEAN, memory : SUBSET Telling]

\* A row is of the session of the engine that wrote it, of none when the server ended.
Row == [session : Nat, told : Telling]

\* A worker waits, has read rows, has written their summaries, or adds what it flushed.
Worker == [engine : Nat \ {0}, pc : {"idle", "read", "flush", "add"}, held : SUBSET Telling]
Idle(e) == [engine |-> e, pc |-> "idle", held |-> {}]

Call == {"record", "answer", "record_reply", "snapshot", "replace", "delete_owner_data",
         "delete_account", "log_out", "shutdown", "remove_files", "clear_cache",
         "freeze", "unfreeze", "soft_reset"}

LoggedOut == [user |-> NoName, account |-> 0, engine |-> 0, todo |-> <<>>, copy |-> Absent]

WebTypeOK ==
    /\ engines \in Seq(Engine)
    /\ cached \in 0 .. Len(engines)
    /\ workers \in Seq(Worker)
    /\ \A w \in DOMAIN workers : workers[w].engine \in 1 .. Len(engines)
    /\ file \in Saved \cup {Absent}
    /\ tables \in BOOLEAN /\ rows \subseteq Row /\ summaries \subseteq Telling
    /\ accounts \in [Name -> {0} \cup Account]
    /\ browser \in [Browser -> [user : Name \cup {NoName}, account : {0} \cup Account,
                                engine : 0 .. Len(engines), todo : Seq(Call),
                                copy : Saved \cup {Absent}]]
    /\ {opened, era, scripts, faults, restarts, checkpoints} \subseteq Nat
    /\ {late, disturbed} \subseteq BOOLEAN

WebInit ==
    /\ engines = <<>> /\ workers = <<>>
    /\ cached = 0
    /\ file = Absent
    /\ tables = FALSE /\ rows = {} /\ summaries = {}
    /\ accounts = [n \in Name |-> 0]
    /\ browser = [s \in Browser |-> LoggedOut]
    /\ opened = 0 /\ era = 0
    /\ late = FALSE /\ disturbed = FALSE
    /\ scripts = 0 /\ faults = 0 /\ restarts = 0 /\ checkpoints = 0

-----------------------------------------------------------------------------
(* What the scripts call, in order *)

SaveState == <<"snapshot", "replace">>

\* render_chat, after the message was allowed.
ChatCalls == <<"record", "answer", "record_reply">> \o SaveState

\* MUTANT of ForgetMeCalls: the account goes first.
AccountFirst == <<"delete_account", "delete_owner_data">> \o SaveState \o <<"log_out">>

\* "Yes, delete" of the sidebar.
ForgetMeCalls == <<"delete_owner_data">> \o SaveState \o <<"delete_account", "log_out">>

\* MUTANT of FullDeleteCalls: the cache is cleared first.
CacheFirst == <<"clear_cache", "shutdown">> \o SaveState \o <<"remove_files", "log_out">>

\* "Delete Permanently": full_delete, which begins with cognitive_shutdown.
FullDeleteCalls == <<"shutdown">> \o SaveState \o <<"remove_files", "clear_cache", "log_out">>

AdminCalls == {FullDeleteCalls, <<"freeze">> \o SaveState, <<"unfreeze">> \o SaveState,
               <<"soft_reset">> \o SaveState}

Busy(s) == browser[s].todo # <<>>
Others(s) == Browser \ {s}
LoggedIn(s) == browser[s].user # NoName
Erasing == {"delete_owner_data", "shutdown"}
Deleting == \E s \in Browser, call \in {"remove_files", "clear_cache"} :
                Contains(browser[s].todo, call)

\* An erasure is disturbed when another script runs meanwhile, when a worker or a dream
\* holds what is erased, when the server ends in the middle of a full deletion, and when
\* that cannot remove the database.
Disturb(happened) == disturbed' = (disturbed \/ happened)

Kept == IF file = Absent THEN {} ELSE file.memory

-----------------------------------------------------------------------------
(* A script begins *)

\* get_mind: the engine it returns.  A new one makes the database if there is none, starts
\* a worker, loads what the file holds and may dream of it.
GetMind(e) ==
    IF cached # 0 THEN e = cached /\ UNCHANGED <<mind, database>>
    ELSE /\ \E dreamt \in SUBSET Kept :
                engines' = Append(engines,
                               [frozen |-> file # Absent /\ file.frozen, memory |-> Kept,
                                dreamt |-> dreamt])
         /\ e = Len(engines')
         /\ cached' = e
         /\ workers' = Append(workers, Idle(e))
         /\ tables' = TRUE
         /\ UNCHANGED <<rows, summaries>>

NextScript ==
    scripts < MaxScripts /\ scripts' = scripts + 1 /\ UNCHANGED <<faults, restarts, checkpoints>>

\* _start_session: the script of a login form ends here.
StartSession(s, n) ==
    browser' = [browser EXCEPT ![s] = [LoggedOut EXCEPT !.user = n, !.account = accounts'[n]]]

SignUp(s, n) ==
    /\ ~LoggedIn(s) /\ opened < MaxOpened
    /\ accounts[n] = 0
    /\ \E e \in 1 .. Len(engines) + 1 : GetMind(e)
    /\ opened' = opened + 1
    /\ accounts' = [accounts EXCEPT ![n] = opened']
    /\ StartSession(s, n)
    /\ UNCHANGED <<file, era, late, disturbed, bounds>>

Login(s, n) ==
    /\ ~LoggedIn(s)
    /\ accounts[n] # 0
    /\ \E e \in 1 .. Len(engines) + 1 : GetMind(e)
    /\ UNCHANGED accounts
    /\ StartSession(s, n)
    /\ UNCHANGED <<file, opened, era, late, disturbed, bounds>>

Begin(s, calls) ==
    /\ LoggedIn(s) /\ ~Busy(s)
    /\ NextScript
    /\ \E e \in 1 .. Len(engines) + 1 :
           /\ GetMind(e)
           /\ calls = ChatCalls => ~engines'[e].frozen
           /\ browser' = [browser EXCEPT ![s].engine = e, ![s].todo = calls]
    /\ Disturb(Deleting /\ \E c \in Erasing : Contains(calls, c))
    /\ UNCHANGED <<file, accounts, opened, era, late>>

SignOut(s) ==
    /\ LoggedIn(s) /\ ~Busy(s)
    /\ browser' = [browser EXCEPT ![s] = LoggedOut]
    /\ UNCHANGED <<mind, file, database, accounts, opened, era, late, disturbed, bounds>>

-----------------------------------------------------------------------------
(* A script makes its next call *)

Makes(s, call) == Busy(s) /\ Head(browser[s].todo) = call
Mind(s) == engines[browser[s].engine]
Proceeds(s) == browser' = [browser EXCEPT ![s].todo = Tail(@)]
Changes(s, engine) == engines' = [engines EXCEPT ![browser[s].engine] = engine]

\* Is the account of this session gone, or going?
Outlives(s) ==
    \/ accounts[browser[s].user] # browser[s].account
    \/ Deleting
    \/ \E o \in Others(s) : /\ browser[o].user = browser[s].user
                            /\ Contains(browser[o].todo, "delete_account")

\* A call raises, which ends the script.
Stops(s) == browser' = [browser EXCEPT ![s].todo = <<>>]

\* process_interaction, which a frozen engine refuses: a message of the user has the
\* dream's insights judged, then the message becomes a row, if there are tables.
Record(s) ==
    /\ Makes(s, "record") \/ Makes(s, "record_reply")
    /\ LET told == [owner |-> browser[s].user, account |-> browser[s].account, era |-> era]
       IN  IF Mind(s).frozen THEN Proceeds(s) /\ UNCHANGED <<engines, rows>>
           ELSE /\ \E valid \in SUBSET Mind(s).dreamt :
                       Changes(s, IF Makes(s, "record")
                                  THEN [Mind(s) EXCEPT !.memory = @ \cup valid, !.dreamt = {}]
                                  ELSE Mind(s))
                /\ IF tables
                   THEN /\ rows' = rows \cup {[session |-> browser[s].engine, told |-> told]}
                        /\ Proceeds(s)
                   ELSE Stops(s) /\ UNCHANGED rows
    /\ late' = (late \/ Outlives(s))
    /\ UNCHANGED <<cached, workers, file, tables, summaries, accounts, opened, era, disturbed,
                   bounds>>

\* The language model answers, from a context built for this user ...
Answer(s) ==
    /\ Makes(s, "answer")
    /\ Proceeds(s)
    /\ UNCHANGED <<mind, file, database, accounts, opened, era, late, disturbed, bounds>>

\* ... or does not, or the browser asks for another page meanwhile.
GiveUp(s) ==
    /\ Makes(s, "answer")
    /\ Stops(s)
    /\ UNCHANGED <<mind, file, database, accounts, opened, era, late, disturbed, bounds>>

Snapshot(s) ==
    /\ Makes(s, "snapshot")
    /\ browser' = [browser EXCEPT ![s].copy = [frozen |-> Mind(s).frozen,
                                               memory |-> Mind(s).memory],
                                  ![s].todo = Tail(@)]
    /\ UNCHANGED <<mind, file, database, accounts, opened, era, late, disturbed, bounds>>

Replace(s) ==
    /\ Makes(s, "replace")
    /\ file' = browser[s].copy
    /\ browser' = [browser EXCEPT ![s].copy = Absent, ![s].todo = Tail(@)]
    /\ UNCHANGED <<mind, database, accounts, opened, era, late, disturbed, bounds>>

Fault == faults < MaxFaults /\ faults' = faults + 1 /\ UNCHANGED <<scripts, restarts, checkpoints>>

\* save_state raises.  Only cognitive_shutdown goes on after that.
SaveFails(s) ==
    /\ Makes(s, "replace")
    /\ Fault
    /\ browser' = [browser EXCEPT ![s].copy = Absent,
                                  ![s].todo = IF Contains(@, "remove_files") THEN Tail(@)
                                              ELSE <<>>]
    /\ UNCHANGED <<mind, file, database, accounts, opened, era, late, disturbed>>

OthersRun(s) == \E o \in Others(s) : Busy(o)

\* What the workers carry, to a summary or to memory.
Carried == UNION {workers[w].held : w \in DOMAIN workers}

\* Are somebody's words in the hands of a worker, or in a dream?
OnTheWay(s) == \E t \in Carried \cup Mind(s).dreamt : t.owner = browser[s].user

\* The memories go first, and the rows of all sessions after them, if there are tables.
DeleteOwnerData(s) ==
    /\ Makes(s, "delete_owner_data")
    /\ Changes(s, [Mind(s) EXCEPT !.memory = {t \in @ : t.owner # browser[s].user}])
    /\ rows' = {r \in rows : r.told.owner # browser[s].user}
    /\ summaries' = {t \in summaries : t.owner # browser[s].user}
    /\ IF tables THEN Proceeds(s) ELSE Stops(s)
    /\ Disturb(OthersRun(s) \/ OnTheWay(s))
    /\ UNCHANGED <<cached, workers, file, tables, accounts, opened, era, late, bounds>>

DeletesAccount(s) ==
    /\ Makes(s, "delete_account")
    /\ accounts' = [accounts EXCEPT ![browser[s].user] = 0]
    /\ Proceeds(s)
    /\ UNCHANGED <<mind, file, database, opened, era, late, disturbed, bounds>>

LogsOut(s) ==
    /\ Makes(s, "log_out")
    /\ browser' = [browser EXCEPT ![s] = LoggedOut]
    /\ UNCHANGED <<mind, file, database, accounts, opened, era, late, disturbed, bounds>>

AtWork == \E w \in DOMAIN workers : workers[w].pc # "idle"

\* The kill switch leaves working memory and the dream's insights as they are.
Shutdown(s) ==
    /\ Makes(s, "shutdown")
    /\ Changes(s, [Mind(s) EXCEPT !.frozen = TRUE, !.memory = {}])
    /\ era' = era + 1
    /\ Disturb(OthersRun(s) \/ AtWork \/ Mind(s).dreamt # {})
    /\ Proceeds(s)
    /\ UNCHANGED <<cached, workers, file, database, accounts, opened, late, bounds>>

\* A file that cannot be removed is logged, and the others are removed.
RemoveFiles(s) ==
    /\ Makes(s, "remove_files")
    /\ \E kept \in {{}} \cup {{f} : f \in {"json", "accounts", "database"}} :
           /\ IF kept = {} THEN UNCHANGED bounds ELSE Fault
           /\ file' = IF "json" \in kept THEN file ELSE Absent
           /\ accounts' = IF "accounts" \in kept THEN accounts ELSE [n \in Name |-> 0]
           /\ IF "database" \in kept THEN UNCHANGED database
              ELSE tables' = FALSE /\ rows' = {} /\ summaries' = {}
           /\ Disturb("database" \in kept)
    /\ Proceeds(s)
    /\ UNCHANGED <<mind, opened, era, late>>

ClearCache(s) ==
    /\ Makes(s, "clear_cache")
    /\ cached' = 0
    /\ Proceeds(s)
    /\ UNCHANGED <<engines, workers, file, database, accounts, opened, era, late, disturbed,
                   bounds>>

SetFrozen(s) ==
    /\ Makes(s, "freeze") \/ Makes(s, "unfreeze")
    /\ Changes(s, [Mind(s) EXCEPT !.frozen = Makes(s, "freeze")])
    /\ Proceeds(s)
    /\ UNCHANGED <<cached, workers, file, database, accounts, opened, era, late, disturbed,
                   bounds>>

\* All rows go, whoever's; without tables that raises, before anything else is done.
SoftReset(s) ==
    /\ Makes(s, "soft_reset")
    /\ IF tables
       THEN /\ rows' = {} /\ summaries' = {}
            /\ Changes(s, Fresh)
            /\ workers' = Append(workers, Idle(browser[s].engine))
            /\ Proceeds(s)
       ELSE Stops(s) /\ UNCHANGED <<engines, workers, rows, summaries>>
    /\ UNCHANGED <<cached, file, tables, accounts, opened, era, late, disturbed, bounds>>

-----------------------------------------------------------------------------
(* The consolidation workers *)

WorkerIs(w, pc) == w \in DOMAIN workers /\ workers[w].pc = pc
Becomes(w, pc, held) == workers' = [workers EXCEPT ![w].pc = pc, ![w].held = held]
RowsOf(e) == {r.told : r \in {x \in rows : x.session = e}}

\* A checkpoint reads rows of its engine's session and has them summarised.  One that
\* finds no rows flushes all summaries and throws them away.
BeginCheckpoint(w) ==
    /\ WorkerIs(w, "idle") /\ tables
    /\ \E read \in SUBSET RowsOf(workers[w].engine) :
           IF read = {} THEN summaries' = {} /\ UNCHANGED <<workers, disturbed, checkpoints>>
           ELSE /\ Becomes(w, "read", read)
                /\ Disturb(Deleting)
                /\ checkpoints < MaxCheckpoints /\ checkpoints' = checkpoints + 1
                /\ UNCHANGED summaries
    /\ UNCHANGED <<engines, cached, file, tables, rows, accounts, browser, opened, era, late,
                   scripts, faults, restarts>>

\* The summaries go into the database that is there then.
WriteSummaries(w) ==
    /\ WorkerIs(w, "read") /\ tables
    /\ summaries' = summaries \cup workers[w].held
    /\ Becomes(w, "flush", {})
    /\ UNCHANGED <<engines, cached, file, tables, rows, accounts, browser, opened, era, late,
                   disturbed, bounds>>

\* flush_to_long_term takes all summaries, whatever their session.
FlushToLongTerm(w) ==
    /\ WorkerIs(w, "flush") /\ tables
    /\ Becomes(w, "add", summaries)
    /\ summaries' = {}
    /\ UNCHANGED <<engines, cached, file, tables, rows, accounts, browser, opened, era, late,
                   disturbed, bounds>>

\* A summary becomes memory, or a note that quotes it, of the worker's own engine, frozen
\* or not.  (A note that waits to be shown counts as memory here.)
AddMemory(w) ==
    /\ WorkerIs(w, "add")
    /\ \E t \in workers[w].held :
           engines' = [engines EXCEPT ![workers[w].engine].memory = @ \cup {t}]
    /\ UNCHANGED <<cached, workers, file, database, accounts, browser, opened, era, late,
                   disturbed, bounds>>

\* The worker is done, what was not added was refused; or a transaction failed.
EndCheckpoint(w) ==
    /\ \E pc \in {"read", "flush", "add"} : WorkerIs(w, pc)
    /\ Becomes(w, "idle", {})
    /\ UNCHANGED <<engines, cached, file, database, accounts, browser, opened, era, late,
                   disturbed, bounds>>

WorkerStep(w) ==
    BeginCheckpoint(w) \/ WriteSummaries(w) \/ FlushToLongTerm(w) \/ AddMemory(w)
    \/ EndCheckpoint(w)

-----------------------------------------------------------------------------

\* The server ends, and with it every session and worker; what is on disk stays.
Restart ==
    /\ restarts < MaxRestarts
    /\ restarts' = restarts + 1
    /\ engines' = <<>> /\ cached' = 0 /\ workers' = <<>>
    /\ rows' = {[r EXCEPT !.session = 0] : r \in rows}
    /\ browser' = [s \in Browser |-> LoggedOut]
    /\ Disturb(Deleting)
    /\ UNCHANGED <<file, tables, summaries, accounts, opened, era, late, scripts, faults,
                   checkpoints>>

CallStep(s) ==
    \/ Record(s) \/ Answer(s) \/ GiveUp(s)
    \/ Snapshot(s) \/ Replace(s) \/ SaveFails(s)
    \/ DeleteOwnerData(s) \/ DeletesAccount(s) \/ LogsOut(s)
    \/ Shutdown(s) \/ RemoveFiles(s) \/ ClearCache(s)
    \/ SetFrozen(s) \/ SoftReset(s)

WebNext ==
    \/ \E s \in Browser :
           \/ \E n \in Name : SignUp(s, n) \/ Login(s, n)
           \/ Begin(s, ChatCalls) \/ Begin(s, ForgetMeCalls)
           \/ browser[s].user \in Admin /\ \E calls \in AdminCalls : Begin(s, calls)
           \/ SignOut(s)
           \/ CallStep(s)
    \/ \E w \in DOMAIN workers : WorkerStep(w)
    \/ Restart

WebSpec == WebInit /\ [][WebNext]_webVars

-----------------------------------------------------------------------------
(* Properties *)

Held(e) == IF e = 0 THEN {} ELSE engines[e].memory
Stored == {r.told : r \in rows} \cup summaries

\* app.py:121, "What you tell it stays between the two of you".  Whoever has a
\* name finds, in the mind, in its file and in the database its worker reads, nothing
\* told under an earlier account of that name, in whatever order accounts are deleted and
\* opened again, checkpoints run, scripts are cut short and the server is restarted;
\* unless a session outlived its account, the erasure was disturbed, or both the save and
\* the removal of a deletion failed, so that the file stayed.
NamesStartEmpty ==
    ~late /\ ~disturbed /\ faults <= 1 =>
        \A t \in Held(cached) \cup Kept \cup Stored : accounts[t.owner] \in {0, t.account}

\* engine.py:1558-1594 and app.py:281.  What was told before everything was deleted
\* is in no mind a later script gets, in no file a later process loads and in no row or
\* summary a later checkpoint takes, though scripts and workers go on with the deleted
\* engine, and though a save or a removal fails, but not both; unless the deletion was
\* disturbed.
DeletedIsGone ==
    ~disturbed /\ faults <= 1 /\ ~Deleting =>
        \A t \in Held(cached) \cup Kept \cup Stored : t.era = era

=============================================================================
