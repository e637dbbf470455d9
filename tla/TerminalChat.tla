---------------------------- MODULE TerminalChat ----------------------------
(***************************************************************************)
(* The terminal front end: the loop of agent/chat.py, the short-term list  *)
(* of agent/memory_manager.py that the loop and a timer thread share, and  *)
(* the summaries of agent/summarizer.py that move it into the engine.      *)
(*                                                                         *)
(* What SharedMind says of the engine is left out but for its database:    *)
(* whether it exists, has its tables, and holds anybody's words; and for   *)
(* its worker, which reads them, asks the language model, and writes a     *)
(* summary of them.  The timer sleeps as long as a time-based flush must   *)
(* wait, so it never finds itself early, and there is no clock.            *)
(***************************************************************************)
EXTENDS Sessions, FiniteSets

CONSTANTS ShortTermLimit,  \* short_term_limit
          Kept,            \* the 10 messages a flush keeps
          MinMessages,     \* ConversationSummarizer.min_messages
          MaxSaid, MaxSessions, MaxCommands   \* bounds of the model

ASSUME TerminalChatAssumption ==
    /\ ShortTermLimit \in Nat \ {0}
    /\ Kept \in Nat \ {0} /\ Kept < ShortTermLimit
    /\ MinMessages \in Nat \ {0}
    /\ MaxSaid \in Nat /\ MaxSessions \in Nat /\ MaxCommands \in Nat

Message == Nat \ {0}
Thread == {"chat", "timer"}

VARIABLES
    short_term,     \* the short-term list
    flush_lock,     \* its holder, or "free"
    local,          \* where each thread stands, with its local values
    said,           \* how many messages were said; a message is its number
    role,           \* whose message the chat loop is dealing with
    engine,         \* the engine object of this process
    checkpoint,     \* is the worker between reading rows and writing their summary?
    db,             \* working_memory.db: is there a file, with tables, with words?
    file,           \* memories.json: its tracker and frozen flag
    session,        \* how many sessions were started
    commands,       \* how many commands were given
    refused,        \* history: did the chat loop's last flush store nothing?
    wiped,          \* history: the files /delete removed
    recorded        \* history: the sessions the file was written in, in order

shared == <<short_term, flush_lock, local>>
disk == <<db, file>>
history == <<refused, wiped, recorded>>
vars == <<shared, said, role, engine, checkpoint, disk, session, commands, history>>

Work == {"lock", "summarise", "store", "trim"}
PC == Work \cup {"off", "input", "tell", "reply", "save", "wipe", "exit", "sleep"}

Local == [pc : PC, read : SUBSET Message, kept : Seq(Message)]
Doing(pc) == [pc |-> pc, read |-> {}, kept |-> <<>>]

Engine == [on : BOOLEAN, is_frozen : BOOLEAN, data_deleted : BOOLEAN, temporal : Tracker]
NoEngine == [on |-> FALSE, is_frozen |-> FALSE, data_deleted |-> FALSE,
             temporal |-> NewTracker]

Database == {"none", "empty", "tables", "words"}

Saved == [is_frozen : BOOLEAN, temporal : Tracker]
NoFile == [is_frozen |-> FALSE, temporal |-> NewTracker]

TypeOK ==
    /\ short_term \in Seq(Message)
    /\ flush_lock \in Thread \cup {"free"}
    /\ local \in [Thread -> Local]
    /\ said \in Nat
    /\ role \in {"user", "assistant"}
    /\ engine \in Engine
    /\ checkpoint \in BOOLEAN
    /\ db \in Database
    /\ file \in Saved
    /\ session \in Nat /\ commands \in Nat
    /\ refused \in BOOLEAN
    /\ wiped \subseteq {"json", "db"}
    /\ recorded \in Seq(Message)

Init ==
    /\ short_term = <<>>
    /\ flush_lock = "free"
    /\ local = [t \in Thread |-> Doing("off")]
    /\ said = 0
    /\ role = "user"
    /\ engine = NoEngine
    /\ checkpoint = FALSE
    /\ db = "none"
    /\ file = NoFile
    /\ session = 0 /\ commands = 0
    /\ refused = FALSE
    /\ wiped = {}
    /\ recorded = <<>>

At(t, pc) == local[t].pc = pc
Goes(t, pc) == local' = [local EXCEPT ![t] = Doing(pc)]
Elements(s) == {s[i] : i \in DOMAIN s}

-----------------------------------------------------------------------------
(* A message joins the short-term list, which may call for a flush. *)

\* MUTANT of Full: one message too many.
OverFull(list) == Len(list) > ShortTermLimit

Full(list) == Len(list) >= ShortTermLimit

AddMessage(r) ==
    /\ said' = said + 1
    /\ role' = r
    /\ short_term' = Append(short_term, said + 1)
    /\ Goes("chat", IF Full(short_term') THEN "lock" ELSE "tell")
    /\ UNCHANGED <<flush_lock, checkpoint>>

Say ==
    /\ At("chat", "input")
    /\ said + 1 < MaxSaid
    /\ AddMessage("user")
    /\ UNCHANGED <<engine, disk, session, commands, history>>

\* The answer of the language model, or the text of its error.
Reply ==
    /\ At("chat", "reply")
    /\ AddMessage("assistant")
    /\ UNCHANGED <<engine, disk, session, commands, history>>

\* The timer's own test is made before it waits for the lock.
Wake ==
    /\ At("timer", "sleep")
    /\ short_term # <<>>
    /\ Goes("timer", "lock")
    /\ UNCHANGED <<short_term, flush_lock, said, role, engine, checkpoint, disk,
                   session, commands, history>>

AfterFlush(t) == IF t = "chat" THEN "tell" ELSE "sleep"

\* Somebody else may have flushed while the chat loop waited for the lock.
SkipFlush ==
    /\ At("chat", "lock") /\ flush_lock = "free"
    /\ ~Full(short_term)
    /\ Goes("chat", "tell")
    /\ UNCHANGED <<short_term, flush_lock, said, role, engine, checkpoint, disk,
                   session, commands, history>>

\* The lock is taken and the prompt is written; the model summarises under the lock.
BeginFlush(t) ==
    /\ At(t, "lock") /\ flush_lock = "free"
    /\ t = "chat" => Full(short_term)
    /\ flush_lock' = t
    /\ local' = [local EXCEPT ![t] = [Doing("summarise") EXCEPT !.read = Elements(short_term)]]
    /\ UNCHANGED <<short_term, said, role, engine, checkpoint, disk, session,
                   commands, history>>

\* MUTANT of GiveUp: the lock is not given back.
GiveUpLocked(t) ==
    /\ Goes(t, AfterFlush(t))
    /\ refused' = (refused \/ t = "chat")
    /\ UNCHANGED <<short_term, flush_lock, said, role, engine, checkpoint, file,
                   session, commands, wiped, recorded>>

GiveUp(t) ==
    /\ flush_lock' = "free"
    /\ Goes(t, AfterFlush(t))
    /\ refused' = (refused \/ t = "chat")
    /\ UNCHANGED <<short_term, said, role, engine, checkpoint, file, session,
                   commands, wiped, recorded>>

\* No engine, a frozen one, too few messages, no answer, a poor or unimportant one.
Refuse(t) == At(t, "summarise") /\ GiveUp(t) /\ UNCHANGED db

\* The summary is good, and process_interaction finds the engine awake.
Accept(t) ==
    /\ At(t, "summarise")
    /\ engine.on /\ ~engine.is_frozen
    /\ Cardinality(local[t].read) >= MinMessages
    /\ local' = [local EXCEPT ![t].pc = "store"]
    /\ UNCHANGED <<short_term, flush_lock, said, role, engine, checkpoint, disk,
                   session, commands, history>>

HasTables == db \in {"tables", "words"}

\* sqlite3.connect makes a file where there is none.
Connected == IF db = "none" THEN "empty" ELSE db

\* The summary is in working memory; then the end of the list is copied.
Store(t) ==
    /\ At(t, "store") /\ HasTables
    /\ db' = "words"
    /\ local' = [local EXCEPT ![t] = [Doing("trim") EXCEPT !.kept = Newest(short_term, Kept)]]
    /\ UNCHANGED <<short_term, flush_lock, said, role, engine, checkpoint, file,
                   session, commands, history>>

\* The database was deleted in the meantime: it is there again, without tables.
StoreFails(t) == At(t, "store") /\ ~HasTables /\ db' = Connected /\ GiveUp(t)

\* The copy replaces the list.
Trim(t) ==
    /\ At(t, "trim")
    /\ short_term' = local[t].kept
    /\ flush_lock' = "free"
    /\ Goes(t, AfterFlush(t))
    /\ refused' = FALSE
    /\ UNCHANGED <<said, role, engine, checkpoint, disk, session, commands, wiped,
                   recorded>>

-----------------------------------------------------------------------------
(* The rest of an exchange, and the commands. *)

\* process_interaction with the message itself.
Tell ==
    /\ At("chat", "tell")
    /\ db' = IF engine.on /\ ~engine.is_frozen THEN "words" ELSE db
    /\ Goes("chat", IF role = "user" THEN "reply" ELSE IF engine.on THEN "save" ELSE "input")
    /\ UNCHANGED <<short_term, flush_lock, said, role, engine, checkpoint, file,
                   session, commands, history>>

\* save_state() with the engine as it is after the step.
SaveState(e, s, earlier) ==
    /\ file' = [is_frozen |-> e.is_frozen, temporal |-> e.temporal]
    /\ recorded' = IF s \in Elements(earlier) THEN earlier ELSE Append(earlier, s)

Unsaved == UNCHANGED <<file, recorded>>

\* After each exchange; a failure is logged.
Save ==
    /\ At("chat", "save")
    /\ Goes("chat", "input")
    /\ SaveState(engine, session, recorded) \/ Unsaved
    /\ UNCHANGED <<short_term, flush_lock, said, role, engine, checkpoint, db,
                   session, commands, refused, wiped>>

Command ==
    /\ At("chat", "input")
    /\ commands < MaxCommands
    /\ commands' = commands + 1

Clear ==
    /\ Command
    /\ short_term' = <<>>
    /\ UNCHANGED <<flush_lock, local, said, role, engine, checkpoint, disk, session,
                   history>>

\* /save, after which everything told is in the engine as it was (see SharedMind).
ForceSave ==
    /\ Command
    /\ engine.on
    /\ SaveState(engine, session, recorded)
    /\ UNCHANGED <<shared, said, role, engine, checkpoint, db, session, refused,
                   wiped>>

SetFrozen(frozen) ==
    /\ Command
    /\ engine.on
    /\ engine' = [engine EXCEPT !.is_frozen = frozen]
    /\ SaveState(engine', session, recorded)
    /\ UNCHANGED <<shared, said, role, checkpoint, db, session, refused, wiped>>

\* /reset: a new tracker with a session of its own; the short-term list stays.
SoftReset ==
    /\ Command
    /\ engine.on
    /\ session < MaxSessions
    /\ session' = session + 1
    /\ engine' = [engine EXCEPT !.is_frozen = FALSE,
                                !.temporal = StartSession(NewTracker, session + 1)]
    /\ SaveState(engine', session', <<>>)
    /\ db' = "tables"
    /\ UNCHANGED <<shared, said, role, checkpoint, refused, wiped>>

\* The passphrase: cognitive_shutdown(), whose failure to save is logged.
KillSwitch ==
    /\ Command
    /\ short_term' = <<>>
    /\ Goes("chat", "exit")
    /\ IF engine.on
       THEN /\ engine' = [engine EXCEPT !.is_frozen = TRUE]
            /\ SaveState(engine', session, recorded) \/ Unsaved
       ELSE UNCHANGED <<engine, file, recorded>>
    /\ UNCHANGED <<flush_lock, said, role, checkpoint, db, session, refused, wiped>>

\* /delete begins with a shutdown ...
FullDelete ==
    /\ Command
    /\ engine.on
    /\ engine' = [engine EXCEPT !.is_frozen = TRUE, !.data_deleted = TRUE]
    /\ SaveState(engine', session, recorded) \/ Unsaved
    /\ Goes("chat", "wipe")
    /\ UNCHANGED <<short_term, flush_lock, said, role, checkpoint, db, session,
                   refused, wiped>>

\* ... and removes the files; one that cannot be removed is logged and stays.
Wipe(removed) ==
    /\ At("chat", "wipe")
    /\ Goes("chat", "exit")
    /\ wiped' = removed
    /\ db' = IF "db" \in removed THEN "none" ELSE db
    /\ IF "json" \in removed THEN file' = NoFile /\ recorded' = <<>> ELSE Unsaved
    /\ UNCHANGED <<short_term, flush_lock, said, role, engine, checkpoint, session,
                   commands, refused>>

Quit ==
    /\ At("chat", "input")
    /\ Goes("chat", "exit")
    /\ UNCHANGED <<short_term, flush_lock, said, role, engine, checkpoint, disk,
                   session, commands, history>>

-----------------------------------------------------------------------------
(* The consolidation worker, which no test of is_frozen stops. *)

BeginCheckpoint ==
    /\ engine.on /\ ~checkpoint
    /\ checkpoint' = (db = "words")
    /\ db' = Connected
    /\ UNCHANGED <<shared, said, role, engine, file, session, commands, history>>

\* The summary is written where there are tables, whatever became of the rows.
FinishCheckpoint ==
    /\ checkpoint
    /\ checkpoint' = FALSE
    /\ db' = IF HasTables THEN "words" ELSE Connected
    /\ UNCHANGED <<shared, said, role, engine, file, session, commands, history>>

-----------------------------------------------------------------------------
(* The process. *)

Ends ==
    /\ short_term' = <<>>
    /\ flush_lock' = "free"
    /\ local' = [t \in Thread |-> Doing("off")]
    /\ engine' = NoEngine
    /\ checkpoint' = FALSE
    /\ refused' = FALSE

\* MUTANT of MayExitSave: the files come back after /delete.
AlwaysExitSave == engine.on

MayExitSave == engine.on /\ ~engine.data_deleted

\* The end of the loop, and with it of the process and its daemon threads.
Exit ==
    /\ At("chat", "exit")
    /\ Ends
    /\ \/ Unsaved
       \/ /\ MayExitSave
          /\ SaveState([engine EXCEPT !.temporal = FinalizeSession(engine.temporal)],
                       session, recorded)
    /\ UNCHANGED <<said, role, db, session, commands, wiped>>

\* Also an exception that nothing catches: the exit save is not in a finally.
Crash ==
    /\ ~At("chat", "off")
    /\ Ends
    /\ UNCHANGED <<said, role, disk, session, commands, wiped, recorded>>

Started ==
    /\ At("chat", "off")
    /\ local' = [local EXCEPT !["chat"] = Doing("input"), !["timer"] = Doing("sleep")]

\* The tables are there, and with them what is left of an earlier process.
Initialised ==
    /\ db' = IF db = "words" THEN "words" ELSE "tables"
    /\ wiped' = {}

Start ==
    /\ Started
    /\ session < MaxSessions
    /\ session' = session + 1
    /\ engine' = [on |-> TRUE, is_frozen |-> file.is_frozen, data_deleted |-> FALSE,
                  temporal |-> StartSession(file.temporal, session + 1)]
    /\ Initialised
    /\ UNCHANGED <<short_term, flush_lock, said, role, checkpoint, file, commands,
                   refused, recorded>>

\* The engine cannot be made, with its database or before it: the chat runs
\* without it.
StartWithoutEngine ==
    /\ Started
    /\ Initialised \/ UNCHANGED <<db, wiped>>
    /\ UNCHANGED <<short_term, flush_lock, said, role, engine, checkpoint, file,
                   session, commands, refused, recorded>>

-----------------------------------------------------------------------------

FlushStep(t) ==
    BeginFlush(t) \/ Refuse(t) \/ Accept(t) \/ Store(t) \/ StoreFails(t) \/ Trim(t)

\* What the chat loop does without being asked.
ChatStep == FlushStep("chat") \/ SkipFlush \/ Tell \/ Reply \/ Save
            \/ (\E removed \in SUBSET {"json", "db"} : Wipe(removed)) \/ Exit

UserStep == Say \/ Quit \/ Clear \/ ForceSave \/ SoftReset \/ KillSwitch \/ FullDelete
            \/ \E frozen \in BOOLEAN : SetFrozen(frozen)

Next == ChatStep \/ UserStep \/ Wake \/ FlushStep("timer")
        \/ BeginCheckpoint \/ FinishCheckpoint
        \/ Crash \/ Start \/ StartWithoutEngine

Spec == Init /\ [][Next]_vars

\* Both threads run, and the chat loop gets the lock in the end: the timer
\* sleeps ten minutes between two flushes.
FairSpec ==
    /\ Spec
    /\ WF_vars(ChatStep) /\ WF_vars(FlushStep("timer"))
    /\ SF_vars(BeginFlush("chat") \/ SkipFlush)

-----------------------------------------------------------------------------
(* Properties *)

\* memory_manager.py:81-84.  The list is longer than its limit only while the
\* chat loop's last flush stored nothing.
WindowIsBounded == refused \/ Len(short_term) <= ShortTermLimit

\* chat.py:445-450.  What /delete removed does not come back: not by the exit
\* save, not by the flush that was on its way, not by the checkpoint that was.
\* (An empty database may: the last two connect to it before they fail.)
DeletedStaysDeleted ==
    /\ "json" \in wiped => file = NoFile
    /\ "db" \in wiped => ~HasTables

\* temporal.py:184-202.  The file lists the newest sessions it was saved in, each
\* once and in order, whether they ended by an exit or by a crash.
SessionsAreKept ==
    IF file.temporal.current_session = NoSession
    THEN file.temporal.session_log = Newest(recorded, MaxSessionLog)
    ELSE Append(file.temporal.session_log, file.temporal.current_session) =
             Newest(recorded, MaxSessionLog + 1)

\* memory_manager.py:81-84.  Whatever the timer does, a message in the chat loop
\* is dealt with, and the loop asks for the next, or the process ends.
MessagesAreAnswered == At("chat", "lock") ~> (At("chat", "input") \/ At("chat", "off"))

=============================================================================
