------------------------- MODULE TerminalChat_proofs -------------------------
(***************************************************************************)
(* For every size of the window, of the session log and of the bounds: the *)
(* type invariant, the bound on the short-term list, that files which      *)
(* /delete removed stay away until the next start, and that the file tells *)
(* the sessions it was saved in.                                           *)
(***************************************************************************)
EXTENDS TerminalChat, SequenceTheorems, TLAPS

\* Newest (the s[-n:] of memory_manager.py:259) is a sequence of at most n elements.
LEMMA NewestIsASuffix ==
    ASSUME NEW S, NEW s \in Seq(S), NEW n \in Nat
    PROVE  Newest(s, n) \in Seq(S) /\ Len(Newest(s, n)) <= n
<1>1. CASE Len(s) <= n
      BY <1>1 DEF Newest
<1>2. CASE ~(Len(s) <= n)
      <2>1. Len(s) - n + 1 \in 1 .. Len(s) + 1
            BY <1>2
      <2>2. \A i \in Len(s) - n + 1 .. Len(s) : s[i] \in S
            BY <2>1
      <2>3. SubSeq(s, Len(s) - n + 1, Len(s)) \in Seq(S)
            BY <2>1, <2>2
      <2>4. Len(SubSeq(s, Len(s) - n + 1, Len(s))) = n
            BY <1>2, <2>1
      <2>5. QED
            BY <1>2, <2>3, <2>4 DEF Newest
<1>3. QED
      BY <1>1, <1>2

\* Opening and closing sessions (temporal.py:184-202, 313-327) gives a tracker.
LEMMA TrackersStayTrackers ==
    ASSUME NEW tracker \in Tracker, NEW n \in Nat
    PROVE  StartSession(tracker, n) \in Tracker /\ FinalizeSession(tracker) \in Tracker
<1>1. tracker.session_log \in Seq(Nat \ {0}) /\ tracker.current_session \in Nat
      BY DEF Tracker
<1>2. MaxSessionLog \in Nat
      BY SessionsAssumption
<1>3. Closed(tracker) \in Seq(Nat \ {0})
      <2>1. CASE tracker.current_session = NoSession
            BY <1>1, <2>1 DEF Closed
      <2>2. CASE tracker.current_session # NoSession
            <3>1. Append(tracker.session_log, tracker.current_session) \in Seq(Nat \ {0})
                  BY <1>1, <2>2 DEF NoSession
            <3>2. QED
                  BY <1>2, <2>2, <3>1, NewestIsASuffix DEF Closed
      <2>3. QED
            BY <2>1, <2>2
<1>4. QED
      BY <1>3 DEF StartSession, FinalizeSession, Tracker, NoSession

LEMMA Constants ==
    /\ NewTracker \in Tracker
    /\ NoEngine \in Engine
    /\ NoFile \in Saved
    /\ \A pc \in PC : Doing(pc) \in Local /\ Doing(pc).pc = pc /\ Doing(pc).kept = <<>>
BY DEF NewTracker, Tracker, NoSession, NoEngine, Engine, NoFile, Saved, Doing, Local

\* What save_state() writes has the form of the file.
LEMMA SavesAreTyped ==
    ASSUME TypeOK, NEW e \in Engine, NEW s \in Nat \ {0}, NEW earlier \in Seq(Message),
           SaveState(e, s, earlier)
    PROVE  file' \in Saved /\ recorded' \in Seq(Message)
BY DEF SaveState, Engine, Saved, Message

-----------------------------------------------------------------------------
(* The type invariant.  What can be saved has a session, and what the engine
   is told has a number. *)

SessionRuns == engine.on => session > 0

Typed ==
    /\ TypeOK
    /\ SessionRuns
    /\ At("chat", "save") \/ At("chat", "wipe") => engine.on
    /\ local["chat"].pc \in Work \cup {"tell"} => said > 0

LEMMA InitTyped == Init => Typed
<1> SUFFICES ASSUME Init
             PROVE  Typed
    OBVIOUS
<1>1. Doing("off") \in Local /\ Doing("off").pc = "off"
      BY Constants DEF PC
<1>2. local \in [Thread -> Local] /\ local["chat"].pc = "off"
      BY <1>1 DEF Init, Thread
<1>3. ~engine.on
      BY DEF Init, NoEngine
<1>4. file \in Saved /\ engine \in Engine
      BY Constants DEF Init
<1>5. checkpoint \in BOOLEAN /\ refused \in BOOLEAN /\ db \in Database
      BY DEF Init, Database
<1>6. TypeOK
      BY <1>2, <1>4, <1>5 DEF Init, TypeOK, Message, Thread
<1>7. QED
      BY <1>2, <1>3, <1>6 DEF Typed, SessionRuns, At, Work

\* The database and the worker that reads it.
LEMMA DatabaseTyped ==
    ASSUME db \in Database, checkpoint \in BOOLEAN, [Next]_vars
    PROVE  db' \in Database /\ checkpoint' \in BOOLEAN
<1>1. "none" \in Database /\ "tables" \in Database /\ "words" \in Database
      BY DEF Database
<1>2. Connected \in Database
      BY DEF Connected, Database
<1>3. ASSUME NEW t \in Thread, FlushStep(t)
      PROVE  db' \in Database /\ checkpoint' = checkpoint
      BY <1>1, <1>2, <1>3 DEF FlushStep, BeginFlush, Refuse, Accept, Store, StoreFails, Trim,
                              GiveUp, disk
<1>4. CASE \/ Say \/ Reply \/ Wake \/ SkipFlush \/ Quit
           \/ Clear \/ ForceSave \/ KillSwitch \/ FullDelete
      BY <1>4 DEF Say, Reply, AddMessage, Wake, SkipFlush, Quit, Clear, ForceSave, KillSwitch,
                  FullDelete, disk
<1>5. CASE Tell \/ Save \/ SoftReset \/ \E frozen \in BOOLEAN : SetFrozen(frozen)
      BY <1>1, <1>5 DEF Tell, Save, SoftReset, SetFrozen
<1>6. ASSUME NEW removed \in SUBSET {"json", "db"}, Wipe(removed)
      PROVE  db' \in Database /\ checkpoint' = checkpoint
      BY <1>1, <1>6 DEF Wipe
<1>7. CASE Exit \/ Crash
      BY <1>7 DEF Exit, Crash, Ends, disk
<1>8. CASE Start \/ StartWithoutEngine
      BY <1>1, <1>8 DEF Start, StartWithoutEngine, Initialised
<1>9. CASE BeginCheckpoint
      <2>1. db' = Connected
            BY <1>9 DEF BeginCheckpoint
      <2>2. checkpoint' = (db = "words")
            BY <1>9 DEF BeginCheckpoint
      <2>3. checkpoint' \in BOOLEAN
            BY <2>2
      <2>4. QED
            BY <1>2, <2>1, <2>3
<1>10. CASE FinishCheckpoint
      <2>1. db' \in {"words", Connected} /\ checkpoint' = FALSE
            BY <1>10 DEF FinishCheckpoint
      <2>2. QED
            BY <1>1, <1>2, <2>1
<1>11. CASE UNCHANGED vars
      BY <1>11 DEF vars, disk
<1>12. QED
      BY <1>3, <1>4, <1>5, <1>6, <1>7, <1>8, <1>9, <1>10, <1>11
         DEF Next, ChatStep, UserStep, Thread

LEMMA NextTyped == Typed /\ [Next]_vars => Typed'
<1> SUFFICES ASSUME Typed, [Next]_vars
             PROVE  Typed'
    OBVIOUS
<1>d. db' \in Database /\ checkpoint' \in BOOLEAN
      BY DatabaseTyped DEF Typed, TypeOK
<1> USE DEF Typed, TypeOK, SessionRuns, At, Goes, PC, Work, Message, Thread
<1>0. \A pc \in PC : Doing(pc) \in Local /\ Doing(pc).pc = pc
      BY Constants
<1>1. CASE Say \/ Reply
      <2>1. PICK pc \in {"lock", "tell"} : local' = [local EXCEPT !["chat"] = Doing(pc)]
            BY <1>1 DEF Say, Reply, AddMessage
      <2>2. local' \in [Thread -> Local] /\ local'["chat"].pc = pc
            BY <1>0, <2>1
      <2>3. said' = said + 1 /\ short_term' = Append(short_term, said + 1)
            BY <1>1 DEF Say, Reply, AddMessage
      <2>4. role' \in {"user", "assistant"}
            BY <1>1 DEF Say, Reply, AddMessage
      <2>5. UNCHANGED <<flush_lock, engine, disk, session, commands, history>>
            BY <1>1 DEF Say, Reply, AddMessage
      <2>6. QED
            BY <1>d, <2>2, <2>3, <2>4, <2>5 DEF disk, history
<1>2. CASE Wake \/ SkipFlush \/ Quit
      <2>1. local' \in [Thread -> Local]
            BY <1>0, <1>2 DEF Wake, SkipFlush, Quit
      <2>2. \/ local'["chat"].pc \in {local["chat"].pc, "exit"}
            \/ local["chat"].pc = "lock" /\ local'["chat"].pc = "tell"
            BY <1>0, <1>2 DEF Wake, SkipFlush, Quit
      <2>3. UNCHANGED <<short_term, flush_lock, said, role, engine, disk, session, commands,
                        history>>
            BY <1>2 DEF Wake, SkipFlush, Quit
      <2>4. QED
            BY <1>d, <2>1, <2>2, <2>3 DEF disk, history
<1>3. ASSUME NEW t \in Thread, FlushStep(t)
      PROVE  Typed'
      <2>1. Elements(short_term) \subseteq Message
            BY DEF Elements
      <2>2. Newest(short_term, Kept) \in Seq(Message)
            BY NewestIsASuffix, TerminalChatAssumption
      <2>3. AfterFlush(t) \in {"tell", "sleep"}
            BY DEF AfterFlush
      <2>4. CASE BeginFlush(t)
            <3> DEFINE begun == [Doing("summarise") EXCEPT !.read = Elements(short_term)]
            <3>0. <<>> \in Seq(Message)
                  OBVIOUS
            <3>1. begun \in Local /\ begun.pc = "summarise"
                  BY <2>1, <3>0 DEF Local, Doing
            <3> HIDE DEF begun
            <3>2. local' = [local EXCEPT ![t] = begun]
                  BY <2>4 DEF BeginFlush, begun
            <3>3. QED
                  BY <1>d, <2>4, <3>1, <3>2 DEF BeginFlush, disk, history
      <2>5. CASE Refuse(t) \/ StoreFails(t)
            <3>1. local' = [local EXCEPT ![t] = Doing(AfterFlush(t))]
                  BY <2>5 DEF Refuse, StoreFails, GiveUp
            <3>2. local' \in [Thread -> Local] /\ local'[t].pc = AfterFlush(t)
                  BY <1>0, <2>3, <3>1
            <3>3. QED
                  BY <1>d, <2>3, <2>5, <3>1, <3>2 DEF Refuse, StoreFails, GiveUp, disk
      <2>6. CASE Accept(t)
            <3> DEFINE accepted == [local[t] EXCEPT !.pc = "store"]
            <3>1. accepted \in Local /\ accepted.pc = "store"
                  BY DEF Local
            <3> HIDE DEF accepted
            <3>2. local' = [local EXCEPT ![t] = accepted]
                  BY <2>6 DEF Accept, accepted
            <3>3. QED
                  BY <1>d, <2>6, <3>1, <3>2 DEF Accept, disk, history
      <2>7. CASE Store(t)
            <3> DEFINE stored == [Doing("trim") EXCEPT !.kept = Newest(short_term, Kept)]
            <3>1. stored \in Local /\ stored.pc = "trim"
                  BY <2>2 DEF Local, Doing
            <3> HIDE DEF stored
            <3>2. local' = [local EXCEPT ![t] = stored]
                  BY <2>7 DEF Store, stored
            <3>3. QED
                  BY <1>d, <2>7, <3>1, <3>2 DEF Store, history
      <2>8. CASE Trim(t)
            <3>1. local[t].kept \in Seq(Message)
                  BY DEF Local
            <3>2. QED
                  BY <1>d, <1>0, <2>3, <2>8, <3>1 DEF Trim, disk
      <2>9. QED
            BY <1>d, <1>3, <2>4, <2>5, <2>6, <2>7, <2>8 DEF FlushStep
<1>4. CASE Tell
      <2>1. PICK pc \in {"reply", "save", "input"} :
                    /\ local' = [local EXCEPT !["chat"] = Doing(pc)]
                    /\ pc = "save" => engine.on
            BY <1>4 DEF Tell
      <2>2. local' \in [Thread -> Local] /\ local'["chat"].pc = pc
            BY <1>0, <2>1
      <2>3. QED
            BY <1>d, <1>4, <2>1, <2>2 DEF Tell, history
<1>5. CASE Save
      BY <1>d, <1>0, <1>5, SavesAreTyped DEF Save, Unsaved
<1>6. CASE Clear
      BY <1>d, <1>6 DEF Clear, Command, disk, history
<1>7. CASE ForceSave
      BY <1>d, <1>7, SavesAreTyped DEF ForceSave, Command, shared
<1>8. ASSUME NEW frozen \in BOOLEAN, SetFrozen(frozen)
      PROVE  Typed'
      <2>1. engine' \in Engine /\ engine'.on = engine.on
            BY <1>8 DEF SetFrozen, Engine
      <2>2. file' \in Saved /\ recorded' \in Seq(Message)
            <3>1. SaveState(engine', session, recorded)
                  BY <1>8 DEF SetFrozen
            <3>2. session \in Nat \ {0}
                  BY <1>8 DEF SetFrozen
            <3>3. QED
                  BY <2>1, <3>1, <3>2, SavesAreTyped
      <2>3. QED
            BY <1>d, <1>8, <2>1, <2>2 DEF SetFrozen, Command, shared
<1>9. CASE SoftReset
      <2>1. engine' \in Engine /\ engine'.on
            <3>1. NewTracker \in Tracker /\ session + 1 \in Nat
                  BY Constants
            <3>2. StartSession(NewTracker, session + 1) \in Tracker
                  BY <3>1, TrackersStayTrackers
            <3>3. QED
                  BY <1>d, <1>9, <3>2 DEF SoftReset, Engine
      <2>2. session' \in Nat \ {0}
            BY <1>9 DEF SoftReset
      <2>3. file' \in Saved /\ recorded' \in Seq(Message)
            <3>1. recorded' = Append(<<>>, session')
                  BY <1>9 DEF SoftReset, SaveState, Elements
            <3>2. file' = [is_frozen |-> engine'.is_frozen, temporal |-> engine'.temporal]
                  BY <1>9 DEF SoftReset, SaveState
            <3>3. QED
                  BY <1>d, <2>1, <2>2, <3>1, <3>2 DEF Engine, Saved
      <2>4. QED
            BY <1>d, <1>9, <2>1, <2>2, <2>3 DEF SoftReset, Command, shared
<1>10. CASE KillSwitch
      <2>1. engine' \in Engine /\ engine'.on = engine.on
            BY <1>10 DEF KillSwitch, Engine
      <2>2. file' \in Saved /\ recorded' \in Seq(Message)
            BY <1>10, <2>1, SavesAreTyped DEF KillSwitch, Unsaved
      <2>3. QED
            BY <1>d, <1>0, <1>10, <2>1, <2>2 DEF KillSwitch, Command
<1>11. CASE FullDelete
      <2>1. engine' \in Engine /\ engine'.on
            BY <1>11 DEF FullDelete, Engine
      <2>2. file' \in Saved /\ recorded' \in Seq(Message)
            <3>1. CASE SaveState(engine', session, recorded)
                  <4>1. session \in Nat \ {0}
                        BY <1>11 DEF FullDelete
                  <4>2. file' \in Saved
                        BY <2>1, <3>1 DEF SaveState, Engine, Saved
                  <4>3. recorded' \in Seq(Message)
                        <5>1. recorded' \in {recorded, Append(recorded, session)}
                              BY <3>1 DEF SaveState
                        <5>2. Append(recorded, session) \in Seq(Message)
                              BY <4>1
                        <5>3. QED
                              BY <5>1, <5>2
                  <4>4. QED
                        BY <4>2, <4>3
            <3>2. CASE Unsaved
                  BY <3>2 DEF Unsaved
            <3>3. QED
                  BY <1>d, <1>11, <3>1, <3>2 DEF FullDelete
      <2>3. QED
            BY <1>d, <1>0, <1>11, <2>1, <2>2 DEF FullDelete, Command
<1>12. ASSUME NEW removed \in SUBSET {"json", "db"}, Wipe(removed)
       PROVE  Typed'
      <2>1. file' \in Saved /\ recorded' \in Seq(Message)
            <3>1. NoFile \in Saved /\ <<>> \in Seq(Message)
                  BY Constants
            <3>2. QED
                  BY <1>d, <1>12, <3>1 DEF Wipe, Unsaved
      <2>2. local' \in [Thread -> Local] /\ local'["chat"].pc = "exit"
            BY <1>0, <1>12 DEF Wipe
      <2>3. QED
            BY <1>d, <1>12, <2>1, <2>2 DEF Wipe
<1>13. ASSUME Ends
       PROVE  /\ short_term' = <<>> /\ flush_lock' = "free" /\ refused' \in BOOLEAN
              /\ local' \in [Thread -> Local] /\ local'["chat"].pc = "off"
              /\ engine' \in Engine /\ ~engine'.on
      <2>1. engine' \in Engine /\ ~engine'.on
            BY <1>13, Constants DEF Ends, NoEngine
      <2>2. refused' \in BOOLEAN
            BY <1>13 DEF Ends
      <2>3. QED
            BY <1>d, <1>0, <1>13, <2>1, <2>2 DEF Ends
<1>14. CASE Exit
      <2>1. [engine EXCEPT !.temporal = FinalizeSession(engine.temporal)] \in Engine
            BY TrackersStayTrackers DEF Engine
      <2>2. file' \in Saved /\ recorded' \in Seq(Message)
            BY <1>14, <2>1, SavesAreTyped DEF Exit, Unsaved, MayExitSave
      <2>3. Ends
            BY <1>14 DEF Exit
      <2>4. UNCHANGED <<said, role, session, commands, wiped>>
            BY <1>14 DEF Exit
      <2>5. QED
            BY <1>d, <1>13, <2>2, <2>3, <2>4
<1>15. CASE Crash
      <2>1. Ends
            BY <1>15 DEF Crash
      <2>2. QED
            BY <1>d, <1>13, <1>15, <2>1 DEF Crash, disk
<1>16. CASE Start
      <2>1. StartSession(file.temporal, session + 1) \in Tracker
            <3>1. file.temporal \in Tracker /\ session + 1 \in Nat
                  BY DEF Saved
            <3>2. QED
                  BY <3>1, TrackersStayTrackers
      <2>2. engine' \in Engine /\ engine'.on
            BY <1>16, <2>1 DEF Start, Engine, Saved
      <2>3. QED
            BY <1>0, <1>d, <1>16, <2>2 DEF Start, Started, Initialised
<1>17. CASE StartWithoutEngine
      <2>1. /\ wiped' \subseteq {"json", "db"}
            /\ UNCHANGED <<short_term, flush_lock, said, role, engine, file, session, commands,
                           refused, recorded>>
            BY <1>17 DEF StartWithoutEngine, Initialised
      <2>2. QED
            BY <1>0, <1>d, <1>17, <2>1 DEF StartWithoutEngine, Started
<1>18. CASE BeginCheckpoint \/ FinishCheckpoint \/ UNCHANGED vars
      <2>1. UNCHANGED <<shared, said, role, engine, file, session, commands, history>>
            BY <1>18 DEF BeginCheckpoint, FinishCheckpoint, vars, disk
      <2>2. QED
            BY <1>d, <2>1 DEF shared, history
<1>19. QED
      BY <1>1, <1>2, <1>3, <1>4, <1>5, <1>6, <1>7, <1>8, <1>9, <1>10, <1>11, <1>12, <1>14,
         <1>15, <1>16, <1>17, <1>18 DEF Next, ChatStep, UserStep

\* The variables of the terminal chat keep their types, and a state is only
\* saved in a session that has a number.
THEOREM AlwaysTyped == Spec => []Typed
BY InitTyped, NextTyped, PTL DEF Spec

\* The type invariant of the runs.
THEOREM TypeCorrect == Spec => []TypeOK
BY AlwaysTyped, PTL DEF Typed

-----------------------------------------------------------------------------
(* The short-term list.  While the chat loop is not about to flush, there is
   room for one more message. *)

WindowInv ==
    /\ \A t \in Thread : Len(local[t].kept) <= Kept
    /\ \/ refused
       \/ Len(short_term) < ShortTermLimit
       \/ Len(short_term) = ShortTermLimit /\ local["chat"].pc \in Work

LEMMA InitWindow == Init => WindowInv
BY TerminalChatAssumption DEF Init, WindowInv, Doing

LEMMA NextWindow == Typed /\ WindowInv /\ [Next]_vars => WindowInv'
<1> SUFFICES ASSUME Typed, WindowInv, [Next]_vars
             PROVE  WindowInv'
    OBVIOUS
<1> USE TerminalChatAssumption DEF Typed, TypeOK, WindowInv, At, Goes, Thread
<1>0. \A pc \in PC : Doing(pc).pc = pc /\ Doing(pc).kept = <<>>
      BY Constants
<1>k. Len(<<>>) = 0
      OBVIOUS
<1>1. CASE Say \/ Reply
      <2>1. local["chat"].pc \notin Work
            BY <1>1 DEF Say, Reply, Work
      <2>2. /\ Len(short_term') = Len(short_term) + 1
            /\ local' = [local EXCEPT !["chat"] =
                             Doing(IF Len(short_term') >= ShortTermLimit THEN "lock" ELSE "tell")]
            BY <1>1 DEF Say, Reply, AddMessage, Full
      <2>3. /\ local'["timer"] = local["timer"]
            /\ Len(local'["chat"].kept) = 0
            /\ Len(short_term') >= ShortTermLimit => local'["chat"].pc = "lock"
            BY <1>0, <1>k, <2>2 DEF PC, Work
      <2>4. refused' = refused
            BY <1>1 DEF Say, Reply, history
      <2>5. QED
            BY <2>1, <2>2, <2>3, <2>4 DEF Work
<1>2. CASE Wake
      BY <1>0, <1>k, <1>2 DEF Wake, history, PC, Work
<1>3. CASE SkipFlush
      BY <1>0, <1>k, <1>3 DEF SkipFlush, Full, history, PC, Work
<1>4. ASSUME NEW t \in Thread, FlushStep(t)
      PROVE  WindowInv'
      <2>1. AfterFlush(t) \in PC
            BY DEF AfterFlush, PC
      <2>2. CASE BeginFlush(t)
            <3>1. local'[t].pc = "summarise" /\ local'[t].kept = <<>>
                  BY <2>2 DEF BeginFlush, Doing
            <3>2. \A u \in Thread : u # t => local'[u] = local[u]
                  BY <2>2 DEF BeginFlush
            <3>3. QED
                  BY <1>k, <2>2, <3>1, <3>2 DEF BeginFlush, history, Work
      <2>3. CASE Refuse(t) \/ StoreFails(t)
            <3>1. refused' = (refused \/ t = "chat") /\ short_term' = short_term
                  BY <2>3 DEF Refuse, StoreFails, GiveUp
            <3>2. local' = [local EXCEPT ![t] = Doing(AfterFlush(t))]
                  BY <2>3 DEF Refuse, StoreFails, GiveUp
            <3>3. \A u \in Thread : Len(local'[u].kept) <= Kept
                  BY <1>0, <1>k, <2>1, <3>2
            <3>4. CASE t = "chat"
                  BY <3>1, <3>3, <3>4
            <3>5. CASE t = "timer"
                  BY <3>1, <3>2, <3>3, <3>5
            <3>6. QED
                  BY <3>4, <3>5
      <2>4. CASE Accept(t)
            <3>1. local'[t].pc = "store" /\ local'[t].kept = local[t].kept
                  BY <2>4 DEF Accept, Local
            <3>2. \A u \in Thread : u # t => local'[u] = local[u]
                  BY <2>4 DEF Accept
            <3>3. QED
                  BY <2>4, <3>1, <3>2 DEF Accept, history, Work
      <2>5. CASE Store(t)
            <3>1. local'[t].pc = "trim" /\ local'[t].kept = Newest(short_term, Kept)
                  BY <2>5 DEF Store, Doing
            <3>2. \A u \in Thread : u # t => local'[u] = local[u]
                  BY <2>5 DEF Store
            <3>3. Len(local'[t].kept) <= Kept
                  BY <3>1, NewestIsASuffix
            <3>4. QED
                  BY <2>5, <3>1, <3>2, <3>3 DEF Store, history, Work
      <2>6. CASE Trim(t)
            <3>1. Len(short_term') <= Kept /\ Len(short_term') \in Nat
                  BY <2>6 DEF Trim, Local
            <3>2. \A u \in Thread : Len(local'[u].kept) <= Kept
                  BY <1>0, <1>k, <2>1, <2>6 DEF Trim
            <3>3. QED
                  BY <3>1, <3>2
      <2>7. QED
            BY <1>4, <2>2, <2>3, <2>4, <2>5, <2>6 DEF FlushStep
<1>5. CASE Tell
      <2>1. local["chat"].pc \notin Work
            BY <1>5 DEF Tell, Work
      <2>2. PICK pc \in PC : local' = [local EXCEPT !["chat"] = Doing(pc)]
            BY <1>5 DEF Tell, PC
      <2>3. \A u \in Thread : Len(local'[u].kept) <= Kept
            BY <1>0, <1>k, <2>2
      <2>4. QED
            BY <1>5, <2>1, <2>3 DEF Tell, history
<1>6. CASE Save
      BY <1>0, <1>k, <1>6 DEF Save, PC, Work
<1>7. CASE Clear \/ ForceSave \/ SoftReset
      BY <1>k, <1>7 DEF Clear, ForceSave, SoftReset, shared, history
<1>8. ASSUME NEW frozen \in BOOLEAN, SetFrozen(frozen)
      PROVE  WindowInv'
      BY <1>8 DEF SetFrozen, shared
<1>9. CASE KillSwitch
      BY <1>0, <1>k, <1>9 DEF KillSwitch, PC
<1>10. CASE FullDelete \/ Quit
      <2>1. PICK pc \in PC : local' = [local EXCEPT !["chat"] = Doing(pc)]
            BY <1>10 DEF FullDelete, Quit, PC
      <2>2. \A u \in Thread : Len(local'[u].kept) <= Kept
            BY <1>0, <1>k, <2>1
      <2>3. local["chat"].pc \notin Work /\ UNCHANGED <<short_term, refused>>
            BY <1>10 DEF FullDelete, Quit, Command, history, Work
      <2>4. QED
            BY <2>2, <2>3
<1>11. ASSUME NEW removed \in SUBSET {"json", "db"}, Wipe(removed)
       PROVE  WindowInv'
      BY <1>0, <1>k, <1>11 DEF Wipe, PC, Work
<1>12. CASE Exit \/ Crash
      <2>1. Ends
            BY <1>12 DEF Exit, Crash
      <2>2. QED
            BY <1>0, <1>k, <2>1 DEF Ends, PC
<1>13. CASE Start \/ StartWithoutEngine
      BY <1>0, <1>k, <1>13 DEF Start, StartWithoutEngine, Started, history, PC, Work
<1>14. CASE BeginCheckpoint \/ FinishCheckpoint \/ UNCHANGED vars
      BY <1>14 DEF BeginCheckpoint, FinishCheckpoint, vars, shared, history
<1>15. QED
      BY <1>1, <1>2, <1>3, <1>4, <1>5, <1>6, <1>7, <1>8, <1>9, <1>10, <1>11, <1>12, <1>13,
         <1>14 DEF Next, ChatStep, UserStep

\* memory_manager.py:81-84.  The short-term list is longer than its limit only
\* while the chat loop's last flush stored nothing.
THEOREM WindowStaysBounded == Spec => []WindowIsBounded
<1>1. WindowInv /\ TypeOK => WindowIsBounded
      BY TerminalChatAssumption DEF WindowInv, WindowIsBounded, TypeOK
<1>2. QED
      BY InitWindow, NextWindow, AlwaysTyped, TypeCorrect, <1>1, PTL DEF Spec

-----------------------------------------------------------------------------
(* Deleted files.  Once a file is removed, either there is no engine any more, or
   the engine knows and the chat loop is on its way out.  Only an engine that is
   made, or reset, gives a database its tables. *)

DeletedInv ==
    /\ DeletedStaysDeleted
    /\ At("chat", "wipe") => engine.data_deleted
    /\ wiped # {} => ~engine.on \/ (engine.data_deleted /\ At("chat", "exit"))

LEMMA InitDeleted == Init => DeletedInv
<1> SUFFICES ASSUME Init
             PROVE  DeletedInv
    OBVIOUS
<1>1. wiped = {} /\ local["chat"].pc = "off"
      BY Constants DEF Init, Doing, Thread
<1>2. QED
      BY <1>1 DEF DeletedInv, DeletedStaysDeleted, At

LEMMA NextDeleted == Typed /\ DeletedInv /\ [Next]_vars => DeletedInv'
<1> SUFFICES ASSUME Typed, DeletedInv, [Next]_vars
             PROVE  DeletedInv'
    OBVIOUS
<1> USE DEF Typed, TypeOK, DeletedInv, DeletedStaysDeleted, At, Goes, Thread
<1>0. \A pc \in PC : Doing(pc).pc = pc
      BY Constants
<1>c. ~HasTables => Connected \in {"none", "empty"}
      BY DEF HasTables, Connected, Database
<1>e. ASSUME db' \in {db, Connected} \/ (HasTables /\ db' = "words")
      PROVE  "db" \in wiped => ~HasTables'
      BY <1>c, <1>e DEF HasTables, Connected
<1>1. ASSUME UNCHANGED <<file, wiped, engine>>,
             db' \in {db, Connected} \/ (HasTables /\ db' = "words"),
             local'["chat"].pc # "wipe",
             local["chat"].pc = "exit" => local'["chat"].pc = "exit"
      PROVE  DeletedInv'
      BY <1>1, <1>e
<1>2. CASE Say \/ Reply
      <2>1. PICK pc \in {"lock", "tell"} : local' = [local EXCEPT !["chat"] = Doing(pc)]
            BY <1>2 DEF Say, Reply, AddMessage
      <2>2. local["chat"].pc # "exit" /\ local'["chat"].pc = pc
            BY <1>0, <1>2, <2>1 DEF Say, Reply, PC, Work
      <2>3. QED
            BY <1>1, <1>2, <2>2 DEF Say, Reply, disk, history
<1>3. CASE Wake \/ SkipFlush \/ Quit
      <2>1. UNCHANGED <<file, db, wiped, engine>>
            BY <1>3 DEF Wake, SkipFlush, Quit, disk, history
      <2>2. \/ local'["chat"] = local["chat"]
            \/ local["chat"].pc # "exit" /\ local'["chat"].pc \in {"tell", "exit"}
            BY <1>0, <1>3 DEF Wake, SkipFlush, Quit, PC, Work
      <2>3. QED
            BY <1>1, <2>1, <2>2
<1>4. ASSUME NEW t \in Thread, FlushStep(t)
      PROVE  DeletedInv'
      <2>1. UNCHANGED <<file, wiped, engine>>
            BY <1>4 DEF FlushStep, BeginFlush, Refuse, Accept, Store, StoreFails, Trim, GiveUp,
                        disk, history
      <2>2. db' \in {db, Connected} \/ (HasTables /\ db' = "words")
            BY <1>4 DEF FlushStep, BeginFlush, Refuse, Accept, Store, StoreFails, Trim, GiveUp,
                        disk
      <2>3. \/ local'["chat"] = local["chat"]
            \/ local["chat"].pc # "exit" /\ local'["chat"].pc # "wipe"
            <3>1. CASE t = "timer"
                  <4>1. local'["chat"] = local["chat"]
                        BY <1>4, <3>1 DEF FlushStep, BeginFlush, Refuse, Accept, Store,
                                          StoreFails, Trim, GiveUp
                  <4>2. QED
                        BY <4>1
            <3>2. CASE t = "chat"
                  <4>1. local["chat"].pc \in Work
                        BY <1>4, <3>2 DEF FlushStep, BeginFlush, Refuse, Accept, Store,
                                          StoreFails, Trim, Work
                  <4>2. CASE BeginFlush(t) \/ Accept(t) \/ Store(t)
                        <5>1. local'["chat"].pc \in Work
                              <6>1. CASE BeginFlush(t)
                                    BY <3>2, <6>1 DEF BeginFlush, Doing, Work
                              <6>2. CASE Accept(t)
                                    BY <3>2, <6>2 DEF Accept, Local, Work
                              <6>3. CASE Store(t)
                                    BY <3>2, <6>3 DEF Store, Doing, Work
                              <6>4. QED
                                    BY <4>2, <6>1, <6>2, <6>3
                        <5>2. QED
                              BY <4>1, <5>1 DEF Work
                  <4>3. CASE Refuse(t) \/ StoreFails(t) \/ Trim(t)
                        <5>1. local' = [local EXCEPT !["chat"] = Doing("tell")]
                              BY <3>2, <4>3 DEF Refuse, StoreFails, Trim, GiveUp, AfterFlush
                        <5>2. QED
                              BY <1>0, <4>1, <5>1 DEF Work, PC
                  <4>4. QED
                        BY <1>4, <4>2, <4>3 DEF FlushStep
            <3>3. QED
                  BY <3>1, <3>2
      <2>4. QED
            BY <1>1, <2>1, <2>2, <2>3
<1>5. CASE Tell
      <2>1. UNCHANGED <<file, wiped, engine>> /\ (engine.on \/ db' = db)
            BY <1>5 DEF Tell, history
      <2>2. PICK pc \in {"reply", "save", "input"} :
                    local' = [local EXCEPT !["chat"] = Doing(pc)]
            BY <1>5 DEF Tell
      <2>3. local["chat"].pc = "tell" /\ local'["chat"].pc = pc
            BY <1>0, <1>5, <2>2 DEF Tell, PC
      <2>4. CASE engine.on
            <3>1. wiped = {}
                  BY <2>3, <2>4
            <3>2. QED
                  BY <2>1, <2>3, <3>1
      <2>5. CASE ~engine.on
            BY <1>1, <2>1, <2>3, <2>5
      <2>6. QED
            BY <2>4, <2>5
<1>6. CASE Save
      <2>1. wiped = {} /\ wiped' = {}
            BY <1>6 DEF Save
      <2>2. local'["chat"].pc = "input"
            BY <1>0, <1>6 DEF Save, PC
      <2>3. QED
            BY <2>1, <2>2
<1>7. CASE Clear
      BY <1>1, <1>7 DEF Clear, Command, disk, history
<1>8. ASSUME ForceSave \/ SoftReset \/ FullDelete \/ \E frozen \in BOOLEAN : SetFrozen(frozen)
      PROVE  DeletedInv'
      <2>1. wiped = {} /\ wiped' = {}
            BY <1>8 DEF ForceSave, SoftReset, FullDelete, SetFrozen, Command
      <2>2. CASE FullDelete
            BY <2>1, <2>2 DEF FullDelete, Engine
      <2>3. CASE ~FullDelete
            <3>1. local' = local /\ local["chat"].pc = "input"
                  BY <1>8, <2>3 DEF ForceSave, SoftReset, SetFrozen, Command, shared
            <3>2. QED
                  BY <2>1, <3>1
      <2>4. QED
            BY <2>2, <2>3
<1>9. CASE KillSwitch
      <2>1. local["chat"].pc = "input" /\ local'["chat"].pc = "exit"
            BY <1>0, <1>9 DEF KillSwitch, Command, PC
      <2>2. CASE engine.on
            BY <1>9, <2>1, <2>2 DEF KillSwitch
      <2>3. CASE ~engine.on
            BY <1>1, <1>9, <2>1, <2>3 DEF KillSwitch
      <2>4. QED
            BY <2>2, <2>3
<1>10. ASSUME NEW removed \in SUBSET {"json", "db"}, Wipe(removed)
       PROVE  DeletedInv'
      <2>1. local["chat"].pc = "wipe" /\ local'["chat"].pc = "exit" /\ engine' = engine
            BY <1>0, <1>10 DEF Wipe, PC
      <2>2. wiped' = removed
            BY <1>10 DEF Wipe
      <2>3. "json" \in removed => file' = NoFile
            BY <1>10 DEF Wipe
      <2>4. "db" \in removed => ~HasTables'
            BY <1>10 DEF Wipe, HasTables
      <2>5. QED
            BY <2>1, <2>2, <2>3, <2>4
<1>11. CASE Exit
      <2>1. ~engine'.on /\ local'["chat"].pc = "off"
            BY <1>0, <1>11 DEF Exit, Ends, NoEngine, PC
      <2>2. UNCHANGED <<db, wiped>>
            BY <1>11 DEF Exit
      <2>3. wiped # {} => file' = file
            BY <1>11 DEF Exit, MayExitSave, Unsaved
      <2>4. QED
            BY <1>e, <2>1, <2>2, <2>3
<1>12. CASE Crash
      <2>1. ~engine'.on /\ local'["chat"].pc = "off"
            BY <1>0, <1>12 DEF Crash, Ends, NoEngine, PC
      <2>2. QED
            BY <1>e, <1>12, <2>1 DEF Crash, disk
<1>13. CASE Start
      <2>1. wiped' = {} /\ local'["chat"].pc = "input"
            BY <1>0, <1>13 DEF Start, Started, Initialised, PC
      <2>2. QED
            BY <2>1
<1>14. CASE StartWithoutEngine
      <2>1. local["chat"].pc = "off" /\ local'["chat"].pc = "input"
            BY <1>0, <1>14 DEF StartWithoutEngine, Started, PC
      <2>2. UNCHANGED <<file, engine>> /\ (wiped' = {} \/ UNCHANGED <<db, wiped>>)
            BY <1>14 DEF StartWithoutEngine, Initialised
      <2>3. QED
            BY <1>1, <2>1, <2>2
<1>15. CASE BeginCheckpoint \/ FinishCheckpoint \/ UNCHANGED vars
      <2>1. UNCHANGED <<local, file, wiped, engine>>
            BY <1>15 DEF BeginCheckpoint, FinishCheckpoint, vars, shared, disk, history
      <2>2. db' \in {db, Connected} \/ (HasTables /\ db' = "words")
            BY <1>15 DEF BeginCheckpoint, FinishCheckpoint, vars, disk
      <2>3. QED
            BY <1>e, <2>1, <2>2
<1>16. QED
      BY <1>2, <1>3, <1>4, <1>5, <1>6, <1>7, <1>8, <1>9, <1>10, <1>11, <1>12, <1>13, <1>14,
         <1>15 DEF Next, ChatStep, UserStep

\* chat.py:445-450.  No save, flush or checkpoint that was on its way brings back
\* what /delete removed (an empty database apart), until a new engine is made.
THEOREM DeletionIsFinal == Spec => []DeletedStaysDeleted
<1>1. DeletedInv => DeletedStaysDeleted
      BY DEF DeletedInv
<1>2. QED
      BY InitDeleted, NextDeleted, AlwaysTyped, <1>1, PTL DEF Spec

-----------------------------------------------------------------------------
(* The session log.  The file tells the sessions it was saved in up to now, and
   the engine those it will have been saved in once it is saved again. *)

\* Cutting a log twice is cutting it once.
LEMMA NewestOfNewest ==
    ASSUME NEW S, NEW s \in Seq(S), NEW n \in Nat \ {0}
    PROVE  Newest(Newest(s, n + 1), n) = Newest(s, n)
<1>1. CASE Len(s) <= n + 1
      BY <1>1 DEF Newest
<1>2. CASE ~(Len(s) <= n + 1)
      <2> DEFINE a == Len(s) - n
                 longer == SubSeq(s, a, Len(s))
      <2>1. a \in 2 .. Len(s) /\ Len(s) \in Nat /\ Len(s) - (n + 1) + 1 = a
            BY <1>2
      <2>2. \A i \in a .. Len(s) : s[i] \in S
            BY <2>1
      <2>3. longer \in Seq(S) /\ Len(longer) = n + 1
            BY <2>1, <2>2
      <2>4. Newest(s, n + 1) = longer
            BY <1>2, <2>1 DEF Newest
      <2>5. SubSeq(longer, 2, n + 1) = SubSeq(s, a + 1, Len(s))
            <3>1. 2 \in 1 .. Len(s) - a + 1 /\ n + 1 \in 1 .. Len(s) - a + 1
                  BY <1>2, <2>1
            <3>2. /\ Len(s) \in 1 .. Len(s) /\ a \in 1 .. Len(s)
                  /\ a + 2 - 1 = a + 1 /\ a + (n + 1) - 1 = Len(s)
                  BY <1>2, <2>1
            <3> HIDE DEF a
            <3>3. QED
                  BY <3>1, <3>2, SubSeqOfSubSeq
      <2> HIDE DEF longer
      <2>6. Newest(longer, n) = SubSeq(longer, 2, n + 1)
            BY <2>3 DEF Newest
      <2>7. Newest(s, n) = SubSeq(s, a + 1, Len(s))
            BY <1>2, <2>1 DEF Newest
      <2>8. QED
            BY <2>4, <2>5, <2>6, <2>7
<1>3. QED
      BY <1>1, <1>2

\* One session more in a log that is one longer.
LEMMA NewestAppend ==
    ASSUME NEW S, NEW s \in Seq(S), NEW n \in Nat \ {0}, NEW x \in S
    PROVE  Append(Newest(s, n), x) = Newest(Append(s, x), n + 1)
<1>1. Len(Append(s, x)) = Len(s) + 1 /\ Append(s, x) \in Seq(S) /\ Len(s) \in Nat
      OBVIOUS
<1>2. CASE Len(s) <= n
      BY <1>1, <1>2 DEF Newest
<1>3. CASE ~(Len(s) <= n)
      <2> DEFINE a == Len(s) - n + 1
                 left == Append(SubSeq(s, a, Len(s)), x)
                 longer == Append(s, x)
                 right == SubSeq(longer, a, Len(s) + 1)
      <2>1. a \in 2 .. Len(s) /\ Len(s) + 1 - (n + 1) + 1 = a
            BY <1>1, <1>3
      <2>2. /\ \A i \in a .. Len(s) : s[i] \in S
            /\ longer \in Seq(S) /\ Len(longer) = Len(s) + 1
            /\ \A i \in a .. Len(s) + 1 : longer[i] \in S
            BY <1>1, <2>1
      <2>3. /\ SubSeq(s, a, Len(s)) \in Seq(S)
            /\ Len(SubSeq(s, a, Len(s))) = n
            /\ \A i \in 1 .. n : SubSeq(s, a, Len(s))[i] = s[a + i - 1]
            BY <1>1, <1>3, <2>1, <2>2
      <2>4. /\ left \in Seq(S) /\ Len(left) = n + 1
            /\ \A i \in 1 .. n + 1 : left[i] = IF i = n + 1 THEN x ELSE s[a + i - 1]
            BY <2>3
      <2>5. /\ right \in Seq(S) /\ Len(right) = n + 1
            /\ \A i \in 1 .. n + 1 : right[i] = longer[a + i - 1]
            <3> HIDE DEF longer
            <3>1. a \in Int /\ Len(s) + 1 \in Int /\ a <= Len(s) + 1 /\ Len(s) + 1 - a + 1 = n + 1
                  BY <1>1, <1>3
            <3>2. QED
                  BY <2>2, <3>1, SubSeqProperties
      <2>6. \A i \in 1 .. n + 1 : longer[a + i - 1] = IF i = n + 1 THEN x ELSE s[a + i - 1]
            BY <1>1, <1>3
      <2>7. Newest(s, n) = SubSeq(s, a, Len(s))
            BY <1>1, <1>3 DEF Newest
      <2> HIDE DEF left, right, longer
      <2>8. left = right
            BY <2>4, <2>5, <2>6, SeqEqual
      <2>9. Newest(longer, n + 1) = right
            <3>1. ~(Len(longer) <= n + 1) /\ Len(longer) - (n + 1) + 1 = a
                  BY <1>1, <1>3, <2>1, <2>2
            <3>2. QED
                  BY <2>2, <3>1 DEF Newest, right
      <2>10. QED
            BY <2>7, <2>8, <2>9 DEF left, longer
<1>4. QED
      BY <1>2, <1>3

\* The sessions the file will have been saved in once session s has saved it.
WithSession(s, earlier) == IF s \in Elements(earlier) THEN earlier ELSE Append(earlier, s)

\* What a tracker tells, its open session included.
Tells(tracker, sessions) ==
    IF tracker.current_session = NoSession
    THEN tracker.session_log = Newest(sessions, MaxSessionLog)
    ELSE Append(tracker.session_log, tracker.current_session) =
             Newest(sessions, MaxSessionLog + 1)

\* An engine whose files are deleted saves no more.
LogInv ==
    /\ Tells(file.temporal, recorded)
    /\ \A s \in Elements(recorded) : s <= session
    /\ engine.on => /\ engine.temporal.current_session = session
                    /\ engine.data_deleted \/ Tells(engine.temporal, WithSession(session, recorded))
    /\ engine.on /\ engine.data_deleted => local["chat"].pc \in {"wipe", "exit"}

\* Closing what is open, by an exit or by the start after a crash, tells the same.
LEMMA ClosedTells ==
    ASSUME NEW tracker \in Tracker, NEW sessions \in Seq(Message), Tells(tracker, sessions)
    PROVE  Closed(tracker) = Newest(sessions, MaxSessionLog)
BY NewestOfNewest, SessionsAssumption DEF Tells, Closed, Message

\* A session that starts comes after all that were saved.
LEMMA StartTells ==
    ASSUME NEW tracker \in Tracker, NEW sessions \in Seq(Message), Tells(tracker, sessions),
           NEW s \in Message, s \notin Elements(sessions)
    PROVE  Tells(StartSession(tracker, s), WithSession(s, sessions))
<1>1. Closed(tracker) = Newest(sessions, MaxSessionLog)
      BY ClosedTells
<1>2. Append(Newest(sessions, MaxSessionLog), s) = Newest(Append(sessions, s), MaxSessionLog + 1)
      BY NewestAppend, SessionsAssumption
<1>3. /\ StartSession(tracker, s).session_log = Closed(tracker)
      /\ StartSession(tracker, s).current_session = s
      /\ s # NoSession
      BY DEF StartSession, Message, NoSession
<1>4. WithSession(s, sessions) = Append(sessions, s)
      BY DEF WithSession
<1>5. QED
      BY <1>1, <1>2, <1>3, <1>4 DEF Tells

LEMMA SessionIsRecorded ==
    ASSUME NEW s \in Message, NEW earlier \in Seq(Message)
    PROVE  /\ WithSession(s, earlier) \in Seq(Message)
           /\ Elements(WithSession(s, earlier)) = Elements(earlier) \cup {s}
           /\ WithSession(s, WithSession(s, earlier)) = WithSession(s, earlier)
<1>1. Elements(Append(earlier, s)) = Elements(earlier) \cup {s}
      <2>1. /\ DOMAIN Append(earlier, s) = 1 .. Len(earlier) + 1
            /\ DOMAIN earlier = 1 .. Len(earlier) /\ Len(earlier) \in Nat
            /\ Append(earlier, s)[Len(earlier) + 1] = s
            /\ \A i \in 1 .. Len(earlier) : Append(earlier, s)[i] = earlier[i]
            OBVIOUS
      <2>2. QED
            BY <2>1 DEF Elements
<1>2. QED
      BY <1>1 DEF WithSession

LEMMA InitLog == Init => LogInv
<1> SUFFICES ASSUME Init
             PROVE  LogInv
    OBVIOUS
<1>1. file.temporal = NewTracker /\ ~engine.on /\ recorded = <<>>
      BY DEF Init, NoFile, NoEngine
<1>2. Newest(<<>>, MaxSessionLog) = <<>>
      BY SessionsAssumption DEF Newest
<1>3. QED
      BY <1>1, <1>2 DEF LogInv, Tells, NewTracker, NoSession, Elements

\* A save of the engine as it is, unless its files are deleted.
LEMMA SaveTells ==
    ASSUME Typed, LogInv, NEW e \in Engine, engine.on, ~engine.data_deleted,
           e.temporal = engine.temporal, SaveState(e, session, recorded)
    PROVE  /\ Tells(file'.temporal, recorded')
           /\ recorded' = WithSession(session, recorded)
           /\ recorded' \in Seq(Message)
           /\ \A s \in Elements(recorded') : s <= session
           /\ WithSession(session, recorded') = recorded'
<1>1. recorded' = WithSession(session, recorded) /\ file'.temporal = engine.temporal
      BY DEF SaveState, WithSession
<1>2. session \in Message /\ recorded \in Seq(Message)
      BY DEF Typed, TypeOK, SessionRuns, Message
<1>3. QED
      BY <1>1, <1>2, SessionIsRecorded DEF LogInv, Message

LEMMA NextLog == Typed /\ DeletedInv /\ LogInv /\ [Next]_vars => LogInv'
<1> SUFFICES ASSUME Typed, DeletedInv, LogInv, [Next]_vars
             PROVE  LogInv'
    OBVIOUS
<1>t. /\ engine \in Engine /\ file \in Saved /\ recorded \in Seq(Message) /\ session \in Nat
      /\ local \in [Thread -> Local]
      /\ engine.on => session \in Message
      BY DEF Typed, TypeOK, SessionRuns, Message
<1>0. \A pc \in PC : Doing(pc).pc = pc
      BY Constants
\* What neither saves nor touches the engine, and does not talk after a deletion.
<1>1. ASSUME UNCHANGED <<file, recorded, engine, session>>,
             local["chat"].pc \in {"wipe", "exit"} => local'["chat"].pc \in {"wipe", "exit"}
      PROVE  LogInv'
      BY <1>1 DEF LogInv
\* What saves the engine of a session that goes on, or tries to.
<1>2. ASSUME NEW e \in Engine, engine.on, local["chat"].pc \notin {"wipe", "exit"},
             SaveState(e, session, recorded) \/ Unsaved, e.temporal = engine.temporal,
             engine' \in {engine, e}, session' = session, e.on,
             e.data_deleted => local'["chat"].pc \in {"wipe", "exit"}
      PROVE  LogInv'
      <2>1. ~engine.data_deleted
            BY <1>2 DEF LogInv
      <2>2. CASE SaveState(e, session, recorded)
            BY <1>2, <2>1, <2>2, SaveTells DEF LogInv
      <2>3. CASE Unsaved
            BY <1>2, <2>1, <2>3 DEF LogInv, Unsaved
      <2>4. QED
            BY <1>2, <2>2, <2>3
<1>3. CASE Say \/ Reply \/ Tell
      <2>1. UNCHANGED <<file, recorded, engine, session>>
            BY <1>3 DEF Say, Reply, Tell, disk, history
      <2>2. local["chat"].pc \notin {"wipe", "exit"}
            BY <1>3 DEF Say, Reply, Tell, At
      <2>3. QED
            BY <1>1, <2>1, <2>2
<1>4. CASE Wake \/ SkipFlush \/ Quit \/ Clear \/ StartWithoutEngine
      <2>1. UNCHANGED <<file, recorded, engine, session>>
            BY <1>4 DEF Wake, SkipFlush, Quit, Clear, StartWithoutEngine, disk, history
      <2>2. local["chat"].pc \notin {"wipe", "exit"} \/ local'["chat"] = local["chat"]
            BY <1>t, <1>4
               DEF Wake, SkipFlush, Quit, Clear, Command, StartWithoutEngine, Started, At, Goes,
                   Thread
      <2>3. QED
            BY <1>1, <2>1, <2>2
<1>5. ASSUME NEW t \in Thread, FlushStep(t)
      PROVE  LogInv'
      <2>1. UNCHANGED <<file, recorded, engine, session>>
            BY <1>5 DEF FlushStep, BeginFlush, Refuse, Accept, Store, StoreFails, Trim, GiveUp,
                        disk, history
      <2>2. local["chat"].pc \notin {"wipe", "exit"} \/ local'["chat"] = local["chat"]
            <3>1. CASE t = "timer"
                  <4>1. local'["chat"] = local["chat"]
                        BY <1>t, <1>5, <3>1
                           DEF FlushStep, BeginFlush, Refuse, Accept, Store, StoreFails, Trim,
                               GiveUp, Goes, Thread
                  <4>2. QED
                        BY <4>1
            <3>2. CASE t = "chat"
                  BY <1>5, <3>2 DEF FlushStep, BeginFlush, Refuse, Accept, Store, StoreFails,
                                    Trim, At
            <3>3. QED
                  BY <3>1, <3>2 DEF Thread
      <2>3. QED
            BY <1>1, <2>1, <2>2
<1>6. CASE Save \/ ForceSave
      <2>1. /\ engine.on /\ local["chat"].pc \notin {"wipe", "exit"}
            /\ SaveState(engine, session, recorded) \/ Unsaved
            /\ UNCHANGED <<engine, session>>
            BY <1>6 DEF Save, ForceSave, Command, At, Typed
      <2>2. ~engine.data_deleted
            BY <2>1 DEF LogInv
      <2>3. QED
            BY <1>2, <1>t, <2>1, <2>2
<1>7. ASSUME NEW frozen \in BOOLEAN, SetFrozen(frozen)
      PROVE  LogInv'
      <2>1. /\ engine.on /\ local["chat"].pc \notin {"wipe", "exit"}
            /\ SaveState(engine', session, recorded)
            /\ session' = session
            /\ engine' = [engine EXCEPT !.is_frozen = frozen]
            BY <1>7 DEF SetFrozen, Command, At
      <2>2. /\ engine' \in Engine /\ engine'.temporal = engine.temporal
            /\ engine'.on /\ engine'.data_deleted = engine.data_deleted
            BY <1>t, <2>1 DEF Engine
      <2>3. ~engine.data_deleted
            BY <2>1 DEF LogInv
      <2>4. QED
            BY <1>2, <2>1, <2>2, <2>3
<1>8. CASE KillSwitch
      <2>0. local["chat"].pc = "input" /\ local'["chat"].pc = "exit"
            BY <1>0, <1>t, <1>8 DEF KillSwitch, Command, At, Goes, PC, Thread
      <2>1. CASE engine.on
            <3>1. /\ SaveState(engine', session, recorded) \/ Unsaved
                  /\ session' = session
                  /\ engine' = [engine EXCEPT !.is_frozen = TRUE]
                  BY <1>8, <2>1 DEF KillSwitch
            <3>2. /\ engine' \in Engine /\ engine'.temporal = engine.temporal
                  /\ engine'.on
                  BY <1>t, <2>1, <3>1 DEF Engine
            <3>3. QED
                  BY <1>2, <2>0, <2>1, <3>1, <3>2
      <2>2. CASE ~engine.on
            BY <1>1, <1>8, <2>0, <2>2 DEF KillSwitch
      <2>3. QED
            BY <2>1, <2>2
<1>9. CASE FullDelete
      <2>1. /\ engine.on /\ local["chat"].pc = "input" /\ local'["chat"].pc = "wipe"
            /\ SaveState(engine', session, recorded) \/ Unsaved
            /\ session' = session
            /\ engine' = [engine EXCEPT !.is_frozen = TRUE, !.data_deleted = TRUE]
            BY <1>0, <1>t, <1>9 DEF FullDelete, Command, At, Goes, PC, Thread
      <2>2. /\ engine' \in Engine /\ engine'.temporal = engine.temporal /\ engine'.on
            BY <1>t, <2>1 DEF Engine
      <2>3. QED
            BY <1>2, <2>1, <2>2
<1>10. CASE SoftReset
      <2> DEFINE s == session + 1
      <2>1. /\ engine.on /\ session' = s /\ s \in Message /\ s # NoSession
            /\ engine' = [engine EXCEPT !.is_frozen = FALSE,
                                        !.temporal = StartSession(NewTracker, s)]
            /\ recorded' = <<s>> /\ file'.temporal = engine'.temporal
            /\ local["chat"].pc = "input"
            BY <1>t, <1>10 DEF SoftReset, Command, At, SaveState, Elements, Message, NoSession
      <2>2. engine'.temporal = [session_log |-> <<>>, current_session |-> s]
            BY <1>t, <2>1 DEF Engine, StartSession, Closed, NewTracker
      <2>3. Newest(<<s>>, MaxSessionLog + 1) = <<s>>
            BY SessionsAssumption DEF Newest
      <2>4. ~engine'.data_deleted
            BY <1>t, <2>1 DEF Engine, LogInv
      <2>5. Tells(engine'.temporal, <<s>>)
            <3>1. /\ engine'.temporal.session_log = <<>>
                  /\ engine'.temporal.current_session = s
                  BY <2>2
            <3> HIDE DEF s
            <3>2. Append(<<>>, s) = <<s>>
                  OBVIOUS
            <3>3. QED
                  BY <2>1, <2>3, <3>1, <3>2 DEF Tells
      <2>6. Elements(<<s>>) = {s}
            BY DEF Elements
      <2>7. WithSession(s, <<s>>) = <<s>>
            BY <2>6 DEF WithSession
      <2> HIDE DEF s
      <2>8. s <= s
            BY <2>1 DEF Message
      <2>9. QED
            BY <2>1, <2>2, <2>4, <2>5, <2>6, <2>7, <2>8 DEF LogInv
<1>11. ASSUME NEW removed \in SUBSET {"json", "db"}, Wipe(removed)
       PROVE  LogInv'
      <2>1. local["chat"].pc = "wipe" /\ local'["chat"].pc = "exit"
            BY <1>0, <1>t, <1>11 DEF Wipe, At, Goes, PC, Thread
      <2>2. CASE "json" \notin removed
            BY <1>1, <1>11, <2>1, <2>2 DEF Wipe, Unsaved
      <2>3. CASE "json" \in removed
            <3>1. file' = NoFile /\ recorded' = <<>> /\ UNCHANGED <<engine, session>>
                  BY <1>11, <2>3 DEF Wipe
            <3>2. Newest(<<>>, MaxSessionLog) = <<>>
                  BY SessionsAssumption DEF Newest
            <3>3. Tells(NoFile.temporal, <<>>)
                  BY <3>2 DEF Tells, NoFile, NewTracker, NoSession
            <3>4. engine.data_deleted
                  BY <2>1 DEF DeletedInv, At
            <3>5. QED
                  BY <2>1, <3>1, <3>3, <3>4 DEF LogInv, Elements
      <2>4. QED
            BY <2>2, <2>3
<1>12. CASE Exit
      <2>0. ~engine'.on
            BY <1>12 DEF Exit, Ends, NoEngine
      <2>1. CASE Unsaved
            BY <1>12, <2>0, <2>1 DEF Exit, Unsaved, LogInv
      <2>2. CASE ~Unsaved
            <3> DEFINE closed == FinalizeSession(engine.temporal)
            <3>1. /\ engine.on /\ ~engine.data_deleted /\ session' = session
                  /\ file'.temporal = closed
                  /\ recorded' = WithSession(session, recorded)
                  BY <1>t, <1>12, <2>2 DEF Exit, MayExitSave, SaveState, WithSession, Engine
            <3>2. /\ closed.session_log = Closed(engine.temporal)
                  /\ closed.current_session = NoSession
                  BY DEF FinalizeSession
            <3>3. /\ recorded' \in Seq(Message)
                  /\ Elements(recorded') = Elements(recorded) \cup {session}
                  BY <1>t, <3>1, SessionIsRecorded
            <3>4. Closed(engine.temporal) = Newest(recorded', MaxSessionLog)
                  <4>1. engine.temporal \in Tracker /\ Tells(engine.temporal, recorded')
                        BY <1>t, <3>1 DEF Engine, LogInv
                  <4>2. QED
                        BY <3>3, <4>1, ClosedTells
            <3> HIDE DEF closed
            <3>5. Tells(file'.temporal, recorded')
                  BY <3>1, <3>2, <3>4 DEF Tells
            <3>6. QED
                  BY <1>t, <2>0, <3>1, <3>3, <3>5 DEF LogInv
      <2>3. QED
            BY <2>1, <2>2
<1>13. CASE Crash
      <2>1. ~engine'.on /\ UNCHANGED <<file, recorded, session>>
            BY <1>13 DEF Crash, Ends, NoEngine, disk
      <2>2. QED
            BY <2>1 DEF LogInv
<1>14. CASE Start
      <2> DEFINE s == session + 1
                 begun == StartSession(file.temporal, s)
      <2>1. /\ session' = s /\ s \in Message /\ UNCHANGED <<file, recorded>>
            /\ engine' = [on |-> TRUE, is_frozen |-> file.is_frozen, data_deleted |-> FALSE,
                          temporal |-> begun]
            BY <1>t, <1>14 DEF Start, Message
      <2>2. s \notin Elements(recorded) /\ \A r \in Elements(recorded) : r <= s
            <3>1. \A r \in Elements(recorded) : r \in Nat
                  BY <1>t DEF Elements, Message
            <3>2. QED
                  BY <1>t, <3>1 DEF LogInv
      <2>3. Tells(begun, WithSession(s, recorded))
            <3>1. file.temporal \in Tracker
                  BY <1>t DEF Saved
            <3>2. QED
                  BY <1>t, <2>1, <2>2, <3>1, StartTells DEF LogInv
      <2>4. begun.current_session = s
            BY DEF StartSession
      <2> HIDE DEF s, begun
      <2>5. engine'.on /\ ~engine'.data_deleted /\ engine'.temporal = begun
            BY <2>1
      <2>6. QED
            BY <2>1, <2>2, <2>3, <2>4, <2>5 DEF LogInv
<1>15. CASE BeginCheckpoint \/ FinishCheckpoint \/ UNCHANGED vars
      BY <1>1, <1>15 DEF BeginCheckpoint, FinishCheckpoint, vars, shared, disk, history
<1>16. QED
      BY <1>3, <1>4, <1>5, <1>6, <1>7, <1>8, <1>9, <1>10, <1>11, <1>12, <1>13, <1>14, <1>15
         DEF Next, ChatStep, UserStep, Thread

\* temporal.py:184-202.  For any length of the log, any number of starts, crashes,
\* resets and failed saves: the file lists the newest sessions it was saved in.
THEOREM SessionsStayInTheFile == Spec => []SessionsAreKept
<1>1. LogInv => SessionsAreKept
      BY DEF LogInv, Tells, SessionsAreKept
<1>2. QED
      BY InitLog, NextLog, InitDeleted, NextDeleted, AlwaysTyped, <1>1, PTL DEF Spec

=============================================================================
