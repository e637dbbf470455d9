------------------------- MODULE SharedMind_proofs -------------------------
(***************************************************************************)
(* Proofs about the shared mind, for every set of people, callers and      *)
(* workers, every checkpoint threshold and every bound on the operations.  *)
(***************************************************************************)
EXTENDS SharedMind, TLAPS

-----------------------------------------------------------------------------
(* Type correctness: the operators *)

LEMMA SourcesType ==
    ASSUME NEW S, \A x \in S : x.src \subseteq Message
    PROVE  Sources(S) \subseteq Message
BY DEF Sources

LEMMA CommonsType == Commons \in Scope
BY DEF Commons, Scope

LEMMA IdleType == Idle \in ThreadState /\ Off \in ThreadState
<1>1. NoFile \in Snapshot
    BY DEF NoFile, Snapshot
<1>2. Idle \in ThreadState
    BY <1>1, CommonsType DEF Idle, ThreadState, PC, Role
<1>3. Off \in ThreadState
    BY <1>2 DEF Off, ThreadState, PC
<1>. QED
    BY <1>2, <1>3

LEMMA GenesisType == Genesis \subseteq MemoryRecord
BY DEF MemoryRecord

LEMMA RecordType ==
    ASSUME NEW r \in MemoryRecord
    PROVE  r.scope \in Scope /\ r.src \subseteq Message
<1>1. CASE r \in Genesis
    BY <1>1, CommonsType DEF Genesis
<1>2. CASE r \notin Genesis
    BY <1>2 DEF MemoryRecord
<1>. QED
    BY <1>1, <1>2

LEMMA BecomesType ==
    ASSUME thread \in [Thread -> ThreadState], NEW t \in Thread, NEW s \in ThreadState,
           Becomes(t, s)
    PROVE  thread' \in [Thread -> ThreadState]
BY DEF Becomes

LEMMA SpendType ==
    ASSUME budget \in [Operation -> Nat], NEW op \in Operation, Spend(op)
    PROVE  budget' \in [Operation -> Nat]
BY DEF Spend

LEMMA InsightsType ==
    ASSUME NEW store, store \subseteq MemoryRecord
    PROVE  Insights(store) \subseteq PendingMemory
<1>. SUFFICES ASSUME NEW x \in store, NEW y \in store
              PROVE  [batch |-> 0, scope |-> x.scope, src |-> x.src \cup y.src] \in PendingMemory
    BY DEF Insights
<1>. QED
    BY RecordType DEF PendingMemory

-----------------------------------------------------------------------------
(* Type correctness: the tables *)

LEMMA AddInteractionType ==
    ASSUME WMTypeOK, NEW scope \in Scope, NEW role \in Role, AddInteraction(scope, role)
    PROVE  WMTypeOK'
<1>1. Len(said) + 1 \in Message
    BY DEF WMTypeOK, Message
<1>2. [id |-> Len(said) + 1, scope |-> scope, session |-> session_id, done |-> FALSE] \in Row
    BY <1>1 DEF WMTypeOK, Row
<1>3. rows' \subseteq Row
    BY <1>2 DEF WMTypeOK, AddInteraction
<1>4. said' \in Seq(Scope) /\ message_count' \in Nat
    BY DEF WMTypeOK, AddInteraction
<1>. QED
    BY <1>3, <1>4 DEF WMTypeOK, AddInteraction

LEMMA SummariesType ==
    ASSUME NEW read, read \subseteq Row, NEW n \in Nat
    PROVE  Summaries(read, n) \subseteq PendingMemory
<1>. SUFFICES ASSUME NEW r \in read
              PROVE  [batch |-> n, scope |-> r.scope,
                      src |-> {x.id : x \in {y \in read : y.scope = r.scope}}] \in PendingMemory
    BY DEF Summaries
<1>1. {x.id : x \in {y \in read : y.scope = r.scope}} \subseteq Message
    BY DEF Row
<1>. QED
    BY <1>1 DEF PendingMemory, Row

LEMMA WriteCheckpointType ==
    ASSUME WMTypeOK, NEW read, read \subseteq Row, WriteCheckpoint(read)
    PROVE  WMTypeOK'
<1>1. pending' \subseteq PendingMemory
    BY SummariesType DEF WMTypeOK, WriteCheckpoint
<1>2. ASSUME NEW r \in rows
      PROVE  [r EXCEPT !.done = r.done \/ \E x \in read : x.id = r.id] \in Row
    BY DEF WMTypeOK, Row
<1>3. rows' \subseteq Row
    BY <1>2 DEF WriteCheckpoint
<1>. QED
    BY <1>1, <1>3 DEF WMTypeOK, WriteCheckpoint

LEMMA MarkFlushedType ==
    ASSUME WMTypeOK, NEW selected, MarkFlushed(selected)
    PROVE  WMTypeOK'
BY DEF WMTypeOK, MarkFlushed

LEMMA DeleteOwnerType ==
    ASSUME WMTypeOK, NEW p, DeleteOwner(p)
    PROVE  WMTypeOK'
BY DEF WMTypeOK, DeleteOwner

LEMMA ControlType ==
    ASSUME WMTypeOK, ClearSession \/ ExceedThreshold \/ Reopen
    PROVE  WMTypeOK'
<1>1. CASE ClearSession
    BY <1>1 DEF WMTypeOK, ClearSession
<1>2. CASE ExceedThreshold
    BY <1>2, WorkingMemoryAssumption DEF WMTypeOK, ExceedThreshold
<1>3. CASE Reopen
    <2>1. last_checkpoint' \in BOOLEAN
        BY <1>3 DEF Reopen
    <2>2. session_id' \in Nat /\ message_count' \in Nat
        BY <1>3 DEF WMTypeOK, Reopen
    <2>. QED
        BY <1>3, <2>1, <2>2 DEF WMTypeOK, Reopen
<1>. QED
    BY <1>1, <1>2, <1>3

-----------------------------------------------------------------------------
(* Type correctness: the actions of a caller *)

MindTypeOK ==
    /\ memory_store \subseteq MemoryRecord
    /\ pending_notes \in [Person \cup {NoOwner} -> SUBSET Message]
    /\ candidates \subseteq PendingMemory
    /\ narrative \subseteq Message
    /\ is_frozen \in BOOLEAN
    /\ queue \in Seq({"checkpoint", "stop"})

HistoryTypeOK ==
    /\ dismissed \subseteq Message
    /\ erased \subseteq Message
    /\ gone \subseteq Message

TypeParts ==
    /\ WMTypeOK
    /\ MindTypeOK
    /\ thread \in [Thread -> ThreadState]
    /\ disk \in Snapshot
    /\ HistoryTypeOK
    /\ budget \in [Operation -> Nat]

LEMMA TypeIsParts == (TypeOK <=> TypeParts) /\ (TypeOK' <=> TypeParts')
BY DEF TypeOK, TypeParts, MindTypeOK, HistoryTypeOK

\* The parts of the state that a step leaves alone keep their types.
LEMMA KeepsWM == ASSUME WMTypeOK, UNCHANGED wm_vars PROVE WMTypeOK'
BY DEF WMTypeOK, wm_vars

LEMMA KeepsMind == ASSUME MindTypeOK, UNCHANGED mind_vars PROVE MindTypeOK'
BY DEF MindTypeOK, mind_vars

LEMMA KeepsHistory == ASSUME HistoryTypeOK, UNCHANGED history PROVE HistoryTypeOK'
BY DEF HistoryTypeOK, history

\* What is said of p are messages.
LEMMA OfType == ASSUME WMTypeOK, NEW p PROVE Of(p) \subseteq Message
BY DEF WMTypeOK, Of, Message

LEMMA TalkType ==
    ASSUME TypeOK, NEW c \in Caller,
           \/ \E scope \in Scope, role \in Role : BeginInteraction(c, scope, role)
           \/ CommitInsights(c)
           \/ RecordInteraction(c)
           \/ \E viewer \in Person \cup {NoOwner} : BuildContext(c, viewer)
    PROVE  TypeOK'
<1>. USE TypeIsParts DEF TypeParts
<1>0. c \in Thread
    BY DEF Thread
<1>. USE <1>0
<1>1. ASSUME NEW scope \in Scope, NEW role \in Role, BeginInteraction(c, scope, role)
      PROVE  TypeOK'
    <2>. DEFINE wakes == role = "user" /\ candidates # {}
                state == [Idle EXCEPT !.pc = IF wakes THEN "dreaming" ELSE "accepted",
                                      !.scope = scope, !.role = role,
                                      !.todo = IF wakes THEN candidates ELSE {}]
    <2>1. state \in ThreadState
        BY IdleType DEF ThreadState, PC, MindTypeOK
    <2>2. Becomes(c, state)
        BY <1>1 DEF BeginInteraction
    <2>3. thread' \in [Thread -> ThreadState]
        BY <2>1, <2>2, BecomesType
    <2>4. budget' \in [Operation -> Nat]
        BY <1>1, SpendType DEF BeginInteraction, Operation
    <2>5. MindTypeOK'
        BY <1>1 DEF BeginInteraction, MindTypeOK
    <2>. QED
        BY <1>1, <2>3, <2>4, <2>5, KeepsWM, KeepsHistory DEF BeginInteraction
<1>2. ASSUME CommitInsights(c)
      PROVE  TypeOK'
    <2>1. thread[c] \in ThreadState
        OBVIOUS
    <2>2. PICK valid \in SUBSET thread[c].todo :
              memory_store' = memory_store \cup
                  {[kind |-> "insight", scope |-> i.scope, src |-> i.src, batch |-> 0,
                    origin |-> c] : i \in valid}
        BY <1>2 DEF CommitInsights
    <2>3. ASSUME NEW i \in valid
          PROVE  [kind |-> "insight", scope |-> i.scope, src |-> i.src, batch |-> 0,
                  origin |-> c] \in MemoryRecord
        BY <2>1 DEF ThreadState, PendingMemory, MemoryRecord
    <2>4. memory_store' \subseteq MemoryRecord
        BY <2>2, <2>3 DEF MindTypeOK
    <2>5. [thread[c] EXCEPT !.pc = "accepted", !.todo = {}] \in ThreadState
        BY <2>1 DEF ThreadState, PC
    <2>6. thread' \in [Thread -> ThreadState]
        BY <1>2, <2>5, BecomesType DEF CommitInsights
    <2>. QED
        BY <1>2, <2>4, <2>6, KeepsWM, KeepsHistory DEF CommitInsights, MindTypeOK
<1>3. ASSUME RecordInteraction(c)
      PROVE  TypeOK'
    <2>1. thread[c] \in ThreadState
        OBVIOUS
    <2>2. thread[c].scope \in Scope /\ thread[c].role \in Role
        BY <2>1 DEF ThreadState
    <2>3. WMTypeOK'
        BY <1>3, <2>2, AddInteractionType DEF RecordInteraction
    <2>4. thread' \in [Thread -> ThreadState]
        BY <1>3, IdleType, BecomesType DEF RecordInteraction
    <2>5. queue' \in Seq({"checkpoint", "stop"})
        BY <1>3 DEF RecordInteraction, MindTypeOK
    <2>. QED
        BY <1>3, <2>3, <2>4, <2>5, KeepsHistory DEF RecordInteraction, MindTypeOK
<1>4. ASSUME NEW viewer \in Person \cup {NoOwner}, BuildContext(c, viewer)
      PROVE  TypeOK'
    BY <1>4, KeepsWM, KeepsHistory DEF BuildContext, MindTypeOK
<1>. QED
    BY <1>1, <1>2, <1>3, <1>4

-----------------------------------------------------------------------------
(* Type correctness: the consolidation pipeline *)

LEMMA CheckpointType ==
    ASSUME TypeOK, NEW t \in Thread,
           \/ TakeTask(t) \/ ForceSave(t)
           \/ FinishCheckpoint(t) \/ AbortCheckpoint(t)
           \/ SelectPending(t) \/ MarkSelected(t) \/ FinishForceSave(t)
    PROVE  TypeOK'
<1>. USE TypeIsParts DEF TypeParts
<1>0. thread[t] \in ThreadState /\ Unmarked \subseteq Row
    BY DEF Unmarked, WMTypeOK
<1>. DEFINE begun == [Idle EXCEPT !.pc = IF Unmarked = {} THEN "select" ELSE "summarise",
                                  !.read = Unmarked]
<1>a. begun \in ThreadState
    BY <1>0, IdleType DEF ThreadState, PC
<1>1. CASE TakeTask(t)
    <2>1. Becomes(t, IF Head(queue) = "stop" THEN Off ELSE begun)
        BY <1>1 DEF TakeTask
    <2>2. thread' \in [Thread -> ThreadState]
        BY <2>1, <1>a, IdleType, BecomesType
    <2>3. queue' \in Seq({"checkpoint", "stop"})
        BY <1>1 DEF TakeTask, MindTypeOK
    <2>. QED
        BY <1>1, <2>2, <2>3, KeepsWM, KeepsHistory DEF TakeTask, MindTypeOK
<1>2. CASE ForceSave(t)
    <2>1. Becomes(t, begun) /\ ExceedThreshold
        BY <1>2 DEF ForceSave
    <2>2. thread' \in [Thread -> ThreadState]
        BY <2>1, <1>a, BecomesType
    <2>3. WMTypeOK'
        BY <2>1, ControlType
    <2>4. budget' \in [Operation -> Nat]
        BY <1>2, SpendType DEF ForceSave, Operation
    <2>. QED
        BY <1>2, <2>2, <2>3, <2>4, KeepsMind, KeepsHistory DEF ForceSave
<1>3. CASE FinishCheckpoint(t)
    <2>1. thread[t].read \subseteq Row
        BY <1>0 DEF ThreadState
    <2>2. WMTypeOK'
        BY <1>3, <2>1, WriteCheckpointType DEF FinishCheckpoint
    <2>3. [thread[t] EXCEPT !.pc = "select"] \in ThreadState
        BY <1>0 DEF ThreadState, PC
    <2>4. thread' \in [Thread -> ThreadState]
        BY <1>3, <2>3, BecomesType DEF FinishCheckpoint
    <2>. QED
        BY <1>3, <2>2, <2>4, KeepsMind, KeepsHistory DEF FinishCheckpoint
<1>4. CASE AbortCheckpoint(t)
    <2>1. thread' \in [Thread -> ThreadState]
        BY <1>4, IdleType, BecomesType DEF AbortCheckpoint
    <2>2. budget' \in [Operation -> Nat]
        BY <1>4, SpendType DEF AbortCheckpoint, Operation
    <2>. QED
        BY <1>4, <2>1, <2>2, KeepsWM, KeepsMind, KeepsHistory DEF AbortCheckpoint
<1>5. CASE SelectPending(t)
    <2>1. [thread[t] EXCEPT !.pc = "mark", !.todo = pending] \in ThreadState
        BY <1>0 DEF ThreadState, PC, WMTypeOK
    <2>2. thread' \in [Thread -> ThreadState]
        BY <1>5, <2>1, BecomesType DEF SelectPending
    <2>. QED
        BY <1>5, <2>2, KeepsWM, KeepsMind, KeepsHistory DEF SelectPending
<1>6. CASE MarkSelected(t)
    <2>1. [thread[t] EXCEPT !.pc = "add", !.read = {}] \in ThreadState
        BY <1>0 DEF ThreadState, PC
    <2>2. Becomes(t, IF t \in Worker /\ thread[t].read = {} THEN Idle
                     ELSE [thread[t] EXCEPT !.pc = "add", !.read = {}])
        BY <1>6 DEF MarkSelected
    <2>3. thread' \in [Thread -> ThreadState]
        BY <2>1, <2>2, IdleType, BecomesType
    <2>4. WMTypeOK'
        BY <1>6, MarkFlushedType DEF MarkSelected
    <2>. QED
        BY <1>6, <2>3, <2>4, KeepsMind, KeepsHistory DEF MarkSelected
<1>7. CASE FinishForceSave(t)
    <2>1. [Idle EXCEPT !.pc = "save"] \in ThreadState
        BY IdleType DEF ThreadState, PC
    <2>2. thread' \in [Thread -> ThreadState]
        BY <1>7, <2>1, BecomesType DEF FinishForceSave
    <2>. QED
        BY <1>7, <2>2, KeepsWM, KeepsMind, KeepsHistory DEF FinishForceSave
<1>. QED
    BY <1>1, <1>2, <1>3, <1>4, <1>5, <1>6, <1>7

LEMMA DecideType ==
    ASSUME TypeOK, NEW t \in Thread, NEW pm \in thread[t].todo,
           NEW notes, notes \subseteq PendingMemory, Decide(t, pm, notes)
    PROVE  /\ WMTypeOK'
           /\ thread' \in [Thread -> ThreadState]
           /\ disk' \in Snapshot
           /\ budget' \in [Operation -> Nat]
           /\ UNCHANGED <<pending_notes, candidates, narrative, is_frozen, queue,
                          erased, gone>>
<1>. USE TypeIsParts DEF TypeParts
<1>1. thread[t] \in ThreadState
    OBVIOUS
<1>2. [thread[t] EXCEPT !.todo = @ \ {pm}, !.notes = notes] \in ThreadState
    BY <1>1 DEF ThreadState
<1>3. thread' \in [Thread -> ThreadState]
    BY <1>2, BecomesType DEF Decide
<1>. QED
    BY <1>3, KeepsWM DEF Decide

LEMMA OutcomeType ==
    ASSUME TypeOK, NEW t \in Thread, NEW pm \in thread[t].todo,
           Integrate(t, pm) \/ Absorb(t, pm) \/ Contradict(t, pm)
    PROVE  TypeOK'
<1>. USE TypeIsParts DEF TypeParts
<1>0. thread[t] \in ThreadState
    OBVIOUS
<1>1. pm \in PendingMemory /\ thread[t].notes \subseteq PendingMemory
    BY <1>0 DEF ThreadState
<1>2. CASE Integrate(t, pm)
    <2>1. [kind |-> "episode", scope |-> pm.scope, src |-> pm.src,
           batch |-> pm.batch, origin |-> t] \in MemoryRecord
        BY <1>1 DEF PendingMemory, MemoryRecord
    <2>2. memory_store' \subseteq MemoryRecord
        BY <1>2, <2>1 DEF Integrate, MindTypeOK
    <2>. QED
        BY <1>1, <1>2, <2>2, DecideType DEF Integrate, MindTypeOK, HistoryTypeOK
<1>3. CASE Absorb(t, pm)
    <2>1. dismissed' \subseteq Message /\ memory_store' = memory_store
        BY <1>1, <1>3 DEF Absorb, Dismiss, PendingMemory, HistoryTypeOK
    <2>. QED
        BY <1>1, <1>3, <2>1, DecideType DEF Absorb, MindTypeOK, HistoryTypeOK
<1>4. CASE Contradict(t, pm)
    <2>1. dismissed' \subseteq Message /\ memory_store' = memory_store
        BY <1>1, <1>4 DEF Contradict, Dismiss, PendingMemory, HistoryTypeOK
    <2>. DEFINE notes == IF t \in Worker THEN thread[t].notes \cup {pm} ELSE {}
    <2>2. notes \subseteq PendingMemory /\ Decide(t, pm, notes)
        BY <1>1, <1>4 DEF Contradict
    <2>3. /\ WMTypeOK'
          /\ thread' \in [Thread -> ThreadState]
          /\ disk' \in Snapshot
          /\ budget' \in [Operation -> Nat]
          /\ UNCHANGED <<pending_notes, candidates, narrative, is_frozen, queue,
                         erased, gone>>
        BY <2>2, DecideType
    <2>. QED
        BY <2>1, <2>3 DEF MindTypeOK, HistoryTypeOK
<1>. QED
    BY <1>2, <1>3, <1>4

LEMMA ReflectionType ==
    ASSUME TypeOK, NEW w \in Thread,
           BeginReflection(w) \/ FinishReflection(w) \/ PostNotes(w)
    PROVE  TypeOK'
<1>. USE TypeIsParts DEF TypeParts
<1>0. thread[w] \in ThreadState
    OBVIOUS
<1>1. CASE BeginReflection(w)
    <2>1. [kind |-> "reflection", scope |-> Commons, src |-> {}, batch |-> 0,
           origin |-> w] \in MemoryRecord
        BY CommonsType DEF MemoryRecord
    <2>2. memory_store' \subseteq MemoryRecord
        BY <1>1, <2>1 DEF BeginReflection, MindTypeOK
    <2>3. Sources(Public(memory_store)) \subseteq Message
        BY SourcesType, RecordType DEF Public, MindTypeOK
    <2>4. ASSUME NEW text \in {Sources(Public(memory_store)), narrative}
          PROVE  [thread[w] EXCEPT !.pc = "reflect", !.view = text] \in ThreadState
        BY <1>0, <2>3 DEF ThreadState, PC, MindTypeOK
    <2>5. thread' \in [Thread -> ThreadState]
        BY <1>1, <2>4, BecomesType DEF BeginReflection
    <2>6. budget' \in [Operation -> Nat]
        BY <1>1, SpendType DEF BeginReflection, Operation
    <2>. QED
        BY <1>1, <2>2, <2>5, <2>6, KeepsWM, KeepsHistory DEF BeginReflection, MindTypeOK
<1>2. CASE FinishReflection(w)
    <2>1. thread[w].view \subseteq Message
        BY <1>0 DEF ThreadState
    <2>2. [kind |-> "reflection", scope |-> Commons, src |-> thread[w].view, batch |-> 0,
           origin |-> w] \in MemoryRecord
        BY <2>1, CommonsType DEF MemoryRecord
    <2>3. memory_store' \subseteq MemoryRecord /\ narrative' \subseteq Message
        BY <1>2, <2>1, <2>2 DEF FinishReflection, MindTypeOK
    <2>4. [thread[w] EXCEPT !.pc = "post", !.view = {}] \in ThreadState
        BY <1>0 DEF ThreadState, PC
    <2>5. thread' \in [Thread -> ThreadState]
        BY <1>2, <2>4, BecomesType DEF FinishReflection
    <2>. QED
        BY <1>2, <2>3, <2>5, KeepsWM, KeepsHistory DEF FinishReflection, MindTypeOK
<1>3. CASE PostNotes(w)
    <2>1. ASSUME NEW o PROVE Sources({pm \in thread[w].notes : pm.scope.owner = o}) \subseteq Message
        BY <1>0, SourcesType DEF ThreadState, PendingMemory
    <2>2. pending_notes' \in [Person \cup {NoOwner} -> SUBSET Message]
        BY <1>3, <2>1 DEF PostNotes, MindTypeOK
    <2>3. thread' \in [Thread -> ThreadState]
        BY <1>3, IdleType, BecomesType DEF PostNotes
    <2>. QED
        BY <1>3, <2>2, <2>3, KeepsWM, KeepsHistory DEF PostNotes, MindTypeOK
<1>. QED
    BY <1>1, <1>2, <1>3

-----------------------------------------------------------------------------
(* Type correctness: saving, control and restarts *)

LEMMA SaveType ==
    ASSUME TypeOK, NEW c \in Caller,
           TakeSnapshot(c) \/ WriteFile(c) \/ AbortWrite(c)
    PROVE  TypeOK'
<1>. USE TypeIsParts DEF TypeParts
<1>0. c \in Thread /\ thread[c] \in ThreadState
    BY DEF Thread
<1>1. CASE TakeSnapshot(c)
    <2>. DEFINE snapshot == [memory_store |-> memory_store, is_frozen |-> is_frozen,
                             narrative |-> narrative]
    <2>1. snapshot \in Snapshot
        BY DEF MindTypeOK, Snapshot
    <2>2. [thread[c] EXCEPT !.pc = "write", !.saved = snapshot] \in ThreadState
        BY <1>0, <2>1 DEF ThreadState, PC
    <2>3. thread' \in [Thread -> ThreadState]
        BY <1>0, <1>1, <2>2, BecomesType DEF TakeSnapshot
    <2>4. budget' \in [Operation -> Nat]
        BY <1>1, SpendType DEF TakeSnapshot, Operation
    <2>. QED
        BY <1>1, <2>3, <2>4, KeepsWM, KeepsMind, KeepsHistory DEF TakeSnapshot
<1>2. CASE WriteFile(c)
    <2>1. disk' \in Snapshot /\ gone' \subseteq Message
        BY <1>0, <1>2 DEF WriteFile, ThreadState, HistoryTypeOK
    <2>2. thread' \in [Thread -> ThreadState]
        BY <1>0, <1>2, IdleType, BecomesType DEF WriteFile
    <2>. QED
        BY <1>2, <2>1, <2>2, KeepsWM, KeepsMind DEF WriteFile, HistoryTypeOK
<1>3. CASE AbortWrite(c)
    <2>1. thread' \in [Thread -> ThreadState]
        BY <1>0, <1>3, IdleType, BecomesType DEF AbortWrite
    <2>2. budget' \in [Operation -> Nat]
        BY <1>3, SpendType DEF AbortWrite, Operation
    <2>. QED
        BY <1>3, <2>1, <2>2, KeepsWM, KeepsMind, KeepsHistory DEF AbortWrite
<1>. QED
    BY <1>1, <1>2, <1>3

LEMMA EraseType ==
    ASSUME TypeOK, NEW c \in Caller, NEW p \in Person, DeleteOwnerData(c, p)
    PROVE  TypeOK'
<1>. USE TypeIsParts DEF TypeParts
<1>0. c \in Thread
    BY DEF Thread
<1>1. WMTypeOK' /\ Of(p) \subseteq Message
    BY DeleteOwnerType, OfType DEF DeleteOwnerData
<1>2. [Idle EXCEPT !.pc = "save",
           !.erasing = IF Undisturbed(c, p) THEN Of(p) ELSE {}] \in ThreadState
    BY <1>1, IdleType DEF ThreadState, PC
<1>3. thread' \in [Thread -> ThreadState]
    BY <1>0, <1>2, BecomesType DEF DeleteOwnerData
<1>4. MindTypeOK'
    BY DEF DeleteOwnerData, MindTypeOK
<1>5. HistoryTypeOK'
    BY <1>1 DEF DeleteOwnerData, HistoryTypeOK
<1>6. budget' \in [Operation -> Nat]
    BY SpendType DEF DeleteOwnerData, Operation
<1>. QED
    BY <1>1, <1>3, <1>4, <1>5, <1>6 DEF DeleteOwnerData

LEMMA SwitchType ==
    ASSUME TypeOK, NEW c \in Caller,
           \/ CognitiveShutdown(c) \/ SoftReset(c)
           \/ \E frozen \in BOOLEAN : SetFrozen(c, frozen)
    PROVE  TypeOK'
<1>. USE TypeIsParts DEF TypeParts
<1>0. c \in Thread /\ [Idle EXCEPT !.pc = "save"] \in ThreadState
    BY IdleType DEF Thread, ThreadState, PC
<1>1. CASE CognitiveShutdown(c)
    <2>1. Sources(Episodes(memory_store)) \subseteq Message
        BY SourcesType, RecordType DEF MindTypeOK, Episodes
    <2>2. HistoryTypeOK'
        BY <1>1, <2>1 DEF CognitiveShutdown, HistoryTypeOK
    <2>3. queue' \in Seq({"checkpoint", "stop"})
        BY <1>1 DEF CognitiveShutdown, MindTypeOK
    <2>4. MindTypeOK'
        BY <1>1, <2>3 DEF CognitiveShutdown, MindTypeOK, AbsoluteCores
    <2>5. thread' \in [Thread -> ThreadState]
        BY <1>0, <1>1, BecomesType DEF CognitiveShutdown
    <2>6. budget' \in [Operation -> Nat]
        BY <1>1, SpendType DEF CognitiveShutdown, Operation
    <2>. QED
        BY <1>1, <2>2, <2>4, <2>5, <2>6, KeepsWM DEF CognitiveShutdown
<1>2. CASE SoftReset(c)
    <2>1. WMTypeOK' /\ DOMAIN said \subseteq Message
        BY <1>2, ControlType DEF SoftReset, WMTypeOK, Message
    <2>2. HistoryTypeOK'
        BY <1>2, <2>1 DEF SoftReset, HistoryTypeOK
    <2>3. MindTypeOK'
        BY <1>2 DEF SoftReset, MindTypeOK, AbsoluteCores
    <2>4. thread' \in [Thread -> ThreadState]
        BY <1>0, <1>2, IdleType DEF SoftReset, Thread
    <2>5. budget' \in [Operation -> Nat]
        BY <1>2, SpendType DEF SoftReset, Operation
    <2>. QED
        BY <1>2, <2>1, <2>2, <2>3, <2>4, <2>5 DEF SoftReset
<1>3. ASSUME NEW frozen \in BOOLEAN, SetFrozen(c, frozen)
      PROVE  TypeOK'
    <2>1. thread' \in [Thread -> ThreadState]
        BY <1>0, <1>3, BecomesType DEF SetFrozen
    <2>2. budget' \in [Operation -> Nat]
        BY <1>3, SpendType DEF SetFrozen, Operation
    <2>3. MindTypeOK'
        BY <1>3 DEF SetFrozen, MindTypeOK
    <2>. QED
        BY <1>3, <2>1, <2>2, <2>3, KeepsWM, KeepsHistory DEF SetFrozen
<1>. QED
    BY <1>1, <1>2, <1>3

LEMMA StartType ==
    ASSUME TypeOK, NEW file \in Snapshot, Start(file), budget' \in [Operation -> Nat]
    PROVE  TypeOK'
<1>. USE TypeIsParts DEF TypeParts
<1>1. WMTypeOK'
    BY ControlType DEF Start
<1>2. file.memory_store \cup Genesis \subseteq MemoryRecord
    BY GenesisType DEF Snapshot
<1>3. candidates' \subseteq PendingMemory
    BY <1>2, InsightsType DEF Start
<1>4. MindTypeOK'
    BY <1>2, <1>3 DEF Start, MindTypeOK, Snapshot
<1>5. thread' \in [Thread -> ThreadState]
    BY IdleType DEF Start
<1>. QED
    BY <1>1, <1>4, <1>5, KeepsHistory DEF Start

\* What is half loaded is part of the file.
LEMMA HalfLoadedIsPart ==
    ASSUME disk \in Snapshot, NEW file \in HalfLoaded
    PROVE  /\ file \in Snapshot /\ file.narrative = {}
           /\ file.memory_store \subseteq disk.memory_store
<1>1. CASE \E kept \in SUBSET disk.memory_store : file = [NoFile EXCEPT !.memory_store = kept]
    BY <1>1 DEF NoFile, Snapshot
<1>2. CASE file = [disk EXCEPT !.narrative = {}]
    BY <1>2 DEF Snapshot
<1>. QED
    BY <1>1, <1>2 DEF HalfLoaded

LEMMA RestartType ==
    ASSUME TypeOK, Restart \/ RestartAfresh
    PROVE  TypeOK'
<1>1. CASE Restart
    BY <1>1, SpendType, StartType DEF Restart, TypeOK, Operation
<1>2. CASE RestartAfresh
    <2>1. PICK file \in HalfLoaded : Start(file)
        BY <1>2 DEF RestartAfresh
    <2>2. budget' \in [Operation -> Nat]
        <3>1. budget \in [Operation -> Nat]
            BY DEF TypeOK
        <3>2. budget["crash"] - 1 \in Nat /\ budget["fault"] - 1 \in Nat
            BY <1>2, <3>1 DEF RestartAfresh, Operation
        <3>3. budget' = [budget EXCEPT !["crash"] = @ - 1, !["fault"] = @ - 1]
            BY <1>2 DEF RestartAfresh
        <3>. QED
            BY <3>1, <3>2, <3>3
    <2>. QED
        BY <2>1, <2>2, HalfLoadedIsPart, StartType DEF TypeOK
<1>. QED
    BY <1>1, <1>2

-----------------------------------------------------------------------------

LEMMA InitType == Init => TypeOK
<1>. SUFFICES ASSUME Init PROVE TypeOK
    OBVIOUS
<1>1. WMTypeOK
    <2>1. said \in Seq(Scope) /\ session_id \in Nat /\ message_count \in Nat
              /\ checkpoints \in Nat
        BY DEF Init, WMInit
    <2>2. last_checkpoint \in BOOLEAN
        BY DEF Init, WMInit
    <2>. QED
        BY <2>1, <2>2 DEF Init, WMInit, WMTypeOK
<1>2. NoFile \in Snapshot
    BY DEF NoFile, Snapshot
<1>3. thread \in [Thread -> ThreadState]
    BY IdleType DEF Init
<1>4. MindTypeOK
    <2>1. is_frozen \in BOOLEAN
        BY DEF Init
    <2>2. queue \in Seq({"checkpoint", "stop"})
        BY DEF Init
    <2>3. pending_notes \in [Person \cup {NoOwner} -> SUBSET Message]
        BY DEF Init
    <2>. QED
        BY <2>1, <2>2, <2>3, GenesisType DEF Init, MindTypeOK
<1>5. budget \in [Operation -> Nat]
    BY SharedMindAssumption DEF Init
<1>6. HistoryTypeOK
    BY DEF Init, HistoryTypeOK
<1>7. disk \in Snapshot
    BY <1>2 DEF Init
<1>. QED
    BY <1>1, <1>3, <1>4, <1>5, <1>6, <1>7, TypeIsParts DEF TypeParts

\* Every reachable state is well typed, crashes and faults included.
THEOREM TypeCorrect == Spec => []TypeOK
<1>1. TypeOK /\ [Next]_vars => TypeOK'
    <2>. SUFFICES ASSUME TypeOK, [Next]_vars PROVE TypeOK'
        OBVIOUS
    <2>1. ASSUME NEW w \in Worker, WorkerStep(w)
          PROVE  TypeOK'
        <3>1. w \in Thread
            BY DEF Thread
        <3>. QED
            BY <2>1, <3>1, CheckpointType, OutcomeType, ReflectionType DEF WorkerStep
    <2>2. ASSUME NEW c \in Caller, CallerStep(c)
          PROVE  TypeOK'
        <3>1. c \in Thread
            BY DEF Thread
        <3>. QED
            BY <2>2, <3>1, TalkType, CheckpointType, OutcomeType, SaveType DEF CallerStep
    <2>3. ASSUME NEW c \in Caller, Call(c)
          PROVE  TypeOK'
        <3>1. c \in Thread
            BY DEF Thread
        <3>. QED
            BY <2>3, <3>1, TalkType, CheckpointType, EraseType, SwitchType DEF Call
    <2>4. CASE UNCHANGED vars
        BY <2>4 DEF vars, wm_vars, mind_vars, history, TypeOK, WMTypeOK
    <2>. QED
        BY <2>1, <2>2, <2>3, <2>4, CheckpointType, SaveType, RestartType DEF Next
<1>. QED
    BY <1>1, InitType, PTL DEF Spec

-----------------------------------------------------------------------------
(***************************************************************************)
(* Privacy.  NeverToldToOthers speaks of what is shown now; it is kept     *)
(* only because everything that can come to be shown later, in a table, a  *)
(* file, a snapshot or the hands of a thread, is as clean.  h stands for   *)
(* said, so that what was clean can be compared with a longer history.     *)
(***************************************************************************)

\* Messages that a memory of this scope may be made of.
Fit(h, scope, ms) ==
    \A m \in ms : /\ m \in DOMAIN h
                  /\ h[m].vis = "public" \/ (scope.vis = "private" /\ h[m].owner = scope.owner)

Pure(h, S) == \A x \in S : Fit(h, x.scope, x.src)
Own(h, S) == \A x \in S : \A m \in x.src : m \in DOMAIN h /\ h[m] = x.scope
Recorded(h, R) == \A r \in R : r.id \in DOMAIN h /\ h[r.id] = r.scope
Open(h, ms) == \A m \in ms : m \in DOMAIN h /\ h[m].vis = "public"
PureStore(h, S) == Pure(h, S) /\ Own(h, {r \in S : r.kind = "episode"})
PureNotes(h, notes) ==
    \A o \in Person \cup {NoOwner} : \A m \in notes[o] :
        m \in DOMAIN h /\ (h[m].vis = "public" \/ h[m].owner = o)

PureThread(h, state) ==
    /\ Recorded(h, state.read)
    /\ Pure(h, state.todo)
    /\ state.pc \in {"mark", "add"} => Own(h, state.todo)
    /\ Own(h, state.notes)
    /\ Open(h, state.view)
    /\ PureStore(h, state.saved.memory_store)
    /\ Open(h, state.saved.narrative)

PureTables(h) == Recorded(h, rows) /\ Own(h, pending) /\ Own(h, flushed)
PureMind(h) ==
    /\ PureStore(h, memory_store)
    /\ Pure(h, candidates)
    /\ PureNotes(h, pending_notes)
    /\ Open(h, narrative)
PureThreads(h) == \A t \in Thread : PureThread(h, thread[t])
PureDisk(h) == PureStore(h, disk.memory_store) /\ Open(h, disk.narrative)

\* The inductive invariant.
Purity == PureTables(said) /\ PureMind(said) /\ PureThreads(said) /\ PureDisk(said)

\* A history that goes on does not make anything unclean.
LEMMA LongerHistory ==
    ASSUME NEW h, NEW k, \A m \in DOMAIN h : m \in DOMAIN k /\ k[m] = h[m]
    PROVE  /\ \A S : Pure(h, S) => Pure(k, S)
           /\ \A S : Own(h, S) => Own(k, S)
           /\ \A S : Recorded(h, S) => Recorded(k, S)
           /\ \A S : Open(h, S) => Open(k, S)
           /\ \A S : PureStore(h, S) => PureStore(k, S)
           /\ \A notes : PureNotes(h, notes) => PureNotes(k, notes)
           /\ \A state : PureThread(h, state) => PureThread(k, state)
<1>1. \A S : Pure(h, S) => Pure(k, S)
    BY DEF Pure, Fit
<1>2. \A S : Own(h, S) => Own(k, S)
    BY DEF Own
<1>3. \A S : Recorded(h, S) => Recorded(k, S)
    BY DEF Recorded
<1>4. \A S : Open(h, S) => Open(k, S)
    BY DEF Open
<1>5. \A S : PureStore(h, S) => PureStore(k, S)
    BY <1>1, <1>2 DEF PureStore
<1>6. \A notes : PureNotes(h, notes) => PureNotes(k, notes)
    BY DEF PureNotes
<1>7. \A state : PureThread(h, state) => PureThread(k, state)
    BY <1>1, <1>2, <1>3, <1>4, <1>5 DEF PureThread
<1>. QED
    BY <1>1, <1>2, <1>3, <1>4, <1>5, <1>6, <1>7

LEMMA OwnIsPure ==
    ASSUME NEW h, NEW S, Own(h, S), \A x \in S : x.scope \in Scope
    PROVE  Pure(h, S)
BY DEF Own, Pure, Fit, Scope, Commons, Visibility

LEMMA IdleIsPure ==
    ASSUME NEW h
    PROVE  /\ PureThread(h, Idle) /\ PureThread(h, Off)
           /\ Own(h, Idle.todo)
           /\ Idle.saved = NoFile
<1>1. PureStore(h, NoFile.memory_store) /\ Open(h, NoFile.narrative)
    BY DEF NoFile, PureStore, Pure, Own, Open
<1>2. /\ Idle.read = {} /\ Idle.todo = {} /\ Idle.notes = {} /\ Idle.view = {}
      /\ Idle.saved = NoFile
    BY DEF Idle
<1>3. /\ Off.read = {} /\ Off.todo = {} /\ Off.notes = {} /\ Off.view = {}
      /\ Off.saved = NoFile
    BY DEF Idle, Off
<1>4. PureThread(h, Idle)
    BY <1>1, <1>2 DEF PureThread, Recorded, Pure, Own, Open
<1>5. PureThread(h, Off)
    BY <1>1, <1>3 DEF PureThread, Recorded, Pure, Own, Open
<1>. QED
    BY <1>2, <1>4, <1>5 DEF Own

\* One summary for each scope: it holds the messages of that scope only.
LEMMA SummariesOwn ==
    ASSUME NEW h, NEW read, Recorded(h, read), NEW n
    PROVE  Own(h, Summaries(read, n))
BY DEF Recorded, Own, Summaries

LEMMA InsightsPure ==
    ASSUME NEW h, NEW store, store \subseteq MemoryRecord, Pure(h, store)
    PROVE  Pure(h, Insights(store))
<1>. SUFFICES ASSUME NEW x \in store, NEW y \in store, SameScopeKey(x.scope, y.scope),
                     NEW m \in x.src \cup y.src
              PROVE  /\ m \in DOMAIN h
                     /\ \/ h[m].vis = "public"
                        \/ x.scope.vis = "private" /\ h[m].owner = x.scope.owner
    BY DEF Insights, Pure, Fit
<1>. QED
    BY DEF SameScopeKey, Pure, Fit

LEMMA GenesisPure ==
    ASSUME NEW h, NEW store, PureStore(h, store)
    PROVE  PureStore(h, store \cup Genesis)
BY DEF PureStore, Pure, Own, Fit, Genesis

LEMMA PublicIsOpen ==
    ASSUME NEW h, NEW store, Pure(h, store)
    PROVE  Open(h, Sources(Public(store)))
BY DEF Pure, Fit, Open, Sources, Public

\* What a step does not touch stays clean.
LEMMA KeepsPure ==
    ASSUME UNCHANGED said
    PROVE  /\ PureTables(said) /\ UNCHANGED wm_vars => PureTables(said)'
           /\ PureMind(said) /\ UNCHANGED mind_vars => PureMind(said)'
           /\ PureThreads(said) /\ UNCHANGED thread => PureThreads(said)'
           /\ PureDisk(said) /\ UNCHANGED disk => PureDisk(said)'
BY DEF PureTables, PureMind, PureThreads, PureDisk, wm_vars, mind_vars

LEMMA BecomesPure ==
    ASSUME PureThreads(said), UNCHANGED said, thread \in [Thread -> ThreadState],
           NEW t \in Thread, NEW state, Becomes(t, state), PureThread(said, state)
    PROVE  PureThreads(said)'
BY DEF PureThreads, Becomes

-----------------------------------------------------------------------------
(* Every step keeps the mind clean. *)

LEMMA TalkPure ==
    ASSUME TypeOK, Purity, NEW c \in Caller,
           \/ \E scope \in Scope, role \in Role : BeginInteraction(c, scope, role)
           \/ CommitInsights(c)
           \/ RecordInteraction(c)
           \/ \E viewer \in Person \cup {NoOwner} : BuildContext(c, viewer)
    PROVE  Purity'
<1>. USE TypeIsParts DEF TypeParts, Purity
<1>0. c \in Thread /\ PureThread(said, thread[c])
    BY DEF Thread, PureThreads
<1>1. ASSUME NEW scope \in Scope, NEW role \in Role, BeginInteraction(c, scope, role)
      PROVE  Purity'
    <2>. DEFINE wakes == role = "user" /\ candidates # {}
                state == [Idle EXCEPT !.pc = IF wakes THEN "dreaming" ELSE "accepted",
                                      !.scope = scope, !.role = role,
                                      !.todo = IF wakes THEN candidates ELSE {}]
    <2>1. UNCHANGED said
        BY <1>1 DEF BeginInteraction, wm_vars
    <2>2. Pure(said, candidates) /\ Pure(said, {})
        BY DEF PureMind, Pure
    <2>3. PureThread(said, state)
        BY <2>2, IdleType, IdleIsPure DEF PureThread, ThreadState
    <2>4. PureThreads(said)'
        BY <1>0, <1>1, <2>1, <2>3, BecomesPure DEF BeginInteraction
    <2>5. PureMind(said)'
        BY <1>1, <2>1, <2>2 DEF BeginInteraction, PureMind
    <2>. QED
        BY <1>1, <2>1, <2>4, <2>5, KeepsPure DEF BeginInteraction
<1>2. ASSUME CommitInsights(c)
      PROVE  Purity'
    <2>1. UNCHANGED said
        BY <1>2 DEF CommitInsights, wm_vars
    <2>2. Pure(said, thread[c].todo)
        BY <1>0 DEF PureThread
    <2>3. PICK valid \in SUBSET thread[c].todo :
              memory_store' = memory_store \cup
                  {[kind |-> "insight", scope |-> i.scope, src |-> i.src, batch |-> 0,
                    origin |-> c] : i \in valid}
        BY <1>2 DEF CommitInsights
    <2>4. PureStore(said, memory_store')
        BY <2>2, <2>3 DEF PureMind, PureStore, Pure, Own
    <2>5. PureMind(said)'
        BY <1>2, <2>1, <2>4 DEF CommitInsights, PureMind
    <2>6. PureThread(said, [thread[c] EXCEPT !.pc = "accepted", !.todo = {}])
        BY <1>0 DEF PureThread, Pure, ThreadState
    <2>7. PureThreads(said)'
        BY <1>0, <1>2, <2>1, <2>6, BecomesPure DEF CommitInsights
    <2>. QED
        BY <1>2, <2>1, <2>5, <2>7, KeepsPure DEF CommitInsights
<1>3. ASSUME RecordInteraction(c)
      PROVE  Purity'
    <2>. DEFINE scope == thread[c].scope
                row == [id |-> Len(said) + 1, scope |-> scope,
                        session |-> session_id, done |-> FALSE]
    <2>1. scope \in Scope
        BY <1>0 DEF ThreadState
    <2>2. said' = Append(said, scope) /\ rows' = rows \cup {row}
        BY <1>3 DEF RecordInteraction, AddInteraction
    <2>3. /\ \A m \in DOMAIN said : m \in DOMAIN said' /\ said'[m] = said[m]
          /\ row.id \in DOMAIN said' /\ said'[row.id] = scope
        BY <2>1, <2>2 DEF WMTypeOK
    <2>4. PureTables(said')
        BY <2>3, LongerHistory DEF PureTables
    <2>5. Recorded(said', rows')
        BY <2>2, <2>3, <2>4 DEF PureTables, Recorded
    <2>6. PureTables(said)'
        BY <1>3, <2>4, <2>5 DEF PureTables, RecordInteraction, AddInteraction
    <2>7. PureMind(said') /\ PureDisk(said') /\ PureThreads(said')
        BY <2>3, LongerHistory DEF PureMind, PureDisk, PureThreads
    <2>8. PureMind(said)' /\ PureDisk(said)'
        BY <1>3, <2>7 DEF RecordInteraction, PureMind, PureDisk
    <2>9. PureThreads(said)'
        BY <1>0, <1>3, <2>7, IdleIsPure DEF RecordInteraction, Becomes, PureThreads
    <2>. QED
        BY <2>6, <2>8, <2>9
<1>4. ASSUME NEW viewer \in Person \cup {NoOwner}, BuildContext(c, viewer)
      PROVE  Purity'
    <2>1. UNCHANGED said
        BY <1>4 DEF BuildContext, wm_vars
    <2>2. PureNotes(said, pending_notes')
        BY <1>4 DEF BuildContext, PureMind, PureNotes, MindTypeOK
    <2>3. PureMind(said)'
        BY <1>4, <2>1, <2>2 DEF BuildContext, PureMind
    <2>. QED
        BY <1>4, <2>1, <2>3, KeepsPure DEF BuildContext
<1>. QED
    BY <1>1, <1>2, <1>3, <1>4

LEMMA CheckpointPure ==
    ASSUME TypeOK, Purity, NEW t \in Thread,
           \/ TakeTask(t) \/ ForceSave(t)
           \/ FinishCheckpoint(t) \/ AbortCheckpoint(t)
           \/ SelectPending(t) \/ MarkSelected(t) \/ FinishForceSave(t)
    PROVE  Purity'
<1>. USE TypeIsParts DEF TypeParts, Purity
<1>0. thread[t] \in ThreadState /\ PureThread(said, thread[t])
    BY DEF PureThreads
<1>. DEFINE begun == [Idle EXCEPT !.pc = IF Unmarked = {} THEN "select" ELSE "summarise",
                                  !.read = Unmarked]
<1>a. PureThread(said, begun)
    BY IdleType, IdleIsPure DEF PureThread, ThreadState, PureTables, Recorded, Unmarked
<1>1. CASE TakeTask(t)
    <2>1. UNCHANGED said /\ Becomes(t, IF Head(queue) = "stop" THEN Off ELSE begun)
        BY <1>1 DEF TakeTask, wm_vars
    <2>2. PureThreads(said)'
        BY <2>1, <1>a, IdleIsPure, BecomesPure
    <2>3. PureMind(said)'
        BY <1>1, <2>1 DEF TakeTask, PureMind
    <2>. QED
        BY <1>1, <2>1, <2>2, <2>3, KeepsPure DEF TakeTask
<1>2. CASE ForceSave(t)
    <2>1. UNCHANGED said /\ Becomes(t, begun)
        BY <1>2 DEF ForceSave, ExceedThreshold
    <2>2. PureThreads(said)'
        BY <2>1, <1>a, BecomesPure
    <2>3. PureTables(said)'
        BY <1>2 DEF ForceSave, ExceedThreshold, PureTables
    <2>. QED
        BY <1>2, <2>1, <2>2, <2>3, KeepsPure DEF ForceSave
<1>3. CASE FinishCheckpoint(t)
    <2>. DEFINE read == thread[t].read
    <2>1. UNCHANGED said /\ WriteCheckpoint(read)
        BY <1>3 DEF FinishCheckpoint, WriteCheckpoint
    <2>2. Own(said, Summaries(read, checkpoints))
        BY <1>0, SummariesOwn DEF PureThread
    <2>3. Own(said, pending')
        BY <2>1, <2>2 DEF WriteCheckpoint, PureTables, Own
    <2>4. ASSUME NEW r \in rows'
          PROVE  \E q \in rows : r.id = q.id /\ r.scope = q.scope
        BY <2>1 DEF WriteCheckpoint, WMTypeOK, Row
    <2>5. Recorded(said, rows')
        BY <2>4 DEF PureTables, Recorded
    <2>6. PureTables(said)'
        BY <2>1, <2>3, <2>5 DEF PureTables, WriteCheckpoint
    <2>7. PureThread(said, [thread[t] EXCEPT !.pc = "select"])
        BY <1>0 DEF PureThread, ThreadState
    <2>8. PureThreads(said)'
        BY <1>3, <2>1, <2>7, BecomesPure DEF FinishCheckpoint
    <2>. QED
        BY <1>3, <2>1, <2>6, <2>8, KeepsPure DEF FinishCheckpoint
<1>4. CASE AbortCheckpoint(t)
    <2>1. UNCHANGED said
        BY <1>4 DEF AbortCheckpoint, wm_vars
    <2>2. PureThreads(said)'
        BY <1>4, <2>1, IdleIsPure, BecomesPure DEF AbortCheckpoint
    <2>. QED
        BY <1>4, <2>1, <2>2, KeepsPure DEF AbortCheckpoint
<1>5. CASE SelectPending(t)
    <2>1. UNCHANGED said
        BY <1>5 DEF SelectPending, wm_vars
    <2>2. Own(said, pending) /\ Pure(said, pending)
        BY OwnIsPure DEF PureTables, WMTypeOK, PendingMemory
    <2>3. PureThread(said, [thread[t] EXCEPT !.pc = "mark", !.todo = pending])
        BY <1>0, <2>2 DEF PureThread, ThreadState
    <2>4. PureThreads(said)'
        BY <1>5, <2>1, <2>3, BecomesPure DEF SelectPending
    <2>. QED
        BY <1>5, <2>1, <2>4, KeepsPure DEF SelectPending
<1>6. CASE MarkSelected(t)
    <2>1. UNCHANGED said
        BY <1>6 DEF MarkSelected, MarkFlushed
    <2>2. PureTables(said)'
        BY <1>6, <2>1 DEF MarkSelected, MarkFlushed, PureTables, Own
    <2>3. thread[t].pc = "mark"
        BY <1>6 DEF MarkSelected, At
    <2>4. PureThread(said, [thread[t] EXCEPT !.pc = "add", !.read = {}])
        BY <1>0, <2>3 DEF PureThread, ThreadState, Recorded
    <2>5. Becomes(t, IF t \in Worker /\ thread[t].read = {} THEN Idle
                     ELSE [thread[t] EXCEPT !.pc = "add", !.read = {}])
        BY <1>6 DEF MarkSelected
    <2>6. PureThreads(said)'
        BY <2>1, <2>4, <2>5, IdleIsPure, BecomesPure
    <2>. QED
        BY <1>6, <2>1, <2>2, <2>6, KeepsPure DEF MarkSelected
<1>7. CASE FinishForceSave(t)
    <2>1. UNCHANGED said
        BY <1>7 DEF FinishForceSave, wm_vars
    <2>2. PureThread(said, [Idle EXCEPT !.pc = "save"])
        BY IdleType, IdleIsPure DEF PureThread, ThreadState
    <2>3. PureThreads(said)'
        BY <1>7, <2>1, <2>2, BecomesPure DEF FinishForceSave
    <2>. QED
        BY <1>7, <2>1, <2>3, KeepsPure DEF FinishForceSave
<1>. QED
    BY <1>1, <1>2, <1>3, <1>4, <1>5, <1>6, <1>7

LEMMA OutcomePure ==
    ASSUME TypeOK, Purity, NEW t \in Thread, NEW pm \in thread[t].todo,
           Integrate(t, pm) \/ Absorb(t, pm) \/ Contradict(t, pm)
    PROVE  Purity'
<1>. USE TypeIsParts DEF TypeParts, Purity
<1>0. /\ thread[t] \in ThreadState
      /\ PureThread(said, thread[t])
      /\ pm.scope \in Scope
    BY DEF PureThreads, ThreadState, PendingMemory
<1>1. PICK notes : /\ notes \subseteq thread[t].notes \cup {pm}
                   /\ Decide(t, pm, notes)
    BY DEF Integrate, Absorb, Contradict
<1>2. UNCHANGED <<said, rows, pending, flushed, pending_notes, candidates, narrative, disk>>
    BY <1>1 DEF Decide, wm_vars
<1>3. Own(said, thread[t].todo)
    BY <1>0, <1>1 DEF Decide, At, PureThread
<1>4. Own(said, thread[t].todo \ {pm}) /\ Own(said, notes) /\ Pure(said, thread[t].todo \ {pm})
    BY <1>0, <1>1, <1>3 DEF PureThread, Own, Pure
<1>5. PureThread(said, [thread[t] EXCEPT !.todo = @ \ {pm}, !.notes = notes])
    BY <1>0, <1>4 DEF PureThread, ThreadState
<1>6. PureThreads(said)'
    BY <1>1, <1>2, <1>5, BecomesPure DEF Decide
<1>7. PureStore(said, memory_store')
    <2>1. CASE memory_store' = memory_store
        BY <2>1 DEF PureMind
    <2>2. CASE Integrate(t, pm)
        <3>. DEFINE r == [kind |-> "episode", scope |-> pm.scope, src |-> pm.src,
                          batch |-> pm.batch, origin |-> t]
        <3>1. memory_store' = memory_store \cup {r}
            BY <2>2 DEF Integrate
        <3>2. Own(said, {r}) /\ Pure(said, {r})
            BY <1>0, <1>3, OwnIsPure DEF Own
        <3>. QED
            BY <3>1, <3>2 DEF PureMind, PureStore, Pure, Own
    <2>. QED
        BY <2>1, <2>2 DEF Absorb, Contradict, Dismiss
<1>8. PureMind(said)'
    BY <1>2, <1>7 DEF PureMind
<1>9. PureTables(said)'
    BY <1>2 DEF PureTables
<1>. QED
    BY <1>2, <1>6, <1>8, <1>9, KeepsPure

LEMMA ReflectionPure ==
    ASSUME TypeOK, Purity, NEW w \in Thread,
           BeginReflection(w) \/ FinishReflection(w) \/ PostNotes(w)
    PROVE  Purity'
<1>. USE TypeIsParts DEF TypeParts, Purity
<1>0. thread[w] \in ThreadState /\ PureThread(said, thread[w])
    BY DEF PureThreads
<1>1. CASE BeginReflection(w)
    <2>1. UNCHANGED said
        BY <1>1 DEF BeginReflection, wm_vars
    <2>2. PICK changed \in SUBSET {[kind |-> "reflection", scope |-> Commons, src |-> {},
                                    batch |-> 0, origin |-> w]} :
              memory_store' = memory_store \cup changed
        BY <1>1 DEF BeginReflection
    <2>3. PureStore(said, memory_store')
        BY <2>2 DEF PureMind, PureStore, Pure, Own, Fit
    <2>4. PureMind(said)'
        BY <1>1, <2>1, <2>3 DEF BeginReflection, PureMind
    <2>5. Open(said, Sources(Public(memory_store))) /\ Open(said, narrative)
        BY PublicIsOpen DEF PureMind, PureStore
    <2>6. ASSUME NEW text \in {Sources(Public(memory_store)), narrative}
          PROVE  PureThread(said, [thread[w] EXCEPT !.pc = "reflect", !.view = text])
        BY <1>0, <2>5 DEF PureThread, ThreadState
    <2>7. PureThreads(said)'
        BY <1>1, <2>1, <2>6, BecomesPure DEF BeginReflection
    <2>. QED
        BY <1>1, <2>1, <2>4, <2>7, KeepsPure DEF BeginReflection
<1>2. CASE FinishReflection(w)
    <2>. DEFINE r == [kind |-> "reflection", scope |-> Commons, src |-> thread[w].view,
                      batch |-> 0, origin |-> w]
    <2>1. UNCHANGED said /\ memory_store' = memory_store \cup {r}
        BY <1>2 DEF FinishReflection, wm_vars
    <2>2. Open(said, thread[w].view)
        BY <1>0 DEF PureThread
    <2>3. PureStore(said, memory_store')
        BY <2>1, <2>2 DEF PureMind, PureStore, Pure, Own, Fit, Open
    <2>4. PureMind(said)'
        BY <1>2, <2>1, <2>2, <2>3 DEF FinishReflection, PureMind
    <2>5. PureThread(said, [thread[w] EXCEPT !.pc = "post", !.view = {}])
        BY <1>0 DEF PureThread, ThreadState, Open
    <2>6. PureThreads(said)'
        BY <1>2, <2>1, <2>5, BecomesPure DEF FinishReflection
    <2>. QED
        BY <1>2, <2>1, <2>4, <2>6, KeepsPure DEF FinishReflection
<1>3. CASE PostNotes(w)
    <2>1. UNCHANGED said
        BY <1>3 DEF PostNotes, wm_vars
    <2>2. ASSUME NEW o \in Person \cup {NoOwner},
                 NEW m \in Sources({pm \in thread[w].notes : pm.scope.owner = o})
          PROVE  m \in DOMAIN said /\ said[m].owner = o
        BY <1>0 DEF PureThread, Own, Sources
    <2>3. PureNotes(said, pending_notes')
        BY <1>3, <2>2 DEF PostNotes, PureMind, PureNotes, MindTypeOK
    <2>4. PureMind(said)'
        BY <1>3, <2>1, <2>3 DEF PostNotes, PureMind
    <2>5. PureThreads(said)'
        BY <1>3, <2>1, IdleIsPure, BecomesPure DEF PostNotes
    <2>. QED
        BY <1>3, <2>1, <2>4, <2>5, KeepsPure DEF PostNotes
<1>. QED
    BY <1>1, <1>2, <1>3

LEMMA SavePure ==
    ASSUME TypeOK, Purity, NEW c \in Caller,
           TakeSnapshot(c) \/ WriteFile(c) \/ AbortWrite(c)
    PROVE  Purity'
<1>. USE TypeIsParts DEF TypeParts, Purity
<1>0. /\ c \in Thread
      /\ thread[c] \in ThreadState
      /\ PureThread(said, thread[c])
    BY DEF Thread, PureThreads
<1>1. CASE TakeSnapshot(c)
    <2>. DEFINE snapshot == [memory_store |-> memory_store, is_frozen |-> is_frozen,
                             narrative |-> narrative]
    <2>1. UNCHANGED said
        BY <1>1 DEF TakeSnapshot, wm_vars
    <2>2. PureStore(said, snapshot.memory_store) /\ Open(said, snapshot.narrative)
        BY DEF PureMind
    <2>3. PureThread(said, [thread[c] EXCEPT !.pc = "write", !.saved = snapshot])
        BY <1>0, <2>2 DEF PureThread, ThreadState
    <2>4. PureThreads(said)'
        BY <1>0, <1>1, <2>1, <2>3, BecomesPure DEF TakeSnapshot
    <2>. QED
        BY <1>1, <2>1, <2>4, KeepsPure DEF TakeSnapshot
<1>2. CASE WriteFile(c)
    <2>1. UNCHANGED said
        BY <1>2 DEF WriteFile, wm_vars
    <2>2. PureDisk(said)'
        BY <1>0, <1>2, <2>1 DEF WriteFile, PureDisk, PureThread
    <2>3. PureThreads(said)'
        BY <1>0, <1>2, <2>1, IdleIsPure, BecomesPure DEF WriteFile
    <2>. QED
        BY <1>2, <2>1, <2>2, <2>3, KeepsPure DEF WriteFile
<1>3. CASE AbortWrite(c)
    <2>1. UNCHANGED said
        BY <1>3 DEF AbortWrite, wm_vars
    <2>2. PureThreads(said)'
        BY <1>0, <1>3, <2>1, IdleIsPure, BecomesPure DEF AbortWrite
    <2>. QED
        BY <1>3, <2>1, <2>2, KeepsPure DEF AbortWrite
<1>. QED
    BY <1>1, <1>2, <1>3

\* A store that only shrinks stays clean.
LEMMA SmallerStore ==
    ASSUME NEW h, NEW store, PureStore(h, store), NEW smaller, smaller \subseteq store
    PROVE  PureStore(h, smaller)
BY DEF PureStore, Pure, Own

LEMMA ControlPure ==
    ASSUME TypeOK, Purity, NEW c \in Caller,
           \/ \E p \in Person : DeleteOwnerData(c, p)
           \/ CognitiveShutdown(c) \/ SoftReset(c)
           \/ \E frozen \in BOOLEAN : SetFrozen(c, frozen)
    PROVE  Purity'
<1>. USE TypeIsParts DEF TypeParts, Purity
<1>0. /\ c \in Thread
      /\ PureThread(said, [Idle EXCEPT !.pc = "save"])
    BY IdleType, IdleIsPure DEF Thread, PureThread, ThreadState
<1>1. ASSUME NEW p \in Person, DeleteOwnerData(c, p)
      PROVE  Purity'
    <2>. DEFINE state == [Idle EXCEPT !.pc = "save",
                              !.erasing = IF Undisturbed(c, p) THEN Of(p) ELSE {}]
    <2>1. UNCHANGED said
        BY <1>1 DEF DeleteOwnerData, DeleteOwner
    <2>2. PureTables(said)'
        BY <1>1, <2>1 DEF DeleteOwnerData, DeleteOwner, PureTables, Recorded, Own
    <2>3. PureStore(said, memory_store')
        BY <1>1, SmallerStore DEF DeleteOwnerData, PureMind
    <2>4. PureNotes(said, pending_notes')
        BY <1>1 DEF DeleteOwnerData, PureMind, PureNotes, MindTypeOK
    <2>5. PureMind(said)'
        BY <1>1, <2>1, <2>3, <2>4 DEF DeleteOwnerData, PureMind
    <2>6. PureThread(said, state)
        BY IdleType, IdleIsPure DEF PureThread, ThreadState
    <2>7. PureThreads(said)'
        BY <1>0, <1>1, <2>1, <2>6, BecomesPure DEF DeleteOwnerData
    <2>. QED
        BY <1>1, <2>1, <2>2, <2>5, <2>7, KeepsPure DEF DeleteOwnerData
<1>2. CASE CognitiveShutdown(c)
    <2>1. UNCHANGED said
        BY <1>2 DEF CognitiveShutdown, wm_vars
    <2>2. PureStore(said, memory_store')
        BY <1>2, SmallerStore DEF CognitiveShutdown, PureMind, AbsoluteCores
    <2>3. PureMind(said)'
        BY <1>2, <2>1, <2>2 DEF CognitiveShutdown, PureMind
    <2>4. PureThreads(said)'
        BY <1>0, <1>2, <2>1, BecomesPure DEF CognitiveShutdown
    <2>. QED
        BY <1>2, <2>1, <2>3, <2>4, KeepsPure DEF CognitiveShutdown
<1>3. CASE SoftReset(c)
    <2>1. UNCHANGED said
        BY <1>3 DEF SoftReset, ClearSession
    <2>2. PureTables(said)'
        BY <1>3 DEF SoftReset, ClearSession, PureTables, Recorded, Own
    <2>3. PureStore(said, memory_store')
        BY <1>3, SmallerStore DEF SoftReset, PureMind, AbsoluteCores
    <2>4. PureMind(said)'
        BY <1>3, <2>1, <2>3 DEF SoftReset, PureMind, Pure, PureNotes, Open, MindTypeOK
    <2>5. PureThreads(said)'
        BY <1>0, <1>3, <2>1, IdleIsPure DEF SoftReset, PureThreads, Thread
    <2>. QED
        BY <1>3, <2>1, <2>2, <2>4, <2>5, KeepsPure DEF SoftReset
<1>4. ASSUME NEW frozen \in BOOLEAN, SetFrozen(c, frozen)
      PROVE  Purity'
    <2>1. UNCHANGED said
        BY <1>4 DEF SetFrozen, wm_vars
    <2>2. PureMind(said)'
        BY <1>4, <2>1 DEF SetFrozen, PureMind
    <2>3. PureThreads(said)'
        BY <1>0, <1>4, <2>1, BecomesPure DEF SetFrozen
    <2>. QED
        BY <1>4, <2>1, <2>2, <2>3, KeepsPure DEF SetFrozen
<1>. QED
    BY <1>1, <1>2, <1>3, <1>4

LEMMA StartPure ==
    ASSUME TypeOK, Purity, NEW file \in Snapshot, Start(file),
           PureStore(said, file.memory_store), Open(said, file.narrative)
    PROVE  Purity'
<1>. USE TypeIsParts DEF TypeParts, Purity
<1>1. UNCHANGED said /\ UNCHANGED <<rows, pending, flushed, disk>>
    BY DEF Start, Reopen
<1>2. PureTables(said)'
    BY <1>1 DEF PureTables
<1>3. PureStore(said, memory_store')
    BY GenesisPure DEF Start
<1>4. Pure(said, candidates')
    <2>1. file.memory_store \cup Genesis \subseteq MemoryRecord
        BY GenesisType DEF Snapshot
    <2>2. Pure(said, Insights(file.memory_store \cup Genesis))
        BY <1>3, <2>1, InsightsPure DEF Start, PureStore
    <2>. QED
        BY <2>2 DEF Start, Pure
<1>5. PureNotes(said, pending_notes')
    BY DEF Start, PureNotes, MindTypeOK
<1>6. PureMind(said)'
    BY <1>1, <1>3, <1>4, <1>5 DEF Start, PureMind
<1>7. PureThreads(said)'
    BY <1>1, IdleIsPure DEF Start, PureThreads
<1>. QED
    BY <1>1, <1>2, <1>6, <1>7, KeepsPure

LEMMA RestartPure ==
    ASSUME TypeOK, Purity, Restart \/ RestartAfresh
    PROVE  Purity'
<1>1. CASE Restart
    BY <1>1, StartPure DEF Restart, TypeOK, Purity, PureDisk
<1>2. CASE RestartAfresh
    <2>1. PICK file \in HalfLoaded : Start(file)
        BY <1>2 DEF RestartAfresh
    <2>2. /\ file \in Snapshot /\ file.narrative = {}
          /\ file.memory_store \subseteq disk.memory_store
        BY <2>1, HalfLoadedIsPart DEF TypeOK
    <2>3. PureStore(said, file.memory_store) /\ Open(said, file.narrative)
        BY <2>2 DEF Purity, PureDisk, PureStore, Pure, Own, Open
    <2>. QED
        BY <2>1, <2>2, <2>3, StartPure
<1>. QED
    BY <1>1, <1>2

-----------------------------------------------------------------------------
(* The privacy theorems *)

LEMMA InitPure == Init => Purity
<1>. SUFFICES ASSUME Init PROVE Purity
    OBVIOUS
<1>1. PureTables(said)
    BY DEF Init, WMInit, PureTables, Recorded, Own
<1>2. PureMind(said)
    BY DEF Init, PureMind, PureStore, Genesis, Pure, Own, Fit, PureNotes, Open
<1>3. PureThreads(said)
    BY IdleIsPure DEF Init, PureThreads
<1>4. PureDisk(said)
    BY DEF Init, NoFile, PureDisk, PureStore, Pure, Own, Open
<1>. QED
    BY <1>1, <1>2, <1>3, <1>4 DEF Purity

\* Nothing anywhere in the mind is made of messages its scope does not allow.
THEOREM PurityHolds == Spec => []Purity
<1>1. TypeOK /\ Purity /\ [Next]_vars => Purity'
    <2>. SUFFICES ASSUME TypeOK, Purity, [Next]_vars PROVE Purity'
        OBVIOUS
    <2>1. ASSUME NEW w \in Worker, WorkerStep(w)
          PROVE  Purity'
        <3>1. w \in Thread
            BY DEF Thread
        <3>. QED
            BY <2>1, <3>1, CheckpointPure, OutcomePure, ReflectionPure DEF WorkerStep
    <2>2. ASSUME NEW c \in Caller, CallerStep(c)
          PROVE  Purity'
        <3>1. c \in Thread
            BY DEF Thread
        <3>. QED
            BY <2>2, <3>1, TalkPure, CheckpointPure, OutcomePure, SavePure DEF CallerStep
    <2>3. ASSUME NEW c \in Caller, Call(c)
          PROVE  Purity'
        <3>1. c \in Thread
            BY DEF Thread
        <3>. QED
            BY <2>3, <3>1, TalkPure, CheckpointPure, ControlPure DEF Call
    <2>4. CASE UNCHANGED vars
        BY <2>4, KeepsPure DEF vars, wm_vars, mind_vars, Purity
    <2>. QED
        BY <2>1, <2>2, <2>3, <2>4, CheckpointPure, SavePure, RestartPure DEF Next
<1>. QED
    BY <1>1, InitPure, TypeCorrect, PTL DEF Spec

\* What the language model is shown while the mind talks with a person was
\* said in public or by that person.
THEOREM PrivacyHolds == Spec => []NeverToldToOthers
<1>1. Purity => NeverToldToOthers
    <2>. SUFFICES ASSUME Purity, NEW p \in Person, NEW m \in Context(p)
                  PROVE  MayHear(p, m)
        BY DEF NeverToldToOthers
    <2>. USE DEF Purity, MayHear
    <2>1. CASE m \in pending_notes[p]
        BY <2>1 DEF PureMind, PureNotes
    <2>2. CASE m \in {r.id : r \in {x \in rows : x.session = session_id /\ x.scope.owner = p}}
        BY <2>2 DEF PureTables, Recorded
    <2>3. CASE m \in Sources({r \in memory_store : VisibleTo(r.scope, p)})
        BY <2>3 DEF Sources, VisibleTo, PureMind, PureStore, Pure, Fit
    <2>4. CASE m \in narrative
        BY <2>4 DEF PureMind, Open
    <2>. QED
        BY <2>1, <2>2, <2>3, <2>4 DEF Context
<1>. QED
    BY <1>1, PurityHolds, PTL

\* A summary and the memory made of it hold messages of their own scope only.
THEOREM ScopesStayApart == Spec => []ScopesNeverMerge
<1>1. Purity => ScopesNeverMerge
    BY DEF Purity, PureTables, PureMind, PureStore, Own, ScopesNeverMerge, Episodes
<1>. QED
    BY <1>1, PurityHolds, PTL

-----------------------------------------------------------------------------
(***************************************************************************)
(* Erasure.  From the moment a quiet erasure has emptied the tables and    *)
(* the store until the file has followed, and ever after, no place from    *)
(* which a step could bring a message m back to its owner p holds it.      *)
(***************************************************************************)

CleanStore(S, p, m) == \A r \in S : Recalls(r, p) => m \notin r.src

\* What a thread may yet write down.  A dream candidate becomes an insight,
\* which counts as the owner's memory only when it is private.
CleanThread(state, p, m) ==
    /\ \A r \in state.read : r.id # m
    /\ \A x \in state.todo :
           x.scope.owner = p /\ (state.pc # "dreaming" \/ x.scope.vis = "private")
               => m \notin x.src
    /\ \A x \in state.notes : x.scope.owner = p => m \notin x.src
    /\ CleanStore(state.saved.memory_store, p, m)

CleanTables(m) ==
    /\ \A r \in rows : r.id # m
    /\ \A x \in pending \cup flushed : m \notin x.src
CleanMind(p, m) ==
    /\ CleanStore(memory_store, p, m)
    /\ m \notin pending_notes[p]
    /\ \A x \in candidates : x.scope.owner = p /\ x.scope.vis = "private" => m \notin x.src
CleanThreads(p, m) == \A t \in Thread : CleanThread(thread[t], p, m)

Clean(p, m) == CleanTables(m) /\ CleanMind(p, m) /\ CleanThreads(p, m)

\* m is being erased, or has been.
Leaving(m) == m \in gone \/ \E t \in Thread : m \in thread[t].erasing

\* The inductive invariant.
Erasure ==
    /\ \A m \in Message : Leaving(m) =>
           /\ m \in DOMAIN said
           /\ said[m].owner \in Person
           /\ \A p \in Person : said[m].owner = p => Clean(p, m)
    /\ \A m \in gone : CleanStore(disk.memory_store, said[m].owner, m)

LEMMA IdleIsClean ==
    ASSUME NEW p, NEW m
    PROVE  /\ CleanThread(Idle, p, m) /\ CleanThread(Off, p, m)
           /\ CleanThread([Idle EXCEPT !.pc = "save"], p, m)
           /\ Idle.erasing = {} /\ Off.erasing = {}
<1>1. CleanStore(NoFile.memory_store, p, m)
    BY DEF NoFile, CleanStore
<1>2. ASSUME NEW s \in {Idle, Off, [Idle EXCEPT !.pc = "save"]}
      PROVE  s.read = {} /\ s.todo = {} /\ s.notes = {} /\ s.saved = NoFile /\ s.erasing = {}
    BY DEF Idle, Off
<1>. QED
    BY <1>1, <1>2 DEF CleanThread

LEMMA KeepsClean ==
    ASSUME NEW p, NEW m
    PROVE  /\ CleanTables(m) /\ UNCHANGED wm_vars => CleanTables(m)'
           /\ CleanMind(p, m) /\ UNCHANGED mind_vars => CleanMind(p, m)'
           /\ CleanThreads(p, m) /\ UNCHANGED thread => CleanThreads(p, m)'
BY DEF CleanTables, CleanMind, CleanThreads, wm_vars, mind_vars

LEMMA BecomesClean ==
    ASSUME NEW p, NEW m, CleanThreads(p, m), thread \in [Thread -> ThreadState],
           NEW t \in Thread, NEW state, Becomes(t, state), CleanThread(state, p, m)
    PROVE  CleanThreads(p, m)'
BY DEF CleanThreads, Becomes

LEMMA TalkClean ==
    ASSUME TypeOK, NEW c \in Caller, NEW p \in Person, NEW m \in DOMAIN said, Clean(p, m),
           \/ \E scope \in Scope, role \in Role : BeginInteraction(c, scope, role)
           \/ CommitInsights(c)
           \/ RecordInteraction(c)
           \/ \E viewer \in Person \cup {NoOwner} : BuildContext(c, viewer)
    PROVE  Clean(p, m)'
<1>. USE TypeIsParts DEF TypeParts, Clean
<1>0. c \in Thread /\ thread[c] \in ThreadState /\ CleanThread(thread[c], p, m)
    BY DEF Thread, CleanThreads
<1>1. ASSUME NEW scope \in Scope, NEW role \in Role, BeginInteraction(c, scope, role)
      PROVE  Clean(p, m)'
    <2>. DEFINE wakes == role = "user" /\ candidates # {}
                state == [Idle EXCEPT !.pc = IF wakes THEN "dreaming" ELSE "accepted",
                                      !.scope = scope, !.role = role,
                                      !.todo = IF wakes THEN candidates ELSE {}]
    <2>1. /\ state.read = Idle.read /\ state.notes = Idle.notes /\ state.saved = Idle.saved
          /\ state.todo = IF wakes THEN candidates ELSE {}
          /\ state.pc = IF wakes THEN "dreaming" ELSE "accepted"
        BY IdleType DEF ThreadState
    <2>2. CleanThread(state, p, m)
        BY <2>1, IdleIsClean DEF CleanThread, CleanMind
    <2>3. CleanThreads(p, m)'
        BY <1>0, <1>1, <2>2, BecomesClean DEF BeginInteraction
    <2>4. CleanMind(p, m)'
        BY <1>1 DEF BeginInteraction, CleanMind
    <2>. QED
        BY <1>1, <2>3, <2>4, KeepsClean DEF BeginInteraction
<1>2. ASSUME CommitInsights(c)
      PROVE  Clean(p, m)'
    <2>1. thread[c].pc = "dreaming"
        BY <1>2 DEF CommitInsights, At
    <2>2. PICK valid \in SUBSET thread[c].todo :
              memory_store' = memory_store \cup
                  {[kind |-> "insight", scope |-> i.scope, src |-> i.src, batch |-> 0,
                    origin |-> c] : i \in valid}
        BY <1>2 DEF CommitInsights
    <2>3. CleanStore(memory_store', p, m)
        BY <1>0, <2>1, <2>2 DEF CleanMind, CleanStore, CleanThread, Recalls
    <2>4. CleanMind(p, m)'
        BY <1>2, <2>3 DEF CommitInsights, CleanMind
    <2>5. CleanThread([thread[c] EXCEPT !.pc = "accepted", !.todo = {}], p, m)
        BY <1>0 DEF CleanThread, ThreadState
    <2>6. CleanThreads(p, m)'
        BY <1>0, <1>2, <2>5, BecomesClean DEF CommitInsights
    <2>. QED
        BY <1>2, <2>4, <2>6, KeepsClean DEF CommitInsights
<1>3. ASSUME RecordInteraction(c)
      PROVE  Clean(p, m)'
    <2>1. m # Len(said) + 1
        BY DEF WMTypeOK
    <2>2. CleanTables(m)'
        BY <1>3, <2>1 DEF RecordInteraction, AddInteraction, CleanTables
    <2>3. CleanMind(p, m)'
        BY <1>3 DEF RecordInteraction, CleanMind
    <2>4. CleanThreads(p, m)'
        BY <1>0, <1>3, IdleIsClean, BecomesClean DEF RecordInteraction
    <2>. QED
        BY <2>2, <2>3, <2>4
<1>4. ASSUME NEW viewer \in Person \cup {NoOwner}, BuildContext(c, viewer)
      PROVE  Clean(p, m)'
    <2>1. CleanMind(p, m)'
        BY <1>4 DEF BuildContext, CleanMind, MindTypeOK
    <2>. QED
        BY <1>4, <2>1, KeepsClean DEF BuildContext
<1>. QED
    BY <1>1, <1>2, <1>3, <1>4

LEMMA CheckpointClean ==
    ASSUME TypeOK, NEW t \in Thread, NEW p \in Person, NEW m, Clean(p, m),
           \/ TakeTask(t) \/ ForceSave(t)
           \/ FinishCheckpoint(t) \/ AbortCheckpoint(t)
           \/ SelectPending(t) \/ MarkSelected(t) \/ FinishForceSave(t)
    PROVE  Clean(p, m)'
<1>. USE TypeIsParts DEF TypeParts, Clean
<1>0. thread[t] \in ThreadState /\ CleanThread(thread[t], p, m)
    BY DEF CleanThreads
<1>. DEFINE begun == [Idle EXCEPT !.pc = IF Unmarked = {} THEN "select" ELSE "summarise",
                                  !.read = Unmarked]
<1>a. CleanThread(begun, p, m)
    <2>1. /\ begun.read = Unmarked /\ begun.todo = Idle.todo /\ begun.notes = Idle.notes
          /\ begun.saved = Idle.saved
        BY IdleType DEF ThreadState
    <2>2. Idle.todo = {}
        BY DEF Idle
    <2>. QED
        BY <2>1, <2>2, IdleIsClean DEF CleanThread, CleanTables, Unmarked
<1>1. CASE TakeTask(t)
    <2>1. Becomes(t, IF Head(queue) = "stop" THEN Off ELSE begun)
        BY <1>1 DEF TakeTask
    <2>2. CleanThreads(p, m)'
        BY <2>1, <1>a, IdleIsClean, BecomesClean
    <2>3. CleanMind(p, m)'
        BY <1>1 DEF TakeTask, CleanMind
    <2>. QED
        BY <1>1, <2>2, <2>3, KeepsClean DEF TakeTask
<1>2. CASE ForceSave(t)
    <2>1. CleanThreads(p, m)'
        BY <1>2, <1>a, BecomesClean DEF ForceSave
    <2>2. CleanTables(m)'
        BY <1>2 DEF ForceSave, ExceedThreshold, CleanTables
    <2>. QED
        BY <1>2, <2>1, <2>2, KeepsClean DEF ForceSave
<1>3. CASE FinishCheckpoint(t)
    <2>. DEFINE read == thread[t].read
    <2>1. WriteCheckpoint(read)
        BY <1>3 DEF FinishCheckpoint
    <2>2. ASSUME NEW x \in Summaries(read, checkpoints)
          PROVE  m \notin x.src
        BY <1>0 DEF Summaries, CleanThread
    <2>3. ASSUME NEW r \in rows'
          PROVE  \E q \in rows : r.id = q.id
        BY <2>1 DEF WriteCheckpoint, WMTypeOK, Row
    <2>4. CleanTables(m)'
        BY <2>1, <2>2, <2>3 DEF WriteCheckpoint, CleanTables
    <2>5. thread[t].pc = "summarise"
        BY <1>3 DEF FinishCheckpoint, At
    <2>6. CleanThread([thread[t] EXCEPT !.pc = "select"], p, m)
        BY <1>0, <2>5 DEF CleanThread, ThreadState
    <2>7. CleanThreads(p, m)'
        BY <1>3, <2>6, BecomesClean DEF FinishCheckpoint
    <2>. QED
        BY <1>3, <2>4, <2>7, KeepsClean DEF FinishCheckpoint
<1>4. CASE AbortCheckpoint(t)
    <2>1. CleanThreads(p, m)'
        BY <1>4, IdleIsClean, BecomesClean DEF AbortCheckpoint
    <2>. QED
        BY <1>4, <2>1, KeepsClean DEF AbortCheckpoint
<1>5. CASE SelectPending(t)
    <2>1. CleanThread([thread[t] EXCEPT !.pc = "mark", !.todo = pending], p, m)
        BY <1>0 DEF CleanThread, CleanTables, ThreadState
    <2>2. CleanThreads(p, m)'
        BY <1>5, <2>1, BecomesClean DEF SelectPending
    <2>. QED
        BY <1>5, <2>2, KeepsClean DEF SelectPending
<1>6. CASE MarkSelected(t)
    <2>1. thread[t].pc = "mark"
        BY <1>6 DEF MarkSelected, At
    <2>2. CleanThread([thread[t] EXCEPT !.pc = "add", !.read = {}], p, m)
        BY <1>0, <2>1 DEF CleanThread, ThreadState
    <2>3. Becomes(t, IF t \in Worker /\ thread[t].read = {} THEN Idle
                     ELSE [thread[t] EXCEPT !.pc = "add", !.read = {}])
        BY <1>6 DEF MarkSelected
    <2>4. CleanThreads(p, m)'
        BY <2>2, <2>3, IdleIsClean, BecomesClean
    <2>5. CleanTables(m)'
        BY <1>6 DEF MarkSelected, MarkFlushed, CleanTables
    <2>. QED
        BY <1>6, <2>4, <2>5, KeepsClean DEF MarkSelected
<1>7. CASE FinishForceSave(t)
    <2>1. CleanThreads(p, m)'
        BY <1>7, IdleIsClean, BecomesClean DEF FinishForceSave
    <2>. QED
        BY <1>7, <2>1, KeepsClean DEF FinishForceSave
<1>. QED
    BY <1>1, <1>2, <1>3, <1>4, <1>5, <1>6, <1>7

LEMMA OutcomeClean ==
    ASSUME TypeOK, NEW t \in Thread, NEW p \in Person, NEW m, Clean(p, m),
           NEW pm \in thread[t].todo,
           Integrate(t, pm) \/ Absorb(t, pm) \/ Contradict(t, pm)
    PROVE  Clean(p, m)'
<1>. USE TypeIsParts DEF TypeParts, Clean
<1>0. thread[t] \in ThreadState /\ CleanThread(thread[t], p, m)
    BY DEF CleanThreads
<1>1. PICK notes : /\ notes \subseteq thread[t].notes \cup {pm}
                   /\ Decide(t, pm, notes)
    BY DEF Integrate, Absorb, Contradict
<1>2. UNCHANGED <<wm_vars, pending_notes, candidates>> /\ thread[t].pc = "add"
    BY <1>1 DEF Decide, At
<1>3. pm.scope.owner = p => m \notin pm.src
    BY <1>0, <1>2 DEF CleanThread
<1>4. CleanThread([thread[t] EXCEPT !.todo = @ \ {pm}, !.notes = notes], p, m)
    BY <1>0, <1>1, <1>3 DEF CleanThread, ThreadState
<1>5. CleanThreads(p, m)'
    BY <1>1, <1>4, BecomesClean DEF Decide
<1>6. CleanStore(memory_store', p, m)
    <2>1. CASE memory_store' = memory_store
        BY <2>1 DEF CleanMind
    <2>2. CASE Integrate(t, pm)
        BY <1>3, <2>2 DEF Integrate, CleanMind, CleanStore, Recalls
    <2>. QED
        BY <2>1, <2>2 DEF Absorb, Contradict, Dismiss
<1>7. CleanMind(p, m)'
    BY <1>2, <1>6 DEF CleanMind
<1>. QED
    BY <1>2, <1>5, <1>7, KeepsClean

LEMMA ReflectionClean ==
    ASSUME TypeOK, NEW w \in Thread, NEW p \in Person, NEW m, Clean(p, m),
           BeginReflection(w) \/ FinishReflection(w) \/ PostNotes(w)
    PROVE  Clean(p, m)'
<1>. USE TypeIsParts DEF TypeParts, Clean
<1>0. thread[w] \in ThreadState /\ CleanThread(thread[w], p, m)
    BY DEF CleanThreads
<1>1. ASSUME NEW r, r.scope = Commons
      PROVE  ~Recalls(r, p)
    BY <1>1, WorkingMemoryAssumption DEF Commons, Recalls
<1>2. CASE BeginReflection(w)
    <2>1. CleanStore(memory_store', p, m)
        BY <1>2 DEF BeginReflection, CleanMind, CleanStore
    <2>2. thread[w].pc = "add"
        BY <1>2 DEF BeginReflection, At
    <2>3. \A text : CleanThread([thread[w] EXCEPT !.pc = "reflect", !.view = text], p, m)
        BY <1>0, <2>2 DEF CleanThread, ThreadState
    <2>4. CleanThreads(p, m)'
        BY <1>2, <2>3, BecomesClean DEF BeginReflection
    <2>5. CleanMind(p, m)'
        BY <1>2, <2>1 DEF BeginReflection, CleanMind
    <2>. QED
        BY <1>2, <2>4, <2>5, KeepsClean DEF BeginReflection
<1>3. CASE FinishReflection(w)
    <2>. DEFINE r == [kind |-> "reflection", scope |-> Commons, src |-> thread[w].view,
                      batch |-> 0, origin |-> w]
    <2>1. memory_store' = memory_store \cup {r} /\ ~Recalls(r, p)
        BY <1>1, <1>3 DEF FinishReflection
    <2>2. CleanStore(memory_store', p, m)
        BY <2>1 DEF CleanMind, CleanStore
    <2>3. thread[w].pc = "reflect"
        BY <1>3 DEF FinishReflection, At
    <2>4. CleanThread([thread[w] EXCEPT !.pc = "post", !.view = {}], p, m)
        BY <1>0, <2>3 DEF CleanThread, ThreadState
    <2>5. CleanThreads(p, m)'
        BY <1>3, <2>4, BecomesClean DEF FinishReflection
    <2>6. CleanMind(p, m)'
        BY <1>3, <2>2 DEF FinishReflection, CleanMind
    <2>. QED
        BY <1>3, <2>5, <2>6, KeepsClean DEF FinishReflection
<1>4. CASE PostNotes(w)
    <2>1. m \notin Sources({pm \in thread[w].notes : pm.scope.owner = p})
        BY <1>0 DEF CleanThread, Sources
    <2>2. m \notin pending_notes'[p]
        BY <1>4, <2>1 DEF PostNotes, CleanMind, MindTypeOK
    <2>3. CleanMind(p, m)'
        BY <1>4, <2>2 DEF PostNotes, CleanMind
    <2>4. CleanThreads(p, m)'
        BY <1>4, IdleIsClean, BecomesClean DEF PostNotes
    <2>. QED
        BY <1>4, <2>3, <2>4, KeepsClean DEF PostNotes
<1>. QED
    BY <1>2, <1>3, <1>4

LEMMA SaveClean ==
    ASSUME TypeOK, NEW c \in Caller, NEW p \in Person, NEW m, Clean(p, m),
           TakeSnapshot(c) \/ WriteFile(c) \/ AbortWrite(c)
    PROVE  Clean(p, m)'
<1>. USE TypeIsParts DEF TypeParts, Clean
<1>0. c \in Thread /\ thread[c] \in ThreadState /\ CleanThread(thread[c], p, m)
    BY DEF Thread, CleanThreads
<1>1. CASE TakeSnapshot(c)
    <2>. DEFINE snapshot == [memory_store |-> memory_store, is_frozen |-> is_frozen,
                             narrative |-> narrative]
    <2>1. CleanStore(snapshot.memory_store, p, m)
        BY DEF CleanMind
    <2>2. thread[c].pc # "dreaming"
        BY <1>1 DEF TakeSnapshot, At
    <2>3. CleanThread([thread[c] EXCEPT !.pc = "write", !.saved = snapshot], p, m)
        BY <1>0, <2>1, <2>2 DEF CleanThread, ThreadState
    <2>4. CleanThreads(p, m)'
        BY <1>0, <1>1, <2>3, BecomesClean DEF TakeSnapshot
    <2>. QED
        BY <1>1, <2>4, KeepsClean DEF TakeSnapshot
<1>2. CASE WriteFile(c) \/ AbortWrite(c)
    <2>1. CleanThreads(p, m)'
        BY <1>0, <1>2, IdleIsClean, BecomesClean DEF WriteFile, AbortWrite
    <2>. QED
        BY <1>2, <2>1, KeepsClean DEF WriteFile, AbortWrite
<1>. QED
    BY <1>1, <1>2

LEMMA SmallerIsClean ==
    ASSUME NEW p, NEW m, NEW S, CleanStore(S, p, m), NEW T, T \subseteq S
    PROVE  CleanStore(T, p, m)
BY DEF CleanStore

LEMMA ControlClean ==
    ASSUME TypeOK, NEW c \in Caller, NEW p \in Person, NEW m, Clean(p, m),
           \/ \E q \in Person : DeleteOwnerData(c, q)
           \/ CognitiveShutdown(c) \/ SoftReset(c)
           \/ \E frozen \in BOOLEAN : SetFrozen(c, frozen)
    PROVE  Clean(p, m)'
<1>. USE TypeIsParts DEF TypeParts, Clean
<1>0. c \in Thread
    BY DEF Thread
<1>1. ASSUME NEW q \in Person, DeleteOwnerData(c, q)
      PROVE  Clean(p, m)'
    <2>. DEFINE state == [Idle EXCEPT !.pc = "save",
                              !.erasing = IF Undisturbed(c, q) THEN Of(q) ELSE {}]
    <2>1. CleanThread(state, p, m)
        BY IdleType, IdleIsClean DEF CleanThread, ThreadState
    <2>2. CleanThreads(p, m)'
        BY <1>0, <1>1, <2>1, BecomesClean DEF DeleteOwnerData
    <2>3. CleanTables(m)'
        BY <1>1 DEF DeleteOwnerData, DeleteOwner, CleanTables
    <2>4. CleanStore(memory_store', p, m)
        BY <1>1, SmallerIsClean DEF DeleteOwnerData, CleanMind
    <2>5. CleanMind(p, m)'
        BY <1>1, <2>4 DEF DeleteOwnerData, CleanMind, MindTypeOK
    <2>. QED
        BY <2>2, <2>3, <2>5
<1>2. CASE CognitiveShutdown(c)
    <2>1. CleanThreads(p, m)'
        BY <1>0, <1>2, IdleIsClean, BecomesClean DEF CognitiveShutdown
    <2>2. CleanStore(memory_store', p, m)
        BY <1>2, SmallerIsClean DEF CognitiveShutdown, AbsoluteCores, CleanMind
    <2>3. CleanMind(p, m)'
        BY <1>2, <2>2 DEF CognitiveShutdown, CleanMind
    <2>. QED
        BY <1>2, <2>1, <2>3, KeepsClean DEF CognitiveShutdown
<1>3. CASE SoftReset(c)
    <2>1. CleanThreads(p, m)'
        BY <1>0, <1>3, IdleIsClean DEF SoftReset, CleanThreads
    <2>2. CleanTables(m)'
        BY <1>3 DEF SoftReset, ClearSession, CleanTables
    <2>3. CleanStore(memory_store', p, m)
        BY <1>3, SmallerIsClean DEF SoftReset, AbsoluteCores, CleanMind
    <2>4. CleanMind(p, m)'
        BY <1>3, <2>3 DEF SoftReset, CleanMind, MindTypeOK
    <2>. QED
        BY <2>1, <2>2, <2>4
<1>4. ASSUME NEW frozen \in BOOLEAN, SetFrozen(c, frozen)
      PROVE  Clean(p, m)'
    <2>1. CleanThreads(p, m)'
        BY <1>0, <1>4, IdleIsClean, BecomesClean DEF SetFrozen
    <2>2. CleanMind(p, m)'
        BY <1>4 DEF SetFrozen, CleanMind
    <2>. QED
        BY <1>4, <2>1, <2>2, KeepsClean DEF SetFrozen
<1>. QED
    BY <1>1, <1>2, <1>3, <1>4

\* The process that starts takes up the tables and the file, and what it dreams
\* of p's private memories is made of them alone.
LEMMA StartClean ==
    ASSUME TypeOK, NEW file, Start(file), NEW p \in Person, NEW m,
           CleanTables(m), CleanStore(file.memory_store, p, m)
    PROVE  Clean(p, m)'
<1>. USE TypeIsParts DEF TypeParts, Clean
<1>1. CleanTables(m)'
    BY DEF Start, Reopen, CleanTables
<1>2. CleanThreads(p, m)'
    BY IdleIsClean DEF Start, CleanThreads
<1>. DEFINE store == file.memory_store \cup Genesis
<1>3. CleanStore(store, p, m)
    BY DEF CleanStore, Genesis
<1>4. ASSUME NEW x \in Insights(store), x.scope.owner = p, x.scope.vis = "private"
      PROVE  m \notin x.src
    <2>1. PICK q \in store \X store :
              /\ SameScopeKey(q[1].scope, q[2].scope)
              /\ x.scope = q[1].scope /\ x.src = q[1].src \cup q[2].src
        BY DEF Insights
    <2>2. Recalls(q[1], p) /\ Recalls(q[2], p)
        BY <1>4, <2>1 DEF SameScopeKey, Recalls
    <2>. QED
        BY <1>3, <2>1, <2>2 DEF CleanStore
<1>5. CleanMind(p, m)'
    BY <1>3, <1>4 DEF Start, CleanMind, MindTypeOK
<1>. QED
    BY <1>1, <1>2, <1>5

\* What an erasure that nobody disturbs leaves behind.
LEMMA EraseClean ==
    ASSUME TypeOK, Purity, NEW c \in Caller, NEW p \in Person, DeleteOwnerData(c, p),
           Undisturbed(c, p), NEW m \in Of(p)
    PROVE  Clean(p, m)'
<1>. USE TypeIsParts DEF TypeParts, Clean, Purity
<1>0. c \in Thread /\ m \in DOMAIN said /\ said[m].owner = p
    BY DEF Thread, Of
<1>1. CleanTables(m)'
    BY <1>0 DEF DeleteOwnerData, DeleteOwner, CleanTables, PureTables, Recorded, Own
<1>2. CleanMind(p, m)'
    <2>1. ASSUME NEW r \in memory_store', Recalls(r, p)
          PROVE  m \notin r.src
        <3>1. r \in memory_store /\ r.kind = "genesis" /\ r.scope.owner = p
            BY <2>1 DEF DeleteOwnerData, Recalls
        <3>2. r \in Genesis
            BY <3>1 DEF MindTypeOK, MemoryRecord
        <3>. QED
            BY <3>2 DEF Genesis
    <2>2. m \notin pending_notes'[p]
        BY DEF DeleteOwnerData, MindTypeOK
    <2>3. ASSUME NEW x \in candidates'
          PROVE  m \notin x.src
        BY DEF DeleteOwnerData, Undisturbed, Sources
    <2>. QED
        BY <2>1, <2>2, <2>3 DEF CleanMind, CleanStore
<1>3. CleanThreads(p, m)'
    <2>1. ASSUME NEW t \in Thread, t # c
          PROVE  CleanThread(thread'[t], p, m)
        <3>1. thread'[t] = thread[t] /\ ~Carries(t, Of(p))
            BY <2>1 DEF DeleteOwnerData, Becomes, Undisturbed
        <3>. QED
            BY <3>1 DEF Carries, CleanThread, CleanStore
    <2>2. thread'[c] = [Idle EXCEPT !.pc = "save", !.erasing = Of(p)]
        BY <1>0 DEF DeleteOwnerData, Becomes
    <2>3. CleanThread([Idle EXCEPT !.pc = "save", !.erasing = Of(p)], p, m)
        BY IdleType, IdleIsClean DEF CleanThread, ThreadState
    <2>. QED
        BY <2>1, <2>2, <2>3 DEF CleanThreads
<1>. QED
    BY <1>1, <1>2, <1>3

-----------------------------------------------------------------------------
(* What is being erased: only an erasure adds to it. *)

Fades == /\ \A t \in Thread : thread'[t].erasing \subseteq thread[t].erasing
         /\ gone' \subseteq gone \cup UNION {thread[t].erasing : t \in Thread}

LEMMA FadesLeaving ==
    ASSUME Fades, NEW m, Leaving(m)' PROVE Leaving(m)
BY DEF Fades, Leaving

LEMMA BecomesFades ==
    ASSUME thread \in [Thread -> ThreadState], NEW t \in Thread, NEW state,
           Becomes(t, state), state.erasing \subseteq thread[t].erasing,
           gone' \subseteq gone \cup thread[t].erasing
    PROVE  Fades
BY DEF Becomes, Fades

LEMMA IdleFades ==
    ASSUME TypeOK, NEW t \in Thread, NEW state \in {Idle, Off, [Idle EXCEPT !.pc = "save"]},
           Becomes(t, state), gone' \subseteq gone \cup thread[t].erasing
    PROVE  Fades
<1>1. state.erasing = {}
    BY DEF Idle, Off
<1>. QED
    BY <1>1, BecomesFades DEF TypeOK

LEMMA WorkFades ==
    ASSUME TypeOK, NEW t \in Thread,
           \/ TakeTask(t) \/ ForceSave(t)
           \/ FinishCheckpoint(t) \/ AbortCheckpoint(t)
           \/ SelectPending(t) \/ MarkSelected(t) \/ FinishForceSave(t)
           \/ \E pm \in thread[t].todo : Integrate(t, pm) \/ Absorb(t, pm) \/ Contradict(t, pm)
           \/ BeginReflection(t) \/ FinishReflection(t) \/ PostNotes(t)
    PROVE  Fades
<1>0. thread[t] \in ThreadState
    BY DEF TypeOK
<1>1. CASE TakeTask(t) \/ ForceSave(t)
    <2>. DEFINE begun == [Idle EXCEPT !.pc = IF Unmarked = {} THEN "select" ELSE "summarise",
                                      !.read = Unmarked]
    <2>1. begun.erasing = {} /\ Off.erasing = {}
        BY DEF Idle, Off
    <2>2. \E state \in {begun, Off} : Becomes(t, state)
        BY <1>1 DEF TakeTask, ForceSave
    <2>3. gone' = gone
        BY <1>1 DEF TakeTask, ForceSave, history
    <2>. QED
        BY <2>1, <2>2, <2>3, BecomesFades DEF TypeOK
<1>2. CASE AbortCheckpoint(t) \/ FinishForceSave(t) \/ PostNotes(t)
    BY <1>2, IdleFades DEF AbortCheckpoint, FinishForceSave, PostNotes, history
<1>3. CASE FinishCheckpoint(t) \/ SelectPending(t) \/ BeginReflection(t) \/ FinishReflection(t)
    <2>1. PICK state :
              /\ Becomes(t, state)
              /\ \/ state = [thread[t] EXCEPT !.pc = "select"]
                 \/ state = [thread[t] EXCEPT !.pc = "mark", !.todo = pending]
                 \/ \E text : state = [thread[t] EXCEPT !.pc = "reflect", !.view = text]
                 \/ state = [thread[t] EXCEPT !.pc = "post", !.view = {}]
        BY <1>3 DEF FinishCheckpoint, SelectPending, BeginReflection, FinishReflection
    <2>2. state.erasing = thread[t].erasing
        BY <1>0, <2>1 DEF ThreadState
    <2>3. gone' = gone
        BY <1>3 DEF FinishCheckpoint, SelectPending, BeginReflection, FinishReflection, history
    <2>. QED
        BY <2>1, <2>2, <2>3, BecomesFades DEF TypeOK
<1>4. CASE MarkSelected(t)
    <2>1. PICK state \in {Idle, [thread[t] EXCEPT !.pc = "add", !.read = {}]} : Becomes(t, state)
        BY <1>4 DEF MarkSelected
    <2>2. /\ Idle.erasing = {}
          /\ [thread[t] EXCEPT !.pc = "add", !.read = {}].erasing = thread[t].erasing
        BY <1>0 DEF ThreadState, Idle
    <2>. QED
        BY <1>4, <2>1, <2>2, BecomesFades DEF TypeOK, MarkSelected, history
<1>5. ASSUME NEW pm \in thread[t].todo,
             Integrate(t, pm) \/ Absorb(t, pm) \/ Contradict(t, pm)
      PROVE  Fades
    <2>1. PICK notes : Decide(t, pm, notes)
        BY <1>5 DEF Integrate, Absorb, Contradict
    <2>2. [thread[t] EXCEPT !.todo = @ \ {pm}, !.notes = notes].erasing = thread[t].erasing
        BY <1>0 DEF ThreadState
    <2>. QED
        BY <2>1, <2>2, BecomesFades DEF TypeOK, Decide
<1>. QED
    BY <1>1, <1>2, <1>3, <1>4, <1>5

LEMMA CallFades ==
    ASSUME TypeOK, NEW c \in Caller,
           \/ \E scope \in Scope, role \in Role : BeginInteraction(c, scope, role)
           \/ CommitInsights(c) \/ RecordInteraction(c)
           \/ \E viewer \in Person \cup {NoOwner} : BuildContext(c, viewer)
           \/ TakeSnapshot(c) \/ WriteFile(c) \/ AbortWrite(c)
           \/ CognitiveShutdown(c) \/ SoftReset(c)
           \/ \E frozen \in BOOLEAN : SetFrozen(c, frozen)
    PROVE  Fades
<1>0. c \in Thread /\ thread[c] \in ThreadState
    BY DEF TypeOK, Thread
<1>1. ASSUME NEW scope \in Scope, NEW role \in Role, BeginInteraction(c, scope, role)
      PROVE  Fades
    <2>. DEFINE wakes == role = "user" /\ candidates # {}
                state == [Idle EXCEPT !.pc = IF wakes THEN "dreaming" ELSE "accepted",
                                      !.scope = scope, !.role = role,
                                      !.todo = IF wakes THEN candidates ELSE {}]
    <2>1. state.erasing = {}
        BY DEF Idle
    <2>2. Becomes(c, state) /\ gone' = gone
        BY <1>1 DEF BeginInteraction, history
    <2>. QED
        BY <1>0, <2>1, <2>2, BecomesFades DEF TypeOK
<1>2. CASE CommitInsights(c) \/ TakeSnapshot(c)
    <2>1. PICK state :
              /\ Becomes(c, state)
              /\ \/ state = [thread[c] EXCEPT !.pc = "accepted", !.todo = {}]
                 \/ state = [thread[c] EXCEPT !.pc = "write",
                                 !.saved = [memory_store |-> memory_store,
                                            is_frozen |-> is_frozen,
                                            narrative |-> narrative]]
        BY <1>2 DEF CommitInsights, TakeSnapshot
    <2>2. state.erasing = thread[c].erasing
        BY <1>0, <2>1 DEF ThreadState
    <2>3. gone' = gone
        BY <1>2 DEF CommitInsights, TakeSnapshot, history
    <2>. QED
        BY <1>0, <2>1, <2>2, <2>3, BecomesFades DEF TypeOK
<1>3. CASE \/ RecordInteraction(c) \/ WriteFile(c) \/ AbortWrite(c) \/ CognitiveShutdown(c)
           \/ \E frozen \in BOOLEAN : SetFrozen(c, frozen)
    BY <1>0, <1>3, IdleFades
       DEF RecordInteraction, WriteFile, AbortWrite, CognitiveShutdown, SetFrozen, history
<1>4. CASE \E viewer \in Person \cup {NoOwner} : BuildContext(c, viewer)
    BY <1>4 DEF BuildContext, history, Fades
<1>5. CASE SoftReset(c)
    <2>1. Idle.erasing = {} /\ [Idle EXCEPT !.pc = "save"].erasing = {}
        BY DEF Idle
    <2>2. PICK w \in Worker :
              thread' = [thread EXCEPT ![w] = Idle, ![c] = [Idle EXCEPT !.pc = "save"]]
        BY <1>5 DEF SoftReset
    <2>3. \A t \in Thread : thread'[t].erasing \subseteq thread[t].erasing
        BY <2>1, <2>2 DEF TypeOK, Thread
    <2>. QED
        BY <1>5, <2>3 DEF SoftReset, Fades
<1>. QED
    BY <1>1, <1>2, <1>3, <1>4, <1>5

-----------------------------------------------------------------------------
(* The erasure theorem *)

\* A message keeps its number and its scope.
LEMMA SaidGrows ==
    ASSUME TypeOK, [Next]_vars
    PROVE  \A m \in DOMAIN said : m \in DOMAIN said' /\ said'[m] = said[m]
<1>1. ASSUME NEW c \in Caller, RecordInteraction(c)
      PROVE  \A m \in DOMAIN said : m \in DOMAIN said' /\ said'[m] = said[m]
    <2>1. said' = Append(said, thread[c].scope) /\ thread[c].scope \in Scope
        BY <1>1 DEF RecordInteraction, AddInteraction, TypeOK, Thread, ThreadState
    <2>. QED
        BY <2>1 DEF TypeOK, WMTypeOK
<1>2. CASE UNCHANGED said
    BY <1>2
<1>3. ASSUME NEW w, WorkerStep(w)
      PROVE  UNCHANGED said
    BY <1>3 DEF WorkerStep, TakeTask, FinishCheckpoint, WriteCheckpoint, SelectPending,
                MarkSelected, MarkFlushed, Decide, Integrate, Absorb, Contradict,
                BeginReflection, FinishReflection, PostNotes, wm_vars
<1>4. ASSUME NEW c \in Caller, CallerStep(c)
      PROVE  UNCHANGED said \/ RecordInteraction(c)
    BY <1>4 DEF CallerStep, CommitInsights, FinishCheckpoint, WriteCheckpoint, SelectPending,
                MarkSelected, MarkFlushed, Decide, Integrate, Absorb, Contradict,
                FinishForceSave, TakeSnapshot, WriteFile, wm_vars
<1>5. ASSUME NEW c, Call(c)
      PROVE  UNCHANGED said
    BY <1>5 DEF Call, BeginInteraction, BuildContext, DeleteOwnerData, DeleteOwner, ForceSave,
                ExceedThreshold, CognitiveShutdown, SoftReset, ClearSession, SetFrozen, wm_vars
<1>6. ASSUME NEW t, AbortCheckpoint(t) \/ AbortWrite(t) \/ UNCHANGED vars
      PROVE  UNCHANGED said
    BY <1>6 DEF AbortCheckpoint, AbortWrite, vars, wm_vars
<1>7. ASSUME Restart \/ RestartAfresh
      PROVE  UNCHANGED said
    BY <1>7 DEF Restart, RestartAfresh, Start, Reopen
<1>. QED
    BY <1>1, <1>2, <1>3, <1>4, <1>5, <1>6, <1>7 DEF Next

\* The steps of a process that goes on.
Going == \/ \E w \in Worker : WorkerStep(w)
         \/ \E c \in Caller : CallerStep(c) \/ Call(c)
         \/ \E t \in Thread : AbortCheckpoint(t)
         \/ \E c \in Caller : AbortWrite(c)

LEMMA GoingClean ==
    ASSUME TypeOK, Going, NEW p \in Person, NEW m \in DOMAIN said, Clean(p, m)
    PROVE  Clean(p, m)'
<1>1. Worker \subseteq Thread /\ Caller \subseteq Thread
    BY DEF Thread
<1>2. ASSUME NEW w \in Worker, WorkerStep(w)
      PROVE  Clean(p, m)'
    BY <1>1, <1>2, CheckpointClean, OutcomeClean, ReflectionClean DEF WorkerStep
<1>3. ASSUME NEW c \in Caller, CallerStep(c)
      PROVE  Clean(p, m)'
    BY <1>1, <1>3, TalkClean, CheckpointClean, OutcomeClean, SaveClean DEF CallerStep
<1>4. ASSUME NEW c \in Caller, Call(c)
      PROVE  Clean(p, m)'
    BY <1>1, <1>4, TalkClean, CheckpointClean, ControlClean DEF Call
<1>. QED
    BY <1>2, <1>3, <1>4, CheckpointClean, SaveClean DEF Going

LEMMA GoingFades ==
    ASSUME TypeOK, Going
    PROVE  Fades \/ \E c \in Caller, p \in Person : DeleteOwnerData(c, p)
<1>1. Worker \subseteq Thread /\ Caller \subseteq Thread
    BY DEF Thread
<1>2. ASSUME NEW w \in Worker, WorkerStep(w)
      PROVE  Fades
    BY <1>1, <1>2, WorkFades DEF WorkerStep
<1>3. ASSUME NEW c \in Caller, CallerStep(c)
      PROVE  Fades
    BY <1>1, <1>3, WorkFades, CallFades DEF CallerStep
<1>4. ASSUME NEW c \in Caller, Call(c)
      PROVE  Fades \/ \E p \in Person : DeleteOwnerData(c, p)
    BY <1>1, <1>4, WorkFades, CallFades DEF Call
<1>. QED
    BY <1>2, <1>3, <1>4, WorkFades, CallFades DEF Going

\* An erasure adds what it erases, and only when nobody disturbs it.
LEMMA EraseLeaving ==
    ASSUME TypeOK, NEW c \in Caller, NEW p \in Person, DeleteOwnerData(c, p),
           NEW m, Leaving(m)'
    PROVE  Leaving(m) \/ (Undisturbed(c, p) /\ m \in Of(p))
<1>. DEFINE erasing == IF Undisturbed(c, p) THEN Of(p) ELSE {}
<1>1. [Idle EXCEPT !.pc = "save", !.erasing = erasing].erasing = erasing
    BY DEF Idle
<1>2. gone' = gone /\ Becomes(c, [Idle EXCEPT !.pc = "save", !.erasing = erasing])
    BY DEF DeleteOwnerData
<1>. HIDE DEF erasing
<1>3. Leaving(m) \/ m \in erasing
    BY <1>1, <1>2 DEF Leaving, Becomes, TypeOK
<1>. QED
    BY <1>3 DEF erasing

\* Only what has been written to the file is gone, and it was written clean.
LEMMA DiskClean ==
    ASSUME TypeOK, Erasure, [Next]_vars, NEW m \in gone'
    PROVE  CleanStore(disk'.memory_store, said[m].owner, m)
<1>1. ASSUME NEW c \in Caller, WriteFile(c)
      PROVE  CleanStore(disk'.memory_store, said[m].owner, m)
    <2>1. c \in Thread /\ disk' = thread[c].saved /\ gone' = gone \cup thread[c].erasing
        BY <1>1 DEF WriteFile, Thread
    <2>2. Leaving(m) /\ m \in Message
        BY <2>1 DEF Leaving, TypeOK, ThreadState
    <2>3. CleanThread(thread[c], said[m].owner, m)
        BY <2>1, <2>2 DEF Erasure, Clean, CleanThreads
    <2>. QED
        BY <2>1, <2>3 DEF CleanThread
<1>2. CASE UNCHANGED <<disk, gone>>
    BY <1>2 DEF Erasure
<1>3. ASSUME NEW w, WorkerStep(w)
      PROVE  UNCHANGED <<disk, gone>>
    BY <1>3 DEF WorkerStep, TakeTask, FinishCheckpoint, SelectPending, MarkSelected, Decide,
                Integrate, Absorb, Contradict, BeginReflection, FinishReflection, PostNotes,
                history
<1>4. ASSUME NEW c, CallerStep(c)
      PROVE  UNCHANGED <<disk, gone>> \/ WriteFile(c)
    BY <1>4 DEF CallerStep, CommitInsights, RecordInteraction, FinishCheckpoint, SelectPending,
                MarkSelected, Decide, Integrate, Absorb, Contradict, FinishForceSave,
                TakeSnapshot, history
<1>5. ASSUME NEW c, Call(c)
      PROVE  UNCHANGED <<disk, gone>>
    BY <1>5 DEF Call, BeginInteraction, BuildContext, DeleteOwnerData, ForceSave,
                CognitiveShutdown, SoftReset, SetFrozen, history
<1>6. ASSUME NEW t, AbortCheckpoint(t) \/ AbortWrite(t) \/ UNCHANGED vars
      PROVE  UNCHANGED <<disk, gone>>
    BY <1>6 DEF AbortCheckpoint, AbortWrite, vars, history
<1>7. ASSUME Restart \/ RestartAfresh
      PROVE  UNCHANGED <<disk, gone>>
    BY <1>7 DEF Restart, RestartAfresh, Start, history
<1>. QED
    BY <1>1, <1>2, <1>3, <1>4, <1>5, <1>6, <1>7 DEF Next

\* After a restart only what was gone before is still to be kept out.
LEMMA RestartErasure ==
    ASSUME TypeOK, Erasure, NEW file, Start(file), file = disk \/ file \in HalfLoaded,
           NEW m \in Message, Leaving(m)'
    PROVE  /\ m \in gone /\ said[m].owner \in Person
           /\ \A p \in Person : said[m].owner = p => Clean(p, m)'
<1>1. m \in gone
    BY IdleIsClean DEF Start, Leaving, history
<1>2. Leaving(m)
    BY <1>1 DEF Leaving
<1>3. said[m].owner \in Person /\ CleanTables(m)
    BY <1>2 DEF Erasure, Clean
<1>4. CleanStore(file.memory_store, said[m].owner, m)
    BY <1>1, HalfLoadedIsPart DEF Erasure, CleanStore, TypeOK
<1>. QED
    BY <1>1, <1>3, <1>4, StartClean

LEMMA ErasureInductive == TypeOK /\ TypeOK' /\ Purity /\ Erasure /\ [Next]_vars => Erasure'
<1>. SUFFICES ASSUME TypeOK, TypeOK', Purity, Erasure, [Next]_vars PROVE Erasure'
    OBVIOUS
<1>1. ASSUME NEW m \in Message, Leaving(m)'
      PROVE  /\ m \in DOMAIN said /\ said[m].owner \in Person
             /\ \A p \in Person : said[m].owner = p => Clean(p, m)'
    <2>1. CASE Going
        <3>1. ASSUME Leaving(m)
              PROVE  /\ m \in DOMAIN said /\ said[m].owner \in Person
                     /\ \A p \in Person : said[m].owner = p => Clean(p, m)'
            BY <2>1, <3>1, GoingClean DEF Erasure
        <3>2. ASSUME NEW c \in Caller, NEW p \in Person, DeleteOwnerData(c, p),
                     Undisturbed(c, p), m \in Of(p)
              PROVE  m \in DOMAIN said /\ said[m].owner = p /\ Clean(p, m)'
            BY <3>2, EraseClean DEF Of
        <3>. QED
            BY <1>1, <2>1, <3>1, <3>2, GoingFades, FadesLeaving, EraseLeaving
    <2>2. ASSUME NEW file, Start(file), file = disk \/ file \in HalfLoaded
          PROVE  /\ m \in DOMAIN said /\ said[m].owner \in Person
                 /\ \A p \in Person : said[m].owner = p => Clean(p, m)'
        <3>1. /\ m \in gone /\ said[m].owner \in Person
              /\ \A p \in Person : said[m].owner = p => Clean(p, m)'
            BY <1>1, <2>2, RestartErasure
        <3>2. Leaving(m)
            BY <3>1 DEF Leaving
        <3>. QED
            BY <3>1, <3>2 DEF Erasure
    <2>3. CASE UNCHANGED vars
        <3>1. Leaving(m)
            BY <1>1, <2>3 DEF Leaving, vars, history
        <3>2. \A p \in Person : Clean(p, m) => Clean(p, m)'
            BY <2>3, KeepsClean DEF vars, Clean, wm_vars, mind_vars
        <3>. QED
            BY <3>1, <3>2 DEF Erasure
    <2>. QED
        BY <2>1, <2>2, <2>3 DEF Next, Going, Restart, RestartAfresh
<1>2. \A m \in DOMAIN said : m \in DOMAIN said' /\ said'[m] = said[m]
    BY SaidGrows
<1>3. ASSUME NEW m \in gone'
      PROVE  CleanStore(disk'.memory_store, said'[m].owner, m)
    <2>1. m \in Message /\ Leaving(m)'
        BY <1>3 DEF Leaving, TypeOK
    <2>. QED
        BY <1>1, <1>2, <2>1, DiskClean
<1>. QED
    BY <1>1, <1>2, <1>3 DEF Erasure

\* Nothing that an undisturbed erasure took comes back to the tables, the notes,
\* the memories or the file of the person who asked for it.
THEOREM QuietErasureHolds == Spec => []QuietErasureIsFinal
<1>1. Init => Erasure
    BY IdleIsClean DEF Init, Erasure, Leaving
<1>2. TypeOK /\ Erasure => QuietErasureIsFinal
    <2>. SUFFICES ASSUME TypeOK, Erasure, NEW p \in Person, NEW m \in gone, said[m].owner = p
                  PROVE  m \notin Held(p)
        BY DEF QuietErasureIsFinal
    <2>1. m \in Message /\ Leaving(m)
        BY DEF TypeOK, Leaving
    <2>2. CleanTables(m) /\ CleanMind(p, m) /\ CleanStore(disk.memory_store, p, m)
        BY <2>1 DEF Erasure, Clean
    <2>. QED
        BY <2>2 DEF Held, Sources, CleanTables, CleanMind, CleanStore
<1>. QED
    BY <1>1, <1>2, ErasureInductive, PurityHolds, TypeCorrect, PTL DEF Spec

-----------------------------------------------------------------------------

\* Every Genesis Anchor survives every step.
THEOREM GenesisSurvives == Spec => []GenesisKept
<1>1. Init => GenesisKept
    BY DEF Init, GenesisKept
<1>2. GenesisKept /\ [Next]_vars => GenesisKept'
    <2>. SUFFICES ASSUME GenesisKept, [Next]_vars,
                         NEW g \in Genesis
                  PROVE  g \in memory_store'
        BY DEF GenesisKept, Genesis
    <2>0. g \in memory_store /\ g.kind = "genesis"
        BY DEF GenesisKept, Genesis
    <2>1. ASSUME NEW w, WorkerStep(w)
          PROVE  g \in memory_store'
        BY <2>0, <2>1
           DEF WorkerStep, TakeTask, FinishCheckpoint, SelectPending, MarkSelected, Decide,
               Integrate, Absorb, Contradict, Dismiss, BeginReflection, FinishReflection,
               PostNotes, mind_vars
    <2>2. ASSUME NEW c, CallerStep(c)
          PROVE  g \in memory_store'
        BY <2>0, <2>2
           DEF CallerStep, CommitInsights, RecordInteraction, FinishCheckpoint,
               SelectPending, MarkSelected, Decide, Integrate, Absorb, Contradict, Dismiss,
               FinishForceSave, TakeSnapshot, WriteFile, mind_vars
    <2>3. ASSUME NEW c, Call(c)
          PROVE  g \in memory_store'
        BY <2>0, <2>3
           DEF Call, BeginInteraction, BuildContext, DeleteOwnerData, ForceSave,
               CognitiveShutdown, SoftReset, SetFrozen, AbsoluteCores, mind_vars
    <2>4. ASSUME NEW t, AbortCheckpoint(t) \/ AbortWrite(t) \/ UNCHANGED vars
          PROVE  g \in memory_store'
        BY <2>0, <2>4 DEF AbortCheckpoint, AbortWrite, vars, mind_vars
    <2>5. ASSUME Restart \/ RestartAfresh
          PROVE  g \in memory_store'
        BY <2>5 DEF Restart, RestartAfresh, Start
    <2>. QED
        BY <2>1, <2>2, <2>3, <2>4, <2>5 DEF Next
<1>. QED
    BY <1>1, <1>2, PTL DEF Spec

-----------------------------------------------------------------------------
(***************************************************************************)
(* One consolidator.  Until a save is forced or a soft reset starts a      *)
(* second worker, the first worker is the only thread that summarises and  *)
(* flushes, and what a step does to its work falls into few cases.         *)
(***************************************************************************)

\* Nothing is spent that was not granted.
Within == \A op \in Operation : budget[op] =< Limit[op]

LEMMA BudgetShrinks ==
    ASSUME TypeOK, [Next]_vars
    PROVE  \A op \in Operation : budget'[op] =< budget[op]
<1>0. budget \in [Operation -> Nat]
    BY DEF TypeOK
<1>1. ASSUME NEW o \in Operation, Spend(o)
      PROVE  \A op \in Operation : budget'[op] =< budget[op]
    BY <1>0, <1>1 DEF Spend
<1>2. CASE UNCHANGED budget
    BY <1>0, <1>2
<1>3. ASSUME NEW w, WorkerStep(w)
      PROVE  UNCHANGED budget \/ Spend("reflect")
    BY <1>3 DEF WorkerStep, TakeTask, FinishCheckpoint, SelectPending, MarkSelected, Decide,
                Integrate, Absorb, Contradict, BeginReflection, FinishReflection, PostNotes
<1>4. ASSUME NEW c, CallerStep(c)
      PROVE  UNCHANGED budget \/ Spend("save")
    BY <1>4 DEF CallerStep, CommitInsights, RecordInteraction, FinishCheckpoint, SelectPending,
                MarkSelected, Decide, Integrate, Absorb, Contradict, FinishForceSave,
                TakeSnapshot, WriteFile
<1>5. ASSUME NEW c, Call(c)
      PROVE  UNCHANGED budget \/ \E o \in Operation : Spend(o)
    BY <1>5 DEF Call, BeginInteraction, BuildContext, DeleteOwnerData, ForceSave,
                CognitiveShutdown, SoftReset, SetFrozen, Operation
<1>6. ASSUME NEW t, AbortCheckpoint(t) \/ AbortWrite(t)
      PROVE  Spend("fault")
    BY <1>6 DEF AbortCheckpoint, AbortWrite
<1>7. CASE RestartAfresh
    BY <1>0, <1>7 DEF RestartAfresh, Operation
<1>8. Restart => Spend("crash")
    BY DEF Restart
<1>9. UNCHANGED vars => UNCHANGED budget
    BY DEF vars
<1>10. {"reflect", "save", "fault", "crash"} \subseteq Operation
    BY DEF Operation
<1>. QED
    BY <1>1, <1>2, <1>3, <1>4, <1>5, <1>6, <1>7, <1>8, <1>9, <1>10 DEF Next

\* What is unused after a step was unused before it, and the step did not use it.
LEMMA UnusedBefore ==
    ASSUME TypeOK, Within, [Next]_vars, NEW ops, ops \subseteq Operation, Unused(ops)'
    PROVE  Unused(ops) /\ \A op \in ops : ~Spend(op) /\ budget'[op] = budget[op]
<1>1. \A op \in ops : /\ budget[op] \in Nat /\ Limit[op] \in Nat
                      /\ budget[op] =< Limit[op]
                      /\ budget'[op] = Limit[op] /\ budget'[op] =< budget[op]
    BY BudgetShrinks, SharedMindAssumption DEF TypeOK, Within, Unused
<1>2. \A op \in ops : budget'[op] = budget[op] /\ budget[op] = Limit[op]
    BY <1>1
<1>3. ASSUME NEW op \in ops, Spend(op)
      PROVE  FALSE
    BY <1>1, <1>2, <1>3 DEF Spend, TypeOK
<1>. QED
    BY <1>2, <1>3 DEF Unused

LEMMA WithinInductive == TypeOK /\ TypeOK' /\ Within /\ [Next]_vars => Within'
<1>. SUFFICES ASSUME TypeOK, TypeOK', Within, [Next]_vars, NEW op \in Operation
              PROVE  budget'[op] =< Limit[op]
    BY DEF Within
<1>1. budget'[op] \in Nat /\ budget[op] \in Nat /\ Limit[op] \in Nat
    BY SharedMindAssumption DEF TypeOK
<1>. QED
    BY <1>1, BudgetShrinks DEF Within

WorkerAlone ==
    /\ \A w \in Worker \ {FirstWorker} : thread[w].pc = "off"
    /\ \A c \in Caller : thread[c].pc \in {"idle", "dreaming", "accepted", "save", "write"}

\* A step that the consolidation does not notice.
Unnoticed ==
    /\ UNCHANGED <<said, rows, pending, flushed, session_id, dismissed, erased>>
    /\ thread'[FirstWorker] = thread[FirstWorker]
    /\ memory_store \subseteq memory_store'

\* A step of a caller that tells the mind something or takes something from it.
Told(c) == RecordInteraction(c) /\ thread'[FirstWorker] = thread[FirstWorker]
Taken(c) == /\ CognitiveShutdown(c) \/ \E p \in Person : DeleteOwnerData(c, p)
            /\ thread'[FirstWorker] = thread[FirstWorker]

LEMMA FirstIsWorker == FirstWorker \in Worker /\ FirstWorker \in Thread /\ FirstWorker \notin Caller
BY SharedMindAssumption DEF Thread

LEMMA CallerMoves ==
    ASSUME TypeOK, WorkerAlone, NEW c \in Caller, NEW state, Becomes(c, state),
           state.pc \in {"idle", "dreaming", "accepted", "save", "write"}
    PROVE  WorkerAlone' /\ thread'[FirstWorker] = thread[FirstWorker]
<1>1. /\ thread'[c] = state
      /\ \A t \in Thread \ {c} : thread'[t] = thread[t]
    BY DEF Becomes, TypeOK, Thread
<1>2. c \notin Worker
    BY SharedMindAssumption
<1>. QED
    BY <1>1, <1>2, FirstIsWorker DEF WorkerAlone, Thread

LEMMA FirstMoves ==
    ASSUME TypeOK, WorkerAlone, NEW state, Becomes(FirstWorker, state)
    PROVE  WorkerAlone'
<1>1. \A t \in Thread \ {FirstWorker} : thread'[t] = thread[t]
    BY DEF Becomes, TypeOK
<1>. QED
    BY <1>1, FirstIsWorker DEF WorkerAlone, Thread

\* No thread but the first worker can take a step of the consolidation.
LEMMA OthersRest ==
    ASSUME WorkerAlone, NEW t \in Thread \ {FirstWorker},
           \/ t \in Worker /\ WorkerStep(t)
           \/ FinishCheckpoint(t) \/ SelectPending(t) \/ MarkSelected(t) \/ FinishForceSave(t)
           \/ \E pm \in thread[t].todo : Integrate(t, pm) \/ Absorb(t, pm) \/ Contradict(t, pm)
           \/ AbortCheckpoint(t)
    PROVE  FALSE
<1>1. thread[t].pc \in {"off", "idle", "dreaming", "accepted", "save", "write"}
    BY DEF WorkerAlone, Thread
<1>2. t \in Worker => thread[t].pc = "off"
    BY DEF WorkerAlone
<1>. QED
    BY <1>1, <1>2
       DEF WorkerStep, At, TakeTask, FinishCheckpoint, SelectPending, MarkSelected,
           FinishForceSave, Decide, Integrate, Absorb, Contradict, BeginReflection,
           FinishReflection, PostNotes, AbortCheckpoint

LEMMA CallAlone ==
    ASSUME TypeOK, WorkerAlone, NEW c \in Caller, ~ForceSave(c), ~SoftReset(c),
           CallerStep(c) \/ Call(c) \/ AbortWrite(c)
    PROVE  WorkerAlone' /\ (Unnoticed \/ Told(c) \/ Taken(c))
<1>0. c \in Thread \ {FirstWorker} /\ thread[c] \in ThreadState
    BY FirstIsWorker DEF TypeOK, Thread
<1>1. ASSUME NEW scope, NEW role, BeginInteraction(c, scope, role)
      PROVE  WorkerAlone' /\ Unnoticed
    <2>1. PICK state : /\ Becomes(c, state)
                       /\ \E pc \in {"dreaming", "accepted"} : \E todo :
                              state = [Idle EXCEPT !.pc = pc, !.scope = scope, !.role = role,
                                                   !.todo = todo]
        BY <1>1 DEF BeginInteraction
    <2>2. state.pc \in {"dreaming", "accepted"}
        BY <2>1 DEF Idle
    <2>. QED
        BY <1>1, <2>1, <2>2, CallerMoves DEF BeginInteraction, Unnoticed, wm_vars, history
<1>2. CASE CommitInsights(c) \/ TakeSnapshot(c)
    <2>1. PICK state :
              /\ Becomes(c, state)
              /\ \/ state = [thread[c] EXCEPT !.pc = "accepted", !.todo = {}]
                 \/ state = [thread[c] EXCEPT !.pc = "write",
                                 !.saved = [memory_store |-> memory_store,
                                            is_frozen |-> is_frozen,
                                            narrative |-> narrative]]
        BY <1>2 DEF CommitInsights, TakeSnapshot
    <2>2. state.pc \in {"accepted", "write"}
        BY <1>0, <2>1 DEF ThreadState
    <2>. QED
        BY <1>2, <2>1, <2>2, CallerMoves
           DEF CommitInsights, TakeSnapshot, Unnoticed, wm_vars, mind_vars, history
<1>3. Idle.pc = "idle" /\ [Idle EXCEPT !.pc = "save"].pc = "save"
    BY DEF Idle
<1>4. CASE RecordInteraction(c)
    BY <1>3, <1>4, CallerMoves DEF RecordInteraction, Told
<1>5. CASE WriteFile(c) \/ AbortWrite(c)
    BY <1>3, <1>5, CallerMoves DEF WriteFile, AbortWrite, Unnoticed, wm_vars, mind_vars, history
<1>6. ASSUME NEW frozen, SetFrozen(c, frozen)
      PROVE  WorkerAlone' /\ Unnoticed
    BY <1>3, <1>6, CallerMoves DEF SetFrozen, Unnoticed, wm_vars, history
<1>7. CASE CognitiveShutdown(c)
    BY <1>3, <1>7, CallerMoves DEF CognitiveShutdown, Taken
<1>8. ASSUME NEW p \in Person, DeleteOwnerData(c, p)
      PROVE  WorkerAlone' /\ Taken(c)
    <2>1. PICK ms : Becomes(c, [Idle EXCEPT !.pc = "save", !.erasing = ms])
        BY <1>8 DEF DeleteOwnerData
    <2>2. [Idle EXCEPT !.pc = "save", !.erasing = ms].pc = "save"
        BY DEF Idle
    <2>. QED
        BY <1>8, <2>1, <2>2, CallerMoves DEF Taken
<1>9. ASSUME NEW viewer, BuildContext(c, viewer)
      PROVE  WorkerAlone' /\ Unnoticed
    BY <1>9 DEF BuildContext, Unnoticed, WorkerAlone, wm_vars, history
<1>. QED
    BY <1>0, <1>1, <1>2, <1>4, <1>5, <1>6, <1>7, <1>8, <1>9, OthersRest DEF CallerStep, Call

\* All that can happen while the first worker is the only consolidator.
LEMMA AloneStep ==
    ASSUME TypeOK, WorkerAlone, [Next]_vars, ~Spend("force"), ~Spend("reset")
    PROVE  /\ WorkerAlone'
           /\ \/ Unnoticed
              \/ \E c \in Caller : Told(c) \/ Taken(c)
              \/ WorkerStep(FirstWorker) \/ AbortCheckpoint(FirstWorker)
              \/ Restart \/ RestartAfresh
<1>1. ASSUME NEW w \in Worker, WorkerStep(w)
      PROVE  w = FirstWorker
    BY <1>1, OthersRest DEF Thread
<1>2. ASSUME WorkerStep(FirstWorker) \/ AbortCheckpoint(FirstWorker)
      PROVE  WorkerAlone'
    <2>1. PICK state : Becomes(FirstWorker, state)
        BY <1>2 DEF WorkerStep, TakeTask, FinishCheckpoint, SelectPending, MarkSelected, Decide,
                    Integrate, Absorb, Contradict, BeginReflection, FinishReflection, PostNotes,
                    AbortCheckpoint
    <2>. QED
        BY <2>1, FirstMoves
<1>3. ASSUME NEW c \in Caller
      PROVE  ~ForceSave(c) /\ ~SoftReset(c)
    BY DEF ForceSave, SoftReset
<1>4. ASSUME NEW t \in Thread, AbortCheckpoint(t)
      PROVE  t = FirstWorker
    BY <1>4, OthersRest
<1>5. ASSUME NEW file, Start(file)
      PROVE  WorkerAlone'
    <2>1. Off.pc = "off" /\ Idle.pc = "idle"
        BY DEF Off, Idle
    <2>2. thread' = [t \in Thread |-> IF t \in Worker \ {FirstWorker} THEN Off ELSE Idle]
        BY <1>5 DEF Start
    <2>. QED
        BY <2>1, <2>2, SharedMindAssumption DEF WorkerAlone, Thread
<1>6. CASE UNCHANGED vars
    BY <1>6 DEF vars, wm_vars, mind_vars, history, Unnoticed, WorkerAlone
<1>. QED
    BY <1>1, <1>2, <1>3, <1>4, <1>5, <1>6, CallAlone DEF Next, Restart, RestartAfresh

-----------------------------------------------------------------------------
(***************************************************************************)
(* A message is summarised once.  The rows the worker has in hand are not  *)
(* in any summary yet, nor is a row that is not marked: the summaries and  *)
(* the marks are one transaction.                                          *)
(***************************************************************************)

Summarised == Sources(pending \cup flushed)

Once ==
    /\ \A r \in rows : r.id \in Summarised => r.done
    /\ At(FirstWorker, "summarise") =>
           \A r \in thread[FirstWorker].read : r.id \notin Summarised
    /\ \A x, y \in pending \cup flushed : x # y => x.src \cap y.src = {}

\* Taking rows and summaries away, or taking rows up, keeps it.
LEMMA OnceShrinks ==
    ASSUME Once, pending' \cup flushed' \subseteq pending \cup flushed, rows' \subseteq rows,
           \/ thread'[FirstWorker].pc # "summarise"
           \/ thread'[FirstWorker] = thread[FirstWorker]
           \/ thread'[FirstWorker].read \subseteq Unmarked
    PROVE  Once'
<1>1. ASSUME NEW m \in Summarised'
      PROVE  m \in Summarised
    BY DEF Summarised, Sources
<1>2. \A x, y \in pending' \cup flushed' : x # y => x.src \cap y.src = {}
    BY DEF Once
<1>3. \A r \in Unmarked : r.id \notin Summarised
    BY DEF Once, Unmarked
<1>. QED
    BY <1>1, <1>2, <1>3 DEF Once, At

\* A new message is in no summary.
LEMMA ToldOnce ==
    ASSUME TypeOK, Purity, Once, NEW c \in Caller, Told(c)
    PROVE  Once'
<1>. DEFINE new == Len(said) + 1
<1>1. UNCHANGED <<pending, flushed>> /\ thread'[FirstWorker] = thread[FirstWorker]
    BY DEF Told, RecordInteraction, AddInteraction
<1>2. \A r \in rows' : r \in rows \/ r.id = new
    BY DEF Told, RecordInteraction, AddInteraction
<1>3. new \notin DOMAIN said
    BY DEF TypeOK, WMTypeOK
<1>4. new \notin Summarised
    BY <1>3 DEF Summarised, Sources, Purity, PureTables, Own
<1>5. Summarised' = Summarised
    BY <1>1 DEF Summarised
<1>. QED
    BY <1>1, <1>2, <1>4, <1>5 DEF Once, At

\* The summaries of one checkpoint hold the messages it read, each once.
LEMMA SummariesOnce ==
    ASSUME NEW read, Recorded(said, read), NEW n
    PROVE  /\ \A x \in Summaries(read, n) : \A m \in x.src : \E r \in read : r.id = m
           /\ \A x, y \in Summaries(read, n) : x # y => x.src \cap y.src = {}
           /\ \A r \in read : r.id \in Sources(Summaries(read, n))
<1>1. \A x \in Summaries(read, n) : \A m \in x.src :
          \E r \in read : r.id = m /\ r.scope = x.scope
    BY DEF Summaries
<1>2. ASSUME NEW x \in Summaries(read, n), NEW y \in Summaries(read, n),
             NEW m \in x.src \cap y.src
      PROVE  x = y
    <2>1. x.scope = said[m] /\ y.scope = said[m]
        BY <1>1 DEF Recorded
    <2>2. \A z \in Summaries(read, n) :
              z = [batch |-> n, scope |-> z.scope,
                   src |-> {r.id : r \in {q \in read : q.scope = z.scope}}]
        BY DEF Summaries
    <2>. QED
        BY <2>1, <2>2, Zenon
<1>3. ASSUME NEW r \in read
      PROVE  r.id \in Sources(Summaries(read, n))
    <2>. DEFINE x == [batch |-> n, scope |-> r.scope,
                      src |-> {q.id : q \in {p \in read : p.scope = r.scope}}]
    <2>1. x \in Summaries(read, n) /\ r.id \in x.src
        BY DEF Summaries
    <2>. QED
        BY <2>1 DEF Sources
<1>. QED
    BY <1>1, <1>2, <1>3

LEMMA CheckpointOnce ==
    ASSUME TypeOK, Purity, Once, FinishCheckpoint(FirstWorker)
    PROVE  Once'
<1>. DEFINE read == thread[FirstWorker].read
            new == Summaries(read, checkpoints)
<1>0. /\ Recorded(said, read)
      /\ thread[FirstWorker] \in ThreadState
      /\ \A r \in read : r.id \notin Summarised
    BY FirstIsWorker DEF Purity, PureThreads, PureThread, TypeOK, Once, FinishCheckpoint
<1>1. /\ pending' = pending \cup new /\ flushed' = flushed
      /\ rows' = {[r EXCEPT !.done = r.done \/ \E x \in read : x.id = r.id] : r \in rows}
    BY DEF FinishCheckpoint, WriteCheckpoint
<1>2. thread'[FirstWorker].pc = "select"
    BY <1>0, FirstIsWorker DEF FinishCheckpoint, Becomes, TypeOK, ThreadState
<1>3. /\ \A x \in new : \A m \in x.src : \E r \in read : r.id = m
      /\ \A x, y \in new : x # y => x.src \cap y.src = {}
    BY <1>0, SummariesOnce
<1>. HIDE DEF new, read
<1>4. ASSUME NEW r \in rows', r.id \in Summarised'
      PROVE  r.done
    <2>1. PICK q \in rows : r = [q EXCEPT !.done = q.done \/ \E x \in read : x.id = q.id]
        BY <1>1
    <2>2. q \in Row
        BY DEF TypeOK, WMTypeOK
    <2>3. r.id = q.id /\ (r.done <=> q.done \/ \E x \in read : x.id = q.id)
        BY <2>1, <2>2 DEF Row
    <2>4. CASE r.id \in Summarised
        BY <2>3, <2>4 DEF Once
    <2>5. CASE r.id \notin Summarised
        <3>1. PICK x \in new : r.id \in x.src
            BY <1>1, <1>4, <2>5 DEF Summarised, Sources
        <3>. QED
            BY <1>3, <2>3, <3>1
    <2>. QED
        BY <2>4, <2>5
<1>5. ASSUME NEW x \in pending' \cup flushed', NEW y \in pending' \cup flushed', x # y
      PROVE  x.src \cap y.src = {}
    <2>1. \A u \in new, v \in pending \cup flushed : u.src \cap v.src = {}
        BY <1>0, <1>3 DEF Summarised, Sources
    <2>. QED
        BY <1>1, <1>3, <1>5, <2>1 DEF Once
<1>. QED
    BY <1>2, <1>4, <1>5 DEF Once, At

LEMMA OnceInductive ==
    TypeOK /\ Purity /\ WorkerAlone /\ Once /\ [Next]_vars /\ ~Spend("force") /\ ~Spend("reset")
        => Once'
<1>. SUFFICES ASSUME TypeOK, Purity, WorkerAlone, Once, [Next]_vars,
                     ~Spend("force"), ~Spend("reset")
              PROVE  Once'
    OBVIOUS
<1>. DEFINE f == FirstWorker
<1>0. thread[f] \in ThreadState /\ Idle.pc = "idle"
    BY FirstIsWorker DEF TypeOK, Idle
<1>1. CASE Unnoticed
    BY <1>1, OnceShrinks DEF Unnoticed
<1>2. ASSUME NEW c \in Caller, Taken(c)
      PROVE  Once'
    <2>1. pending' \cup flushed' \subseteq pending \cup flushed /\ rows' \subseteq rows
        BY <1>2 DEF Taken, CognitiveShutdown, DeleteOwnerData, DeleteOwner, wm_vars
    <2>. QED
        BY <1>2, <2>1, OnceShrinks DEF Taken
<1>3. CASE TakeTask(f)
    <2>1. PICK state : /\ Becomes(f, state)
                       /\ state = Off \/ \E pc : state = [Idle EXCEPT !.pc = pc, !.read = Unmarked]
        BY <1>3 DEF TakeTask
    <2>2. state.pc # "summarise" \/ state.read \subseteq Unmarked
        BY <2>1 DEF Off, Idle
    <2>3. thread'[f] = state
        BY <2>1, FirstIsWorker DEF Becomes, TypeOK
    <2>. QED
        BY <1>3, <2>2, <2>3, OnceShrinks DEF TakeTask, wm_vars
<1>4. CASE SelectPending(f) \/ MarkSelected(f)
    <2>1. PICK state : /\ Becomes(f, state)
                       /\ \/ state = Idle
                          \/ state = [thread[f] EXCEPT !.pc = "mark", !.todo = pending]
                          \/ state = [thread[f] EXCEPT !.pc = "add", !.read = {}]
        BY <1>4 DEF SelectPending, MarkSelected
    <2>2. state.pc # "summarise"
        BY <1>0, <2>1 DEF ThreadState
    <2>3. thread'[f] = state
        BY <2>1, FirstIsWorker DEF Becomes, TypeOK
    <2>4. pending' \cup flushed' \subseteq pending \cup flushed /\ rows' = rows
        BY <1>4 DEF SelectPending, MarkSelected, MarkFlushed, wm_vars
    <2>. QED
        BY <2>2, <2>3, <2>4, OnceShrinks
<1>5. ASSUME NEW pm \in thread[f].todo, Integrate(f, pm) \/ Absorb(f, pm) \/ Contradict(f, pm)
      PROVE  Once'
    <2>1. PICK notes : Decide(f, pm, notes)
        BY <1>5 DEF Integrate, Absorb, Contradict
    <2>2. thread'[f] = [thread[f] EXCEPT !.todo = @ \ {pm}, !.notes = notes]
        BY <2>1, FirstIsWorker DEF Decide, Becomes, TypeOK
    <2>3. thread'[f].pc = "add"
        BY <1>0, <2>1, <2>2 DEF Decide, At, ThreadState
    <2>. QED
        BY <2>1, <2>3, OnceShrinks DEF Decide, wm_vars
<1>6. CASE \/ BeginReflection(f) \/ FinishReflection(f) \/ PostNotes(f) \/ AbortCheckpoint(f)
    <2>1. PICK state : /\ Becomes(f, state)
                       /\ \/ state = Idle
                          \/ \E pc \in {"reflect", "post"} : \E view :
                                 state = [thread[f] EXCEPT !.pc = pc, !.view = view]
        BY <1>6 DEF BeginReflection, FinishReflection, PostNotes, AbortCheckpoint
    <2>2. state.pc # "summarise"
        BY <1>0, <2>1 DEF ThreadState
    <2>3. thread'[f] = state
        BY <2>1, FirstIsWorker DEF Becomes, TypeOK
    <2>4. UNCHANGED wm_vars
        BY <1>6 DEF BeginReflection, FinishReflection, PostNotes, AbortCheckpoint
    <2>. QED
        BY <2>2, <2>3, <2>4, OnceShrinks DEF wm_vars
<1>7. CASE Restart \/ RestartAfresh
    <2>1. PICK file : Start(file)
        BY <1>7 DEF Restart, RestartAfresh
    <2>2. thread'[f] = Idle /\ Idle.pc = "idle"
        BY <2>1, FirstIsWorker DEF Start, Idle
    <2>. QED
        BY <2>1, <2>2, OnceShrinks DEF Start, Reopen
<1>. QED
    BY <1>1, <1>2, <1>3, <1>4, <1>5, <1>6, <1>7, AloneStep, ToldOnce, CheckpointOnce
       DEF WorkerStep

LEMMA InitAlone == Init => Within /\ WorkerAlone /\ Once
<1>. SUFFICES ASSUME Init PROVE Within /\ WorkerAlone /\ Once
    OBVIOUS
<1>1. Off.pc = "off" /\ Idle.pc = "idle"
    BY DEF Off, Idle
<1>2. Within
    BY SharedMindAssumption DEF Init, Within
<1>3. WorkerAlone
    BY <1>1, SharedMindAssumption DEF Init, WorkerAlone, Thread
<1>4. thread[FirstWorker].pc = "idle"
    BY <1>1, FirstIsWorker DEF Init
<1>. QED
    BY <1>2, <1>3, <1>4 DEF Init, WMInit, Once, At

\* Until a save is forced or the mind is reset, no message gets into two
\* summaries, whatever crashes, fails or is erased on the way.
THEOREM SummarisedOnceHolds == Spec => []SummarisedOnce
<1>. DEFINE Inv == Within /\ (Unused({"force", "reset"}) => WorkerAlone /\ Once)
<1>1. Init => Inv
    BY InitAlone
<1>2. TypeOK /\ TypeOK' /\ Purity /\ Inv /\ [Next]_vars => Inv'
    <2>. SUFFICES ASSUME TypeOK, TypeOK', Purity, Inv, [Next]_vars
                  PROVE  Inv'
        OBVIOUS
    <2>1. Within'
        BY WithinInductive
    <2>2. ASSUME Unused({"force", "reset"})'
          PROVE  WorkerAlone' /\ Once'
        <3>1. {"force", "reset"} \subseteq Operation
            BY DEF Operation
        <3>2. Unused({"force", "reset"}) /\ ~Spend("force") /\ ~Spend("reset")
            BY <2>2, <3>1, UnusedBefore
        <3>. QED
            BY <3>2, AloneStep, OnceInductive
    <2>. QED
        BY <2>1, <2>2
<1>3. Inv => SummarisedOnce
    BY DEF Once, SummarisedOnce
<1>. HIDE DEF Inv
<1>. QED
    BY <1>1, <1>2, <1>3, PurityHolds, TypeCorrect, PTL DEF Spec

-----------------------------------------------------------------------------
(***************************************************************************)
(* Nothing is lost.  While the process lives, no transaction fails and the *)
(* first worker is alone, the table of summaries is empty but between the  *)
(* summarising and the flush of one task, and a worker that throws away    *)
(* what it flushed has flushed nothing.                                    *)
(***************************************************************************)

\* On its way to long-term memory.
Ahead(m) ==
    \/ m \in Sources(pending)
    \/ thread[FirstWorker].pc \in {"mark", "add"} /\ m \in Sources(thread[FirstWorker].todo)

\* The end of the way that no later step takes back: the memory made of a
\* person's messages goes with the person's erasure only.
Ended(m) ==
    m \in dismissed \cup erased \cup Sources({r \in memory_store : r.kind = "episode"})

Flush ==
    /\ pending # {} => /\ thread[FirstWorker].pc \in {"select", "mark"}
                       /\ thread[FirstWorker].read # {}
    /\ At(FirstWorker, "mark") =>
           /\ pending \subseteq thread[FirstWorker].todo
           /\ thread[FirstWorker].read = {} => thread[FirstWorker].todo = {}

Accounted == \A m \in DOMAIN said : Waiting(m) \/ Ahead(m) \/ Ended(m)

LEMMA EndedStays ==
    ASSUME TypeOK, Purity, NEW m, Ended(m),
           dismissed \subseteq dismissed', erased \subseteq erased',
           \/ memory_store \subseteq memory_store'
           \/ \E c \in Caller : Taken(c)
    PROVE  Ended(m)'
<1>1. CASE m \in dismissed \cup erased \/ memory_store \subseteq memory_store'
    BY <1>1 DEF Ended, Sources
<1>2. ASSUME NEW c \in Caller, Taken(c), NEW r \in memory_store, r.kind = "episode", m \in r.src
      PROVE  Ended(m)'
    <2>1. m \in DOMAIN said /\ said[m] = r.scope
        BY <1>2 DEF Purity, PureMind, PureStore, Own
    <2>2. CASE CognitiveShutdown(c)
        BY <1>2, <2>2 DEF CognitiveShutdown, Episodes, Sources, Ended
    <2>3. ASSUME NEW p \in Person, DeleteOwnerData(c, p)
          PROVE  Ended(m)'
        <3>1. CASE r.scope.owner = p
            BY <2>1, <2>3, <3>1 DEF DeleteOwnerData, Of, Ended
        <3>2. CASE r.scope.owner # p
            BY <1>2, <2>3, <3>2 DEF DeleteOwnerData, Sources, Ended
        <3>. QED
            BY <3>1, <3>2
    <2>. QED
        BY <1>2, <2>2, <2>3 DEF Taken
<1>. QED
    BY <1>1, <1>2 DEF Ended, Sources

\* Erasures and the kill switch take messages that are recorded as erased.
LEMMA TakenAccounted ==
    ASSUME TypeOK, Purity, Flush, Accounted, NEW c \in Caller, Taken(c)
    PROVE  Flush' /\ Accounted'
<1>1. /\ thread'[FirstWorker] = thread[FirstWorker]
      /\ UNCHANGED <<said, session_id, dismissed>>
      /\ pending' \subseteq pending /\ rows' \subseteq rows /\ erased \subseteq erased'
    BY DEF Taken, CognitiveShutdown, DeleteOwnerData, DeleteOwner, wm_vars
<1>2. Flush'
    BY <1>1 DEF Flush, At
<1>3. ASSUME NEW r \in rows \ rows'
      PROVE  r.id \in erased'
    <2>1. r.id \in DOMAIN said /\ said[r.id] = r.scope
        BY <1>3 DEF Purity, PureTables, Recorded
    <2>2. PICK p \in Person : DeleteOwnerData(c, p) /\ r.scope.owner = p
        BY <1>3 DEF Taken, CognitiveShutdown, DeleteOwnerData, DeleteOwner, wm_vars
    <2>. QED
        BY <2>1, <2>2 DEF DeleteOwnerData, Of
<1>4. ASSUME NEW x \in pending \ pending', NEW m \in x.src
      PROVE  m \in erased'
    <2>1. m \in DOMAIN said /\ said[m] = x.scope
        BY <1>4 DEF Purity, PureTables, Own
    <2>2. PICK p \in Person : DeleteOwnerData(c, p) /\ x.scope.owner = p
        BY <1>4 DEF Taken, CognitiveShutdown, DeleteOwnerData, DeleteOwner, wm_vars
    <2>. QED
        BY <2>1, <2>2 DEF DeleteOwnerData, Of
<1>5. ASSUME NEW m \in DOMAIN said
      PROVE  Waiting(m)' \/ Ahead(m)' \/ Ended(m)'
    <2>1. CASE Waiting(m)
        BY <1>1, <1>3, <2>1 DEF Waiting, Ended
    <2>2. CASE Ahead(m)
        BY <1>1, <1>4, <2>2 DEF Ahead, Sources, Ended
    <2>3. CASE Ended(m)
        BY <1>1, <2>3, EndedStays
    <2>. QED
        BY <2>1, <2>2, <2>3 DEF Accounted
<1>. QED
    BY <1>1, <1>2, <1>5 DEF Accounted

\* A message that is told waits.
LEMMA ToldAccounted ==
    ASSUME TypeOK, Purity, Flush, Accounted, NEW c \in Caller, Told(c)
    PROVE  Flush' /\ Accounted'
<1>. DEFINE new == Len(said) + 1
            row == [id |-> new, scope |-> thread[c].scope, session |-> session_id, done |-> FALSE]
<1>1. /\ thread'[FirstWorker] = thread[FirstWorker]
      /\ UNCHANGED <<pending, session_id, dismissed, erased, memory_store>>
      /\ rows' = rows \cup {row}
      /\ said' = Append(said, thread[c].scope)
    BY DEF Told, RecordInteraction, AddInteraction, history
<1>2. ASSUME NEW m \in DOMAIN said', m # new
      PROVE  m \in DOMAIN said
    BY <1>1, <1>2 DEF TypeOK, WMTypeOK
<1>3. ASSUME NEW m \in DOMAIN said
      PROVE  Waiting(m)' \/ Ahead(m)' \/ Ended(m)'
    BY <1>1 DEF Accounted, Waiting, Ahead, Ended
<1>4. Flush'
    BY <1>1 DEF Flush, At
<1>5. ASSUME NEW m, m = new
      PROVE  Waiting(m)'
    <2>1. row.id = m /\ ~row.done /\ row.session = session_id
        BY <1>5
    <2>. HIDE DEF row, new
    <2>. QED
        BY <1>1, <2>1 DEF Waiting
<1>. QED
    BY <1>2, <1>3, <1>4, <1>5 DEF Accounted

LEMMA TaskAccounted ==
    ASSUME TypeOK, Purity, Flush, Accounted, TakeTask(FirstWorker)
    PROVE  Flush' /\ Accounted'
<1>1. PICK state : /\ thread'[FirstWorker] = state
                   /\ \/ state = Off
                      \/ \E pc \in {"select", "summarise"} :
                             state = [Idle EXCEPT !.pc = pc, !.read = Unmarked]
    BY FirstIsWorker DEF TakeTask, Becomes, TypeOK
<1>2. state.pc \in {"off", "select", "summarise"}
    BY <1>1 DEF Off, Idle
<1>3. UNCHANGED <<said, rows, pending, session_id, memory_store, dismissed, erased>>
    BY DEF TakeTask, wm_vars, history
<1>4. thread[FirstWorker].pc = "idle" /\ pending = {}
    BY DEF TakeTask, At, Flush
<1>. QED
    BY <1>1, <1>2, <1>3, <1>4 DEF Flush, Accounted, Waiting, Ahead, Ended, At

\* What is marked is in a summary.
LEMMA CheckpointAccounted ==
    ASSUME TypeOK, Purity, Flush, Accounted, FinishCheckpoint(FirstWorker)
    PROVE  Flush' /\ Accounted'
<1>. DEFINE read == thread[FirstWorker].read
            new == Summaries(read, checkpoints)
<1>0. Recorded(said, read) /\ thread[FirstWorker] \in ThreadState
    BY FirstIsWorker DEF Purity, PureThreads, PureThread, TypeOK
<1>1. /\ thread[FirstWorker].pc = "summarise" /\ pending = {}
      /\ pending' = new
      /\ rows' = {[r EXCEPT !.done = r.done \/ \E x \in read : x.id = r.id] : r \in rows}
      /\ UNCHANGED <<said, session_id, memory_store, dismissed, erased>>
    BY DEF FinishCheckpoint, WriteCheckpoint, At, Flush, mind_vars, history
<1>2. thread'[FirstWorker].pc = "select" /\ thread'[FirstWorker].read = read
    BY <1>0, FirstIsWorker DEF FinishCheckpoint, Becomes, TypeOK, ThreadState
<1>3. /\ new # {} => read # {}
      /\ \A r \in read : r.id \in Sources(new)
    <2>1. new # {} => read # {}
        BY DEF Summaries
    <2>2. \A r \in read : r.id \in Sources(new)
        BY <1>0, SummariesOnce
    <2>. QED
        BY <2>1, <2>2
<1>. HIDE DEF new, read
<1>4. ASSUME NEW r \in rows, ~r.done, r.session = session_id
      PROVE  Waiting(r.id)' \/ r.id \in Sources(pending')
    <2>. DEFINE q == [r EXCEPT !.done = r.done \/ \E x \in read : x.id = r.id]
    <2>1. q \in rows'
        BY <1>1
    <2>2. CASE \E x \in read : x.id = r.id
        BY <1>1, <1>3, <2>2
    <2>3. CASE ~\E x \in read : x.id = r.id
        <3>1. q.id = r.id /\ q.session = r.session /\ ~q.done
            BY <1>4, <2>3 DEF TypeOK, WMTypeOK, Row
        <3>. HIDE DEF q
        <3>. QED
            BY <1>1, <1>4, <2>1, <3>1 DEF Waiting
    <2>. QED
        BY <2>2, <2>3
<1>5. ASSUME NEW m \in DOMAIN said
      PROVE  Waiting(m)' \/ Ahead(m)' \/ Ended(m)'
    <2>1. ~Ahead(m)
        BY <1>1 DEF Ahead, Sources
    <2>2. Waiting(m) => Waiting(m)' \/ Ahead(m)'
        BY <1>4 DEF Waiting, Ahead
    <2>3. Ended(m) => Ended(m)'
        BY <1>1 DEF Ended
    <2>. QED
        BY <2>1, <2>2, <2>3 DEF Accounted
<1>. QED
    BY <1>1, <1>2, <1>3, <1>5 DEF Flush, Accounted, At

LEMMA FlushAccounted ==
    ASSUME TypeOK, Purity, Flush, Accounted,
           SelectPending(FirstWorker) \/ MarkSelected(FirstWorker)
    PROVE  Flush' /\ Accounted'
<1>. DEFINE f == FirstWorker
<1>0. thread[f] \in ThreadState
    BY FirstIsWorker DEF TypeOK
<1>1. UNCHANGED <<said, rows, session_id, memory_store, dismissed, erased>>
    BY DEF SelectPending, MarkSelected, MarkFlushed, wm_vars, mind_vars, history
<1>2. CASE SelectPending(f)
    <2>1. /\ thread'[f].pc = "mark" /\ thread'[f].read = thread[f].read
          /\ thread'[f].todo = pending
          /\ thread[f].pc = "select" /\ pending' = pending
        BY <1>0, <1>2, FirstIsWorker
           DEF SelectPending, Becomes, TypeOK, ThreadState, At, wm_vars
    <2>. QED
        BY <1>1, <2>1 DEF Flush, Accounted, Waiting, Ahead, Ended, At
<1>3. CASE MarkSelected(f)
    <2>1. /\ thread[f].pc = "mark" /\ pending \subseteq thread[f].todo
          /\ thread[f].read = {} => thread[f].todo = {}
        BY <1>3 DEF MarkSelected, At, Flush
    <2>2. pending' = {}
        BY <1>3, <2>1 DEF MarkSelected, MarkFlushed
    <2>3. CASE thread[f].read = {}
        <3>1. pending = {} /\ thread[f].todo = {}
            BY <2>1, <2>3
        <3>2. \A m : ~Ahead(m)
            BY <3>1 DEF Ahead, Sources
        <3>3. thread'[f] = Idle /\ Idle.pc = "idle"
            BY <1>3, <2>3, FirstIsWorker DEF MarkSelected, Becomes, TypeOK, Idle
        <3>. QED
            BY <1>1, <2>2, <3>2, <3>3 DEF Flush, Accounted, Waiting, Ended, At
    <2>4. CASE thread[f].read # {}
        <3>1. thread'[f].pc = "add" /\ thread'[f].todo = thread[f].todo
            BY <1>0, <1>3, <2>4, FirstIsWorker DEF MarkSelected, Becomes, TypeOK, ThreadState
        <3>2. \A m : Ahead(m) => Ahead(m)'
            BY <2>1, <3>1 DEF Ahead, Sources
        <3>. QED
            BY <1>1, <2>2, <3>1, <3>2 DEF Flush, Accounted, Waiting, Ended, At
    <2>. QED
        BY <2>3, <2>4
<1>. QED
    BY <1>2, <1>3

\* A summary leaves the worker's hands as a memory or as dismissed.
LEMMA OutcomeAccounted ==
    ASSUME TypeOK, Purity, Flush, Accounted, NEW pm \in thread[FirstWorker].todo,
           \/ Integrate(FirstWorker, pm) \/ Absorb(FirstWorker, pm)
           \/ Contradict(FirstWorker, pm)
    PROVE  Flush' /\ Accounted'
<1>. DEFINE f == FirstWorker
<1>0. thread[f] \in ThreadState
    BY FirstIsWorker DEF TypeOK
<1>1. PICK notes : Decide(f, pm, notes)
    BY DEF Integrate, Absorb, Contradict
<1>2. /\ thread[f].pc = "add" /\ UNCHANGED <<said, rows, pending, session_id, erased>>
      /\ thread'[f] = [thread[f] EXCEPT !.todo = @ \ {pm}, !.notes = notes]
    BY <1>1, FirstIsWorker DEF Decide, At, Becomes, TypeOK, wm_vars
<1>3. thread'[f].pc = "add" /\ thread'[f].todo = thread[f].todo \ {pm}
    BY <1>0, <1>2 DEF ThreadState
<1>4. pending = {}
    BY <1>2 DEF Flush
<1>5. dismissed \subseteq dismissed' /\ memory_store \subseteq memory_store'
    BY DEF Integrate, Absorb, Contradict, Dismiss
<1>6. ASSUME NEW m \in pm.src
      PROVE  Ended(m)'
    <2>1. CASE Integrate(f, pm)
        <3>. DEFINE r == [kind |-> "episode", scope |-> pm.scope, src |-> pm.src,
                          batch |-> pm.batch, origin |-> f]
        <3>1. r \in memory_store' /\ r.kind = "episode" /\ m \in r.src
            BY <2>1 DEF Integrate
        <3>. HIDE DEF r
        <3>. QED
            BY <3>1 DEF Ended, Sources
    <2>2. CASE Absorb(f, pm) \/ Contradict(f, pm)
        BY <2>2 DEF Absorb, Contradict, Dismiss, Ended
    <2>. QED
        BY <2>1, <2>2
<1>7. ASSUME NEW m \in DOMAIN said
      PROVE  Waiting(m)' \/ Ahead(m)' \/ Ended(m)'
    <2>1. Waiting(m) => Waiting(m)'
        BY <1>2 DEF Waiting
    <2>2. Ahead(m) => Ahead(m)' \/ Ended(m)'
        BY <1>2, <1>3, <1>4, <1>6 DEF Ahead, Sources
    <2>3. Ended(m) => Ended(m)'
        BY <1>2, <1>5, EndedStays
    <2>. QED
        BY <2>1, <2>2, <2>3 DEF Accounted
<1>. QED
    BY <1>2, <1>3, <1>4, <1>7 DEF Flush, Accounted, At

LEMMA ReflectionAccounted ==
    ASSUME TypeOK, Purity, Flush, Accounted,
           \/ BeginReflection(FirstWorker) \/ FinishReflection(FirstWorker)
           \/ PostNotes(FirstWorker)
    PROVE  Flush' /\ Accounted'
<1>. DEFINE f == FirstWorker
<1>0. thread[f] \in ThreadState /\ Idle.pc = "idle"
    BY FirstIsWorker DEF TypeOK, Idle
<1>1. /\ UNCHANGED <<said, rows, pending, session_id, dismissed, erased>>
      /\ memory_store \subseteq memory_store'
    BY DEF BeginReflection, FinishReflection, PostNotes, wm_vars, history
<1>2. PICK state : /\ thread'[f] = state
                   /\ \/ state = Idle
                      \/ \E pc \in {"reflect", "post"} : \E view :
                             state = [thread[f] EXCEPT !.pc = pc, !.view = view]
    BY FirstIsWorker DEF BeginReflection, FinishReflection, PostNotes, Becomes, TypeOK
<1>3. state.pc \in {"idle", "reflect", "post"}
    BY <1>0, <1>2 DEF ThreadState
<1>4. /\ thread[f].pc \in {"post", "reflect", "add"}
      /\ thread[f].pc = "add" => thread[f].todo = {}
    BY DEF BeginReflection, FinishReflection, PostNotes, At
<1>5. pending = {}
    BY <1>4 DEF Flush
<1>6. \A m : ~Ahead(m)
    BY <1>4, <1>5 DEF Ahead, Sources
<1>7. \A m \in DOMAIN said : Waiting(m)' \/ Ended(m)'
    BY <1>1, <1>6 DEF Accounted, Waiting, Ended, Sources
<1>. QED
    BY <1>1, <1>2, <1>3, <1>5, <1>7 DEF Flush, Accounted, At

LEMMA AccountedInductive ==
    ASSUME TypeOK, Purity, WorkerAlone, Flush, Accounted, [Next]_vars,
           \A op \in {"crash", "fault", "force", "reset"} :
               ~Spend(op) /\ budget'[op] = budget[op]
    PROVE  Flush' /\ Accounted'
<1>1. CASE Unnoticed
    <2>1. Flush'
        BY <1>1 DEF Unnoticed, Flush, At
    <2>2. \A m \in DOMAIN said : Waiting(m)' \/ Ahead(m)' \/ Ended(m)'
        BY <1>1 DEF Unnoticed, Accounted, Waiting, Ahead, Ended, Sources
    <2>. QED
        BY <1>1, <2>1, <2>2 DEF Unnoticed, Accounted
<1>2. ~Restart /\ ~AbortCheckpoint(FirstWorker)
    BY DEF Restart, AbortCheckpoint
<1>3. ~RestartAfresh
    BY DEF RestartAfresh, TypeOK, Operation
<1>4. ASSUME WorkerStep(FirstWorker)
      PROVE  Flush' /\ Accounted'
    BY <1>4, TaskAccounted, CheckpointAccounted, FlushAccounted, OutcomeAccounted,
       ReflectionAccounted DEF WorkerStep
<1>. QED
    BY <1>1, <1>2, <1>3, <1>4, AloneStep, ToldAccounted, TakenAccounted

\* While the process lives, nothing fails and one thread consolidates, every
\* message is waiting, on its way, remembered, dismissed or erased.
THEOREM NothingLostHolds == Spec => []NothingLost
<1>. DEFINE calm == {"crash", "fault", "force", "reset"}
            Inv == Within /\ (Unused(calm) => WorkerAlone /\ Flush /\ Accounted)
<1>1. Init => Inv
    <2>. SUFFICES ASSUME Init PROVE Flush /\ Accounted
        BY InitAlone
    <2>1. Idle.pc = "idle" /\ thread[FirstWorker] = Idle /\ pending = {} /\ said = <<>>
        BY FirstIsWorker DEF Init, WMInit, Idle
    <2>. QED
        BY <2>1 DEF Flush, Accounted, At
<1>2. TypeOK /\ TypeOK' /\ Purity /\ Inv /\ [Next]_vars => Inv'
    <2>. SUFFICES ASSUME TypeOK, TypeOK', Purity, Inv, [Next]_vars
                  PROVE  Inv'
        OBVIOUS
    <2>1. Within'
        BY WithinInductive
    <2>2. ASSUME Unused(calm)'
          PROVE  WorkerAlone' /\ Flush' /\ Accounted'
        <3>1. calm \subseteq Operation
            BY DEF Operation
        <3>2. /\ Unused(calm)
              /\ \A op \in calm : ~Spend(op) /\ budget'[op] = budget[op]
            BY <2>2, <3>1, UnusedBefore
        <3>3. ~Spend("force") /\ ~Spend("reset")
            BY <3>2
        <3>4. WorkerAlone'
            BY <3>2, <3>3, AloneStep
        <3>. QED
            BY <3>2, <3>4, AccountedInductive
    <2>. QED
        BY <2>1, <2>2
<1>3. Inv => NothingLost
    <2>. SUFFICES ASSUME Accounted, NEW m \in DOMAIN said
                  PROVE  Waiting(m) \/ m \in Sources(pending) \/ InHand(m) \/ Settled(m)
        BY DEF NothingLost
    <2>1. Ahead(m) => m \in Sources(pending) \/ InHand(m)
        BY FirstIsWorker DEF Ahead, InHand
    <2>2. Ended(m) => Settled(m)
        BY DEF Ended, Settled, Episodes, Sources
    <2>. QED
        BY <2>1, <2>2 DEF Accounted
<1>. HIDE DEF Inv
<1>. QED
    BY <1>1, <1>2, <1>3, PurityHolds, TypeCorrect, PTL DEF Spec

-----------------------------------------------------------------------------
(***************************************************************************)
(* What is quoted was remembered.  Reflections, insights, the narrative,   *)
(* snapshots and the file quote messages; whatever quotes one, the message *)
(* has a memory of its own in the store, or was erased on request.  Only a *)
(* load that fails half way may leave quotations without it.               *)
(***************************************************************************)

Known == Sources(Episodes(memory_store))
OnFile == Sources(Episodes(disk.memory_store))
Kept == Known \cup erased

\* A file that answers for itself but for the messages ms.
Answers(file, ms) ==
    file.narrative \cup Sources(file.memory_store)
        \subseteq Sources(Episodes(file.memory_store)) \cup ms

\* What a thread may make a memory of, or replace the file by.
Quotes(state) ==
    state.view \cup Sources(state.saved.memory_store)
    \cup (IF state.pc = "dreaming" THEN Sources(state.todo) ELSE {})

BackedThread(state, kept, ms) == Quotes(state) \subseteq kept /\ Answers(state.saved, ms)
BackedThreads == \A t \in Thread : BackedThread(thread[t], Kept, erased)

Backed ==
    /\ narrative \cup Sources(memory_store) \subseteq Kept
    /\ Sources(candidates) \subseteq Kept
    /\ BackedThreads
    /\ Answers(disk, erased)

\* A thread that gathers nothing new.
Plain(old, new) ==
    /\ new.pc # "dreaming"
    /\ new.view \in {old.view, {}}
    /\ new.saved \in {old.saved, NoFile}

PlainStep == \E t \in Thread : \E state : Becomes(t, state) /\ Plain(thread[t], state)

LEMMA SourcesGrow ==
    /\ \A S, T : S \subseteq T => Sources(S) \subseteq Sources(T)
    /\ \A S, T : Sources(S \cup T) = Sources(S) \cup Sources(T)
    /\ Sources({}) = {}
    /\ \A S : Episodes(S) \subseteq S
    /\ \A S, T : S \subseteq T => Episodes(S) \subseteq Episodes(T)
BY DEF Sources, Episodes

LEMMA NoFileQuotes == NoFile.memory_store = {} /\ \A ms : Answers(NoFile, ms)
BY SourcesGrow DEF NoFile, Answers

LEMMA MoreBacked ==
    ASSUME NEW state, NEW kept, NEW more, kept \subseteq more, NEW ms, NEW ns, ms \subseteq ns,
           BackedThread(state, kept, ms)
    PROVE  BackedThread(state, more, ns)
BY DEF BackedThread, Answers

LEMMA PlainBacked ==
    ASSUME TypeOK, BackedThreads, PlainStep, Kept \subseteq Kept', erased \subseteq erased'
    PROVE  BackedThreads'
<1>0. PICK t \in Thread : \E state : Becomes(t, state) /\ Plain(thread[t], state)
    BY DEF PlainStep
<1>1. PICK state : Becomes(t, state) /\ Plain(thread[t], state)
    BY <1>0
<1>2. /\ thread'[t] = state
      /\ \A u \in Thread \ {t} : thread'[u] = thread[u]
    BY <1>1 DEF Becomes, TypeOK
<1>3. \A u \in Thread : BackedThread(thread[u], Kept', erased')
    BY MoreBacked DEF BackedThreads
<1>4. BackedThread(state, Kept', erased')
    <2>1. /\ state.view \subseteq Kept'
          /\ Sources(thread[t].saved.memory_store) \subseteq Kept'
          /\ Answers(thread[t].saved, erased')
        BY <1>1, <1>3 DEF Plain, BackedThread, Quotes
    <2>2. /\ Sources(state.saved.memory_store) \subseteq Kept'
          /\ Answers(state.saved, erased')
        BY <1>1, <2>1, NoFileQuotes, SourcesGrow DEF Plain
    <2>. QED
        BY <1>1, <2>1, <2>2 DEF Plain, BackedThread, Quotes
<1>. QED
    BY <1>2, <1>3, <1>4 DEF BackedThreads

\* A new thread quotes nothing.
LEMMA IdleIsPlain ==
    /\ \A old : Plain(old, Idle) /\ Plain(old, Off)
    /\ \A old : Plain(old, [Idle EXCEPT !.pc = "save"])
    /\ \A old, read : \A pc \in {"select", "summarise"} :
           Plain(old, [Idle EXCEPT !.pc = pc, !.read = read])
    /\ \A old, ms : Plain(old, [Idle EXCEPT !.pc = "save", !.erasing = ms])
BY DEF Plain, Idle, Off

LEMMA PlainSteps ==
    ASSUME TypeOK, NEW t \in Thread,
           \/ TakeTask(t) \/ ForceSave(t)
           \/ FinishCheckpoint(t) \/ AbortCheckpoint(t)
           \/ SelectPending(t) \/ MarkSelected(t) \/ FinishForceSave(t)
           \/ \E pm \in thread[t].todo : Integrate(t, pm) \/ Absorb(t, pm) \/ Contradict(t, pm)
           \/ FinishReflection(t) \/ PostNotes(t)
           \/ CommitInsights(t) \/ RecordInteraction(t) \/ WriteFile(t) \/ AbortWrite(t)
           \/ CognitiveShutdown(t)
           \/ \E p \in Person : DeleteOwnerData(t, p)
           \/ \E frozen \in BOOLEAN : SetFrozen(t, frozen)
    PROVE  PlainStep
<1>. DEFINE old == thread[t]
<1>0. old \in ThreadState
    BY DEF TypeOK
<1>1. \/ \E state \in {Idle, Off, [Idle EXCEPT !.pc = "save"]} : Becomes(t, state)
      \/ \E read : \E pc \in {"select", "summarise"} :
             Becomes(t, [Idle EXCEPT !.pc = pc, !.read = read])
      \/ \E ms : Becomes(t, [Idle EXCEPT !.pc = "save", !.erasing = ms])
      \/ Becomes(t, [old EXCEPT !.pc = "select"])
      \/ Becomes(t, [old EXCEPT !.pc = "mark", !.todo = pending])
      \/ Becomes(t, [old EXCEPT !.pc = "add", !.read = {}])
      \/ \E pm, notes : At(t, "add") /\ Becomes(t, [old EXCEPT !.todo = @ \ {pm}, !.notes = notes])
      \/ Becomes(t, [old EXCEPT !.pc = "post", !.view = {}])
      \/ Becomes(t, [old EXCEPT !.pc = "accepted", !.todo = {}])
    BY DEF TakeTask, ForceSave, FinishCheckpoint, AbortCheckpoint, SelectPending, MarkSelected,
           FinishForceSave, Integrate, Absorb, Contradict, Decide, FinishReflection, PostNotes,
           CommitInsights, RecordInteraction, WriteFile, AbortWrite, CognitiveShutdown,
           DeleteOwnerData, SetFrozen
<1>2. /\ Plain(old, [old EXCEPT !.pc = "select"])
      /\ Plain(old, [old EXCEPT !.pc = "mark", !.todo = pending])
      /\ Plain(old, [old EXCEPT !.pc = "add", !.read = {}])
      /\ Plain(old, [old EXCEPT !.pc = "post", !.view = {}])
      /\ Plain(old, [old EXCEPT !.pc = "accepted", !.todo = {}])
      /\ \A pm, notes : At(t, "add") => Plain(old, [old EXCEPT !.todo = @ \ {pm}, !.notes = notes])
    BY <1>0 DEF Plain, ThreadState, At
<1>. HIDE DEF old
<1>3. CASE \/ \E state \in {Idle, Off, [Idle EXCEPT !.pc = "save"]} : Becomes(t, state)
           \/ \E read : \E pc \in {"select", "summarise"} :
                  Becomes(t, [Idle EXCEPT !.pc = pc, !.read = read])
           \/ \E ms : Becomes(t, [Idle EXCEPT !.pc = "save", !.erasing = ms])
    <2>1. \E state : Becomes(t, state) /\ Plain(old, state)
        BY <1>3, IdleIsPlain
    <2>. QED
        BY <2>1 DEF PlainStep, old
<1>4. CASE \/ Becomes(t, [old EXCEPT !.pc = "select"])
           \/ Becomes(t, [old EXCEPT !.pc = "mark", !.todo = pending])
           \/ Becomes(t, [old EXCEPT !.pc = "add", !.read = {}])
           \/ Becomes(t, [old EXCEPT !.pc = "post", !.view = {}])
           \/ Becomes(t, [old EXCEPT !.pc = "accepted", !.todo = {}])
    <2>1. \E state : Becomes(t, state) /\ Plain(old, state)
        BY <1>2, <1>4
    <2>. QED
        BY <2>1 DEF PlainStep, old
<1>5. ASSUME NEW pm, NEW notes, At(t, "add"),
             Becomes(t, [old EXCEPT !.todo = @ \ {pm}, !.notes = notes])
      PROVE  PlainStep
    BY <1>2, <1>5 DEF PlainStep, old
<1>. QED
    BY <1>1, <1>3, <1>4, <1>5

LEMMA StillBacked ==
    ASSUME Backed, Kept \subseteq Kept', erased \subseteq erased',
           narrative' \cup Sources(memory_store') \subseteq Kept',
           candidates' \subseteq candidates, BackedThreads', Answers(disk, erased)'
    PROVE  Backed'
<1>1. Sources(candidates') \subseteq Kept'
    BY SourcesGrow DEF Backed
<1>. QED
    BY <1>1 DEF Backed

LEMMA StoreGrows ==
    ASSUME memory_store \subseteq memory_store', erased \subseteq erased'
    PROVE  Kept \subseteq Kept'
BY SourcesGrow DEF Kept, Known

\* Nothing that quotes changes.
LEMMA QuietBacked ==
    ASSUME TypeOK, Backed, UNCHANGED <<memory_store, narrative, erased, disk>>,
           candidates' \subseteq candidates, PlainStep \/ UNCHANGED thread
    PROVE  Backed'
<1>1. Kept' = Kept
    BY DEF Kept, Known, Sources, Episodes
<1>2. UNCHANGED thread => BackedThreads'
    BY <1>1 DEF BackedThreads, Backed
<1>. QED
    BY <1>1, <1>2, PlainBacked, StillBacked DEF Backed, Answers

\* A new memory, of what its thread had in hand.
LEMMA StoreBacked ==
    ASSUME TypeOK, Backed, NEW t \in Thread,
           \/ \E pm \in thread[t].todo : Integrate(t, pm)
           \/ CommitInsights(t) \/ FinishReflection(t)
    PROVE  Backed'
<1>1. PlainStep
    BY PlainSteps
<1>2. /\ memory_store \subseteq memory_store'
      /\ UNCHANGED <<candidates, disk, erased>>
    BY DEF Integrate, Decide, CommitInsights, FinishReflection, history
<1>3. Kept \subseteq Kept'
    BY <1>2, StoreGrows
<1>4. BackedThread(thread[t], Kept, erased)
    BY DEF Backed, BackedThreads
<1>5. ASSUME NEW r \in memory_store' \ memory_store
      PROVE  r.src \subseteq Kept'
    <2>1. CASE \E pm \in thread[t].todo : Integrate(t, pm)
        <3>1. r.kind = "episode"
            BY <1>5, <2>1 DEF Integrate
        <3>. QED
            BY <1>5, <3>1 DEF Kept, Known, Sources, Episodes
    <2>2. CASE CommitInsights(t)
        <3>1. PICK i \in thread[t].todo : r.src = i.src
            BY <1>5, <2>2 DEF CommitInsights
        <3>2. thread[t].pc = "dreaming"
            BY <2>2 DEF CommitInsights, At
        <3>. QED
            BY <1>3, <1>4, <3>1, <3>2 DEF BackedThread, Quotes, Sources
    <2>3. CASE FinishReflection(t)
        <3>1. r.src = thread[t].view
            BY <1>5, <2>3 DEF FinishReflection
        <3>. QED
            BY <1>3, <1>4, <3>1 DEF BackedThread, Quotes
    <2>. QED
        BY <2>1, <2>2, <2>3
<1>6. Sources(memory_store') \subseteq Kept'
    BY <1>3, <1>5 DEF Backed, Sources
<1>7. narrative' \subseteq narrative \cup thread[t].view
    BY DEF Integrate, Decide, CommitInsights, FinishReflection
<1>8. narrative' \cup Sources(memory_store') \subseteq Kept'
    BY <1>3, <1>4, <1>6, <1>7 DEF Backed, BackedThread, Quotes
<1>. QED
    BY <1>1, <1>2, <1>3, <1>8, PlainBacked, StillBacked DEF Backed, Answers

\* A thread that begins to quote.
LEMMA QuoteBacked ==
    ASSUME TypeOK, Backed, NEW t \in Thread,
           \/ \E scope, role : BeginInteraction(t, scope, role)
           \/ BeginReflection(t) \/ TakeSnapshot(t)
    PROVE  Backed'
<1>0. thread[t] \in ThreadState /\ BackedThread(thread[t], Kept, erased)
    BY DEF TypeOK, Backed, BackedThreads
<1>1. /\ memory_store \subseteq memory_store'
      /\ Sources(memory_store') = Sources(memory_store)
      /\ candidates' \subseteq candidates
      /\ UNCHANGED <<narrative, disk, erased>>
    <2>1. CASE TakeSnapshot(t) \/ \E scope, role : BeginInteraction(t, scope, role)
        BY <2>1 DEF BeginInteraction, TakeSnapshot, mind_vars, history
    <2>2. CASE BeginReflection(t)
        <3>1. /\ UNCHANGED <<candidates, narrative, disk, erased>>
              /\ memory_store \subseteq memory_store'
              /\ \A r \in memory_store' \ memory_store : r.src = {}
            BY <2>2 DEF BeginReflection, history
        <3>. QED
            BY <3>1 DEF Sources
    <2>. QED
        BY <2>1, <2>2
<1>2. Kept \subseteq Kept'
    BY <1>1, StoreGrows
<1>3. PICK state :
          /\ Becomes(t, state)
          /\ \/ state.view = {} /\ state.saved = NoFile /\ state.todo \subseteq candidates
             \/ \E text \in {Sources(Public(memory_store)), narrative} :
                    state = [thread[t] EXCEPT !.pc = "reflect", !.view = text]
             \/ \E frozen :
                    state = [thread[t] EXCEPT !.pc = "write",
                                 !.saved = [memory_store |-> memory_store, is_frozen |-> frozen,
                                            narrative |-> narrative]]
    <2>1. ASSUME NEW scope, NEW role, BeginInteraction(t, scope, role)
          PROVE  \E state : /\ Becomes(t, state)
                            /\ state.view = {} /\ state.saved = NoFile
                            /\ state.todo \subseteq candidates
        <3>. DEFINE wakes == role = "user" /\ candidates # {}
                    begun == [Idle EXCEPT !.pc = IF wakes THEN "dreaming" ELSE "accepted",
                                          !.scope = scope, !.role = role,
                                          !.todo = IF wakes THEN candidates ELSE {}]
        <3>1. Becomes(t, begun)
            BY <2>1 DEF BeginInteraction
        <3>2. begun.view = {} /\ begun.saved = NoFile /\ begun.todo \subseteq candidates
            BY DEF Idle
        <3>. HIDE DEF begun
        <3>. QED
            BY <3>1, <3>2
    <2>2. CASE \E scope, role : BeginInteraction(t, scope, role)
        BY <2>1, <2>2
    <2>3. CASE BeginReflection(t) \/ TakeSnapshot(t)
        BY <2>3 DEF BeginReflection, TakeSnapshot
    <2>. QED
        BY <2>2, <2>3
<1>4. /\ state.view \subseteq Kept
      /\ Sources(state.saved.memory_store) \subseteq Kept
      /\ state.pc = "dreaming" => Sources(state.todo) \subseteq Kept
      /\ Answers(state.saved, erased)
    <2>1. CASE state.view = {} /\ state.saved = NoFile /\ state.todo \subseteq candidates
        BY <2>1, SourcesGrow, NoFileQuotes DEF Backed
    <2>2. ASSUME NEW text \in {Sources(Public(memory_store)), narrative},
                 state = [thread[t] EXCEPT !.pc = "reflect", !.view = text]
          PROVE  /\ state.view \subseteq Kept
                 /\ Sources(state.saved.memory_store) \subseteq Kept
                 /\ state.pc = "dreaming" => Sources(state.todo) \subseteq Kept
                 /\ Answers(state.saved, erased)
        <3>1. /\ state.view = text
              /\ state.saved = thread[t].saved /\ state.pc = "reflect"
            BY <1>0, <2>2 DEF ThreadState
        <3>2. Sources(Public(memory_store)) \subseteq Sources(memory_store)
            BY SourcesGrow DEF Public
        <3>. QED
            BY <1>0, <3>1, <3>2 DEF Backed, BackedThread, Quotes
    <2>3. CASE \E frozen :
                   state = [thread[t] EXCEPT !.pc = "write",
                                !.saved = [memory_store |-> memory_store, is_frozen |-> frozen,
                                           narrative |-> narrative]]
        <3>1. /\ state.saved.memory_store = memory_store /\ state.saved.narrative = narrative
              /\ state.view = thread[t].view /\ state.pc = "write"
            BY <1>0, <2>3 DEF ThreadState
        <3>. QED
            BY <1>0, <3>1 DEF Backed, BackedThread, Quotes, Answers, Kept, Known
    <2>. QED
        BY <1>3, <2>1, <2>2, <2>3
<1>5. BackedThread(state, Kept, erased)
    BY <1>4 DEF BackedThread, Quotes
<1>6. BackedThreads'
    <2>1. /\ thread'[t] = state
          /\ \A u \in Thread \ {t} : thread'[u] = thread[u]
        BY <1>3 DEF Becomes, TypeOK
    <2>2. \A u \in Thread : BackedThread(thread'[u], Kept, erased)
        BY <1>5, <2>1 DEF Backed, BackedThreads
    <2>. QED
        BY <1>1, <1>2, <2>2, MoreBacked DEF BackedThreads
<1>. QED
    BY <1>1, <1>2, <1>6, StillBacked DEF Backed

\* The file is replaced by what a thread had taken of the store.
LEMMA FileBacked ==
    ASSUME TypeOK, Backed, NEW c \in Caller, WriteFile(c)
    PROVE  Backed'
<1>1. PlainStep /\ c \in Thread
    BY PlainSteps DEF Thread
<1>2. /\ UNCHANGED <<memory_store, narrative, candidates, erased>>
      /\ disk' = thread[c].saved
    BY DEF WriteFile, mind_vars
<1>3. Answers(disk, erased)'
    BY <1>1, <1>2 DEF Backed, BackedThreads, BackedThread, Answers
<1>4. Kept' = Kept
    BY <1>2 DEF Kept, Known, Sources, Episodes
<1>. QED
    BY <1>1, <1>2, <1>3, <1>4, PlainBacked, StillBacked DEF Backed

\* Erasure, the kill switch and a reset take from the store what they record as erased.
LEMMA TakenKept ==
    ASSUME Purity, NEW c \in Caller,
           \/ \E p \in Person : DeleteOwnerData(c, p)
           \/ CognitiveShutdown(c) \/ SoftReset(c)
    PROVE  /\ memory_store' \subseteq memory_store /\ candidates' \subseteq candidates
           /\ erased \subseteq erased' /\ narrative' \subseteq narrative /\ UNCHANGED disk
           /\ Kept \subseteq Kept'
<1>1. /\ memory_store' \subseteq memory_store /\ candidates' \subseteq candidates
      /\ erased \subseteq erased' /\ narrative' \subseteq narrative /\ UNCHANGED disk
    BY DEF DeleteOwnerData, CognitiveShutdown, SoftReset, AbsoluteCores
<1>2. ASSUME NEW r \in Episodes(memory_store), r \notin memory_store', NEW m \in r.src
      PROVE  m \in erased'
    <2>1. /\ m \in DOMAIN said /\ said[m] = r.scope
          /\ r \in memory_store /\ r.kind = "episode"
        BY <1>2 DEF Purity, PureMind, PureStore, Own, Episodes
    <2>2. ASSUME NEW p \in Person, DeleteOwnerData(c, p)
          PROVE  m \in erased'
        BY <1>2, <2>1, <2>2 DEF DeleteOwnerData, Of
    <2>3. CASE CognitiveShutdown(c)
        BY <1>2, <2>3 DEF CognitiveShutdown, Sources
    <2>4. CASE SoftReset(c)
        BY <2>1, <2>4 DEF SoftReset
    <2>. QED
        BY <2>2, <2>3, <2>4
<1>3. Kept \subseteq Kept'
    BY <1>1, <1>2 DEF Kept, Known, Sources, Episodes
<1>. QED
    BY <1>1, <1>3

LEMMA TakenBacked ==
    ASSUME TypeOK, Purity, Backed, NEW c \in Caller,
           \/ \E p \in Person : DeleteOwnerData(c, p)
           \/ CognitiveShutdown(c) \/ SoftReset(c)
    PROVE  Backed'
<1>0. c \in Thread
    BY DEF Thread
<1>1. /\ memory_store' \subseteq memory_store /\ candidates' \subseteq candidates
      /\ erased \subseteq erased' /\ narrative' \subseteq narrative /\ UNCHANGED disk
      /\ Kept \subseteq Kept'
    BY TakenKept
<1>3. Kept \subseteq Kept'
    BY <1>1
<1>4. narrative' \cup Sources(memory_store') \subseteq Kept'
    BY <1>1, <1>3, SourcesGrow DEF Backed
<1>5. BackedThreads'
    <2>1. CASE CognitiveShutdown(c) \/ \E p \in Person : DeleteOwnerData(c, p)
        BY <1>0, <1>1, <1>3, <2>1, PlainSteps, PlainBacked DEF Backed
    <2>2. CASE SoftReset(c)
        <3>. DEFINE saving == [Idle EXCEPT !.pc = "save"]
        <3>1. PICK w \in Worker : thread' = [thread EXCEPT ![w] = Idle, ![c] = saving]
            BY <2>2 DEF SoftReset
        <3>2. \A u \in Thread : thread'[u] \in {thread[u], Idle, saving}
            BY <3>1 DEF TypeOK
        <3>3. BackedThread(Idle, Kept', erased') /\ BackedThread(saving, Kept', erased')
            <4>1. \A state \in {Idle, saving} :
                      state.view = {} /\ state.saved = NoFile /\ state.pc # "dreaming"
                BY DEF Idle
            <4>. HIDE DEF saving
            <4>. QED
                BY <4>1, NoFileQuotes, SourcesGrow DEF BackedThread, Quotes
        <3>4. \A u \in Thread : BackedThread(thread[u], Kept', erased')
            BY <1>1, <1>3, MoreBacked DEF Backed, BackedThreads
        <3>. HIDE DEF saving
        <3>. QED
            BY <3>2, <3>3, <3>4 DEF BackedThreads
    <2>. QED
        BY <2>1, <2>2
<1>6. Answers(disk, erased)'
    BY <1>1 DEF Backed, Answers
<1>. QED
    BY <1>1, <1>3, <1>4, <1>5, <1>6, StillBacked

\* A new process knows what the file knows.
LEMMA StartBacked ==
    ASSUME TypeOK, Backed, NEW file, Start(file), Answers(file, erased)
    PROVE  Backed'
<1>1. /\ memory_store' = file.memory_store \cup Genesis /\ narrative' = file.narrative
      /\ UNCHANGED <<disk, erased>>
      /\ \A t \in Thread : thread'[t] \in {Idle, Off}
    BY DEF Start, history
<1>2. \A g \in Genesis : g.src = {} /\ g.kind = "genesis"
    BY DEF Genesis
<1>3. /\ Sources(memory_store') = Sources(file.memory_store)
      /\ Episodes(memory_store') = Episodes(file.memory_store)
    BY <1>1, <1>2 DEF Sources, Episodes
<1>4. Known' = Sources(Episodes(file.memory_store))
    BY <1>3 DEF Known
<1>5. narrative' \cup Sources(memory_store') \subseteq Kept'
    BY <1>1, <1>3, <1>4 DEF Kept, Answers
<1>6. Sources(candidates') \subseteq Sources(memory_store')
    <2>1. candidates' \subseteq Insights(memory_store')
        BY <1>1 DEF Start
    <2>2. \A i \in Insights(memory_store') : i.src \subseteq Sources(memory_store')
        BY DEF Insights, Sources
    <2>. QED
        BY <2>1, <2>2 DEF Sources
<1>7. BackedThreads'
    <2>1. \A state \in {Idle, Off} :
              state.view = {} /\ state.saved = NoFile /\ state.pc # "dreaming"
        BY DEF Idle, Off
    <2>2. \A state \in {Idle, Off} : BackedThread(state, Kept', erased')
        BY <2>1, NoFileQuotes, SourcesGrow DEF BackedThread, Quotes
    <2>. QED
        BY <1>1, <2>2 DEF BackedThreads
<1>8. Answers(disk, erased)'
    BY <1>1 DEF Backed, Answers
<1>. QED
    BY <1>5, <1>6, <1>7, <1>8 DEF Backed

\* Every step keeps it but a load that fails half way.
LEMMA BackedInductive ==
    ASSUME TypeOK, Purity, Backed, [Next]_vars, ~RestartAfresh
    PROVE  Backed'
<1>1. Worker \subseteq Thread /\ Caller \subseteq Thread
    BY DEF Thread
<1>2. ASSUME NEW t \in Thread,
             \/ TakeTask(t) \/ ForceSave(t) \/ FinishCheckpoint(t) \/ AbortCheckpoint(t)
             \/ SelectPending(t) \/ MarkSelected(t) \/ FinishForceSave(t)
             \/ \E pm \in thread[t].todo : Absorb(t, pm) \/ Contradict(t, pm)
             \/ PostNotes(t) \/ RecordInteraction(t) \/ AbortWrite(t)
             \/ \E frozen \in BOOLEAN : SetFrozen(t, frozen)
             \/ \E viewer : BuildContext(t, viewer)
      PROVE  Backed'
    <2>1. UNCHANGED <<memory_store, narrative, erased, disk>> /\ candidates' \subseteq candidates
        BY <1>2 DEF TakeTask, ForceSave, FinishCheckpoint, AbortCheckpoint, SelectPending,
                    MarkSelected, FinishForceSave, Absorb, Contradict, Dismiss, Decide, PostNotes,
                    RecordInteraction, AbortWrite, SetFrozen, BuildContext, mind_vars, history
    <2>2. PlainStep \/ UNCHANGED thread
        BY <1>2, PlainSteps DEF BuildContext
    <2>. QED
        BY <2>1, <2>2, QuietBacked
<1>3. ASSUME NEW w \in Worker, WorkerStep(w)
      PROVE  Backed'
    BY <1>1, <1>2, <1>3, StoreBacked, QuoteBacked DEF WorkerStep
<1>4. ASSUME NEW c \in Caller, CallerStep(c)
      PROVE  Backed'
    BY <1>1, <1>2, <1>4, StoreBacked, QuoteBacked, FileBacked DEF CallerStep
<1>5. ASSUME NEW c \in Caller, Call(c)
      PROVE  Backed'
    BY <1>1, <1>2, <1>5, QuoteBacked, TakenBacked DEF Call
<1>6. CASE Restart
    BY <1>6, StartBacked DEF Restart, Backed
<1>7. CASE UNCHANGED vars
    BY <1>7, QuietBacked DEF vars, mind_vars, history
<1>. QED
    BY <1>1, <1>2, <1>3, <1>4, <1>5, <1>6, <1>7 DEF Next

\* No file was left half loaded.
WellLoaded == Unused({"crash"}) \/ Unused({"fault"})

\* Whatever a memory, an insight, a reflection, the narrative, a snapshot or the
\* file is made of has a memory of its own in the same place, or was erased on
\* request; until a process that starts may have loaded half of its file.
THEOREM QuotedIsRemembered == Spec => [](WellLoaded => Backed)
<1>. DEFINE Inv == Within /\ (WellLoaded => Backed)
<1>1. Init => Inv
    <2>. SUFFICES ASSUME Init PROVE Backed
        BY InitAlone
    <2>1. \A t \in Thread : thread[t] \in {Idle, Off}
        BY DEF Init
    <2>2. \A state \in {Idle, Off} :
              state.view = {} /\ state.saved = NoFile /\ state.pc # "dreaming"
        BY DEF Idle, Off
    <2>3. BackedThreads
        BY <2>1, <2>2, NoFileQuotes, SourcesGrow DEF BackedThreads, BackedThread, Quotes
    <2>4. Sources(memory_store) = {}
        BY DEF Init, Genesis, Sources
    <2>. QED
        BY <2>3, <2>4, NoFileQuotes, SourcesGrow DEF Init, Backed
<1>2. TypeOK /\ TypeOK' /\ Purity /\ Inv /\ [Next]_vars => Inv'
    <2>. SUFFICES ASSUME TypeOK, TypeOK', Purity, Inv, [Next]_vars PROVE Inv'
        OBVIOUS
    <2>1. Within'
        BY WithinInductive
    <2>2. ASSUME WellLoaded'
          PROVE  Backed'
        <3>1. {"crash"} \subseteq Operation /\ {"fault"} \subseteq Operation
            BY DEF Operation
        <3>2. WellLoaded
            BY <2>2, <3>1, UnusedBefore DEF WellLoaded
        <3>3. ~RestartAfresh
            BY <2>2 DEF WellLoaded, Unused, RestartAfresh, Within, TypeOK, Operation
        <3>. QED
            BY <3>2, <3>3, BackedInductive
    <2>. QED
        BY <2>1, <2>2
<1>3. Inv => (WellLoaded => Backed)
    OBVIOUS
<1>. HIDE DEF Inv
<1>. QED
    BY <1>1, <1>2, <1>3, PurityHolds, TypeCorrect, PTL DEF Spec

-----------------------------------------------------------------------------
(***************************************************************************)
(* What is about to be written was remembered, whatever was loaded: an     *)
(* episode in a snapshot is in the store, or was erased since.             *)
(***************************************************************************)

SavedKept == \A t \in Thread : Sources(Episodes(thread[t].saved.memory_store)) \subseteq Kept

\* A thread that starts has no snapshot.
LEMMA StartSaves ==
    ASSUME NEW file, Start(file), NEW u \in Thread
    PROVE  thread'[u].saved = NoFile
BY DEF Start, Idle, Off

\* A thread's snapshot is the one it had, none, or one of the store as it is.
LEMMA SavedIs ==
    ASSUME TypeOK, [Next]_vars, NEW u \in Thread
    PROVE  \/ thread'[u].saved \in {thread[u].saved, NoFile}
           \/ thread'[u].saved.memory_store = memory_store
<1>0. Worker \subseteq Thread /\ Caller \subseteq Thread
    BY DEF Thread
<1>1. ASSUME NEW t \in Thread, NEW state, Becomes(t, state),
             state.saved \in {thread[t].saved, NoFile} \/ state.saved.memory_store = memory_store
      PROVE  \/ thread'[u].saved \in {thread[u].saved, NoFile}
             \/ thread'[u].saved.memory_store = memory_store
    BY <1>1 DEF Becomes, TypeOK
<1>2. CASE PlainStep
    BY <1>1, <1>2 DEF PlainStep, Plain
<1>3. ASSUME NEW t \in Thread, NEW scope, NEW role, BeginInteraction(t, scope, role)
      PROVE  thread'[u].saved \in {thread[u].saved, NoFile}
    BY <1>3 DEF BeginInteraction, Becomes, Idle, TypeOK
<1>4. ASSUME NEW t \in Thread, BeginReflection(t)
      PROVE  thread'[u].saved = thread[u].saved
    <2>1. thread[t] \in ThreadState
        BY DEF TypeOK
    <2>2. PICK text : Becomes(t, [thread[t] EXCEPT !.pc = "reflect", !.view = text])
        BY <1>4 DEF BeginReflection
    <2>. QED
        BY <2>1, <2>2 DEF Becomes, ThreadState, TypeOK
<1>5. ASSUME NEW t \in Thread, TakeSnapshot(t)
      PROVE  \/ thread'[u].saved = thread[u].saved
             \/ thread'[u].saved.memory_store = memory_store
    <2>1. thread[t] \in ThreadState
        BY DEF TypeOK
    <2>. QED
        BY <1>5, <2>1 DEF TakeSnapshot, Becomes, ThreadState, TypeOK
<1>6. ASSUME NEW t \in Thread, SoftReset(t)
      PROVE  thread'[u].saved \in {thread[u].saved, NoFile}
    BY <1>6 DEF SoftReset, Idle, TypeOK
<1>7. CASE Restart \/ RestartAfresh
    BY <1>7, StartSaves DEF Restart, RestartAfresh
<1>8. ASSUME UNCHANGED vars \/ \E t : \E viewer : BuildContext(t, viewer)
      PROVE  thread'[u].saved = thread[u].saved
    BY <1>8 DEF vars, BuildContext
<1>9. ASSUME NEW w \in Worker, WorkerStep(w)
      PROVE  PlainStep \/ BeginReflection(w)
    BY <1>0, <1>9, PlainSteps DEF WorkerStep
<1>10. ASSUME NEW c \in Caller, CallerStep(c)
       PROVE  PlainStep \/ TakeSnapshot(c)
    BY <1>0, <1>10, PlainSteps DEF CallerStep
<1>11. ASSUME NEW c \in Caller, Call(c)
       PROVE  \/ PlainStep \/ SoftReset(c)
              \/ \E scope, role : BeginInteraction(c, scope, role)
              \/ \E viewer : BuildContext(c, viewer)
    BY <1>0, <1>11, PlainSteps DEF Call
<1>12. ASSUME NEW t \in Thread, AbortCheckpoint(t) \/ AbortWrite(t)
       PROVE  PlainStep
    BY <1>12, PlainSteps
<1>. QED
    BY <1>0, <1>2, <1>3, <1>4, <1>5, <1>6, <1>7, <1>8, <1>9, <1>10, <1>11, <1>12 DEF Next

\* What is kept is kept by every step but the end of the process.
LEMMA KeptGrows ==
    ASSUME Purity, [Next]_vars, ~Restart, ~RestartAfresh
    PROVE  Kept \subseteq Kept'
<1>1. ASSUME NEW c \in Caller, \/ \E p \in Person : DeleteOwnerData(c, p)
                               \/ CognitiveShutdown(c) \/ SoftReset(c)
      PROVE  Kept \subseteq Kept'
    BY <1>1, TakenKept
<1>2. ASSUME NEW w, WorkerStep(w)
      PROVE  memory_store \subseteq memory_store' /\ erased' = erased
    BY <1>2 DEF WorkerStep, TakeTask, FinishCheckpoint, SelectPending, MarkSelected, Decide,
                Integrate, Absorb, Contradict, Dismiss, BeginReflection, FinishReflection,
                PostNotes, mind_vars, history
<1>3. ASSUME NEW c, CallerStep(c)
      PROVE  memory_store \subseteq memory_store' /\ erased' = erased
    BY <1>3 DEF CallerStep, CommitInsights, RecordInteraction, FinishCheckpoint, SelectPending,
                MarkSelected, Decide, Integrate, Absorb, Contradict, Dismiss, FinishForceSave,
                TakeSnapshot, WriteFile, mind_vars, history
<1>4. ASSUME NEW c, \/ \E scope, role : BeginInteraction(c, scope, role)
                    \/ \E viewer : BuildContext(c, viewer)
                    \/ ForceSave(c) \/ AbortWrite(c) \/ AbortCheckpoint(c)
                    \/ \E frozen \in BOOLEAN : SetFrozen(c, frozen)
      PROVE  memory_store \subseteq memory_store' /\ erased' = erased
    BY <1>4 DEF BeginInteraction, BuildContext, ForceSave, AbortWrite, AbortCheckpoint,
                SetFrozen, mind_vars, history
<1>5. UNCHANGED vars => memory_store \subseteq memory_store' /\ erased' = erased
    BY DEF vars, mind_vars, history
<1>6. \/ memory_store \subseteq memory_store' /\ erased' = erased
      \/ \E c \in Caller : \/ \E p \in Person : DeleteOwnerData(c, p)
                           \/ CognitiveShutdown(c) \/ SoftReset(c)
    BY <1>2, <1>3, <1>4, <1>5 DEF Next, Call
<1>. QED
    BY <1>1, <1>6, StoreGrows

LEMMA SavedInductive ==
    ASSUME TypeOK, Purity, SavedKept, [Next]_vars
    PROVE  SavedKept'
<1>0. Sources(Episodes(NoFile.memory_store)) = {}
    BY NoFileQuotes, SourcesGrow DEF Episodes
<1>1. CASE Restart \/ RestartAfresh
    <2>1. \A u \in Thread : thread'[u].saved = NoFile
        BY <1>1, StartSaves DEF Restart, RestartAfresh
    <2>. QED
        BY <1>0, <2>1 DEF SavedKept
<1>2. CASE ~Restart /\ ~RestartAfresh
    <2>1. Kept \subseteq Kept'
        BY <1>2, KeptGrows
    <2>2. ASSUME NEW u \in Thread
          PROVE  Sources(Episodes(thread'[u].saved.memory_store)) \subseteq Kept
        BY <1>0, SavedIs DEF SavedKept, Kept, Known
    <2>. QED
        BY <2>1, <2>2 DEF SavedKept
<1>. QED
    BY <1>1, <1>2

LEMMA SavedHolds == Spec => []SavedKept
<1>1. Sources(Episodes(NoFile.memory_store)) = {}
    BY NoFileQuotes, SourcesGrow DEF Episodes
<1>2. Idle.saved = NoFile /\ Off.saved = NoFile
    BY DEF Idle, Off
<1>3. Init => SavedKept
    BY <1>1, <1>2 DEF Init, SavedKept
<1>. QED
    BY <1>3, SavedInductive, PurityHolds, TypeCorrect, PTL DEF Spec

-----------------------------------------------------------------------------
(***************************************************************************)
(* What becomes of the messages.  SharedMind implements MessageFate: a     *)
(* step fades the fates (it loses messages, or nothing), or it is one of   *)
(* the steps MessageFate allows.  Which of the two rests on every message  *)
(* being at one station only, and that on the summaries: the ones whose    *)
(* outcome is decided are marked, and no message is in two.                *)
(***************************************************************************)

\* The summaries whose outcome is decided.
Passed == flushed \ (IF At(FirstWorker, "add") THEN thread[FirstWorker].todo ELSE {})

RowsFit ==
    /\ \A r \in rows : r.session =< session_id
    /\ At(FirstWorker, "summarise") =>
           \A r \in thread[FirstWorker].read : r \in Unmarked \/ r.id \in erased

\* What the worker has in hand is in the table, or was erased since.
TodoFits ==
    /\ pending \cap flushed = {}
    /\ At(FirstWorker, "mark") =>
           \A x \in thread[FirstWorker].todo : x \in pending \/ x.src \subseteq erased
    /\ At(FirstWorker, "add") =>
           \A x \in thread[FirstWorker].todo : x \in flushed \/ x.src \subseteq erased

\* What is remembered or dismissed went through the table.
OverFits ==
    /\ dismissed \cup Remembered \subseteq erased \cup Sources(Passed)
    /\ dismissed \cap Remembered \subseteq erased
    /\ dismissed \cup erased \subseteq DOMAIN said

Stages == RowsFit /\ TodoFits /\ OverFits

LEMMA RememberedIs == Remembered = Known \cup OnFile /\ Remembered' = Known' \cup OnFile'
BY DEF Remembered, Known, OnFile, Episodes

LEMMA UnderwayIsAhead == ASSUME WorkerAlone, NEW m PROVE Underway(m) <=> Ahead(m)
<1>1. \A t \in Thread \ {FirstWorker} : thread[t].pc \notin {"mark", "add"}
    BY DEF WorkerAlone, Thread
<1>. QED
    BY <1>1, FirstIsWorker DEF Underway, InHand, Ahead

LEMMA UnderwayIsAheadNext == ASSUME WorkerAlone', NEW m PROVE Underway(m)' <=> Ahead(m)'
<1>1. \A t \in Thread \ {FirstWorker} : thread'[t].pc \notin {"mark", "add"}
    BY DEF WorkerAlone, Thread
<1>. QED
    BY <1>1, FirstIsWorker DEF Underway, InHand, Ahead

\* A message is at one station only.
LEMMA Exclusive ==
    ASSUME Purity, WorkerAlone, Once, Stages, NEW m, m \notin erased
    PROVE  /\ m \in dismissed => m \notin Remembered
           /\ m \in dismissed \cup Remembered => ~Waiting(m) /\ ~Underway(m)
           /\ Underway(m) => ~Waiting(m)
<1>1. ASSUME Ahead(m)
      PROVE  \E x \in (pending \cup flushed) \ Passed : m \in x.src
    <2>1. CASE m \in Sources(pending)
        BY <2>1 DEF Sources, Passed, Stages, TodoFits
    <2>2. CASE At(FirstWorker, "mark") /\ m \in Sources(thread[FirstWorker].todo)
        BY <2>2 DEF Sources, Passed, Stages, TodoFits
    <2>3. CASE At(FirstWorker, "add") /\ m \in Sources(thread[FirstWorker].todo)
        BY <2>3 DEF Sources, Passed, Stages, TodoFits
    <2>. QED
        BY <1>1, <2>1, <2>2, <2>3 DEF Ahead, At
<1>2. ASSUME m \in dismissed \cup Remembered
      PROVE  \E y \in Passed : m \in y.src
    BY <1>2 DEF Stages, OverFits, Sources
<1>3. Passed \subseteq pending \cup flushed
    BY DEF Passed
<1>4. m \in Summarised => ~Waiting(m)
    BY DEF Once, Waiting
<1>5. Ahead(m) \/ m \in dismissed \cup Remembered => m \in Summarised
    BY <1>1, <1>2, <1>3 DEF Summarised, Sources
<1>6. ~(Ahead(m) /\ m \in dismissed \cup Remembered)
    <2>. SUFFICES ASSUME Ahead(m), m \in dismissed \cup Remembered PROVE FALSE
        OBVIOUS
    <2>1. PICK x \in (pending \cup flushed) \ Passed : m \in x.src
        BY <1>1
    <2>2. PICK y \in Passed : m \in y.src
        BY <1>2
    <2>. QED
        BY <1>3, <2>1, <2>2 DEF Once
<1>. QED
    BY <1>4, <1>5, <1>6, UnderwayIsAhead DEF Stages, OverFits

LEMMA FateIs ==
    ASSUME NEW m
    PROVE  /\ m \in erased <=> FateOf(m) = "erased"
           /\ m \notin erased /\ m \in dismissed <=> FateOf(m) = "dismissed"
           /\ m \notin erased \cup dismissed /\ m \in Remembered <=> FateOf(m) = "remembered"
           /\ m \notin erased \cup dismissed \cup Remembered /\ Waiting(m)
                  <=> FateOf(m) = "waiting"
           /\ m \notin erased \cup dismissed \cup Remembered /\ ~Waiting(m) /\ Underway(m)
                  <=> FateOf(m) = "summarised"
           /\ m \notin erased \cup dismissed \cup Remembered /\ ~Waiting(m) /\ ~Underway(m)
                  <=> FateOf(m) = "lost"
BY DEF FateOf

\* The fate of m keeps, or m is lost.
Fading ==
    /\ UNCHANGED said
    /\ \A m \in DOMAIN said :
           \/ FateOf(m)' = FateOf(m)
           \/ FateOf(m)' = "lost" /\ FateOf(m) \in {"waiting", "summarised", "remembered"}

LEMMA FadingLoses == ASSUME Fading PROVE Fates!Next
<1>. DEFINE ms == {m \in DOMAIN said : FateOf(m)' # FateOf(m)}
            fate == [m \in DOMAIN said |-> FateOf(m)]
<1>1. ms \subseteq Fates!Having({"waiting", "summarised", "remembered"})
    BY DEF Fading, Fates!Having
<1>2. fate' = [m \in DOMAIN said |-> IF m \in ms THEN "lost" ELSE fate[m]]
    BY DEF Fading
<1>3. Fates!Lose(ms)
    BY <1>1, <1>2 DEF Fates!Lose, Fates!Meet, Fading
<1>4. ms \in SUBSET DOMAIN said
    OBVIOUS
<1>. HIDE DEF ms
<1>. QED
    BY <1>3, <1>4 DEF Fates!Next

LEMMA FadingStays ==
    ASSUME Fading, \A m \in DOMAIN said : FateOf(m)' # "lost"
    PROVE  UNCHANGED Fates!fates
BY DEF Fading, Fates!fates

\* What the abstract steps need: the fate of each message before and after.
LEMMA MeetsWhen ==
    ASSUME NEW ms, NEW station, UNCHANGED said,
           \A m \in DOMAIN said : FateOf(m)' = IF m \in ms THEN station ELSE FateOf(m)
    PROVE  Fates!Meet(ms, station)
BY DEF Fates!Meet

LEMMA HavingWhen ==
    ASSUME NEW ms \in SUBSET DOMAIN said, NEW stations,
           \A m \in ms : FateOf(m) \in stations
    PROVE  ms \subseteq Fates!Having(stations)
BY DEF Fates!Having

\* A step that takes messages up in no station they were not at fades the fates.
LEMMA FadesWhen ==
    ASSUME Purity, WorkerAlone, WorkerAlone', Once, Stages,
           UNCHANGED <<said, dismissed, erased>>,
           Remembered' \subseteq Remembered \cup erased,
           \A m \in DOMAIN said :
               m \notin erased => (Waiting(m)' => Waiting(m)) /\ (Ahead(m)' => Ahead(m))
    PROVE  Fading
<1>. SUFFICES ASSUME NEW m \in DOMAIN said
              PROVE  \/ FateOf(m)' = FateOf(m)
                     \/ /\ FateOf(m)' = "lost"
                        /\ FateOf(m) \in {"waiting", "summarised", "remembered"}
    BY DEF Fading
<1>1. m \notin erased => (Waiting(m)' => Waiting(m)) /\ (Underway(m)' => Underway(m))
    BY UnderwayIsAhead, UnderwayIsAheadNext
<1>2. m \notin erased => /\ m \in dismissed => m \notin Remembered
                         /\ m \in dismissed \cup Remembered => ~Waiting(m) /\ ~Underway(m)
                         /\ Underway(m) => ~Waiting(m)
    BY Exclusive
<1>. QED
    BY <1>1, <1>2 DEF FateOf

\* But for the outcome of a summary, no step makes anything remembered.
LEMMA OnlyIntegrated ==
    ASSUME TypeOK, SavedKept, [Next]_vars,
           ~ \E t \in Thread : \E pm \in thread[t].todo : Integrate(t, pm)
    PROVE  Remembered' \subseteq Remembered \cup erased
<1>0. Worker \subseteq Thread /\ Caller \subseteq Thread
    BY DEF Thread
<1>1. ASSUME Episodes(memory_store') \subseteq Episodes(memory_store), UNCHANGED disk
      PROVE  Remembered' \subseteq Remembered \cup erased
    BY <1>1, SourcesGrow, RememberedIs DEF Known, OnFile
<1>2. ASSUME NEW t \in Thread,
             \/ TakeTask(t) \/ ForceSave(t) \/ FinishCheckpoint(t) \/ AbortCheckpoint(t)
             \/ SelectPending(t) \/ MarkSelected(t) \/ FinishForceSave(t)
             \/ \E pm \in thread[t].todo : Absorb(t, pm) \/ Contradict(t, pm)
             \/ PostNotes(t) \/ RecordInteraction(t) \/ AbortWrite(t) \/ TakeSnapshot(t)
             \/ \E frozen \in BOOLEAN : SetFrozen(t, frozen)
             \/ \E viewer : BuildContext(t, viewer)
             \/ \E scope, role : BeginInteraction(t, scope, role)
      PROVE  Remembered' \subseteq Remembered \cup erased
    <2>1. UNCHANGED <<memory_store, disk>>
        BY <1>2 DEF TakeTask, ForceSave, FinishCheckpoint, AbortCheckpoint, SelectPending,
                    MarkSelected, FinishForceSave, Absorb, Contradict, Dismiss, Decide, PostNotes,
                    RecordInteraction, AbortWrite, TakeSnapshot, SetFrozen, BuildContext,
                    BeginInteraction, mind_vars
    <2>. QED
        BY <1>1, <2>1
<1>3. ASSUME NEW t \in Thread,
             \/ CommitInsights(t) \/ BeginReflection(t) \/ FinishReflection(t)
             \/ \E p \in Person : DeleteOwnerData(t, p)
             \/ CognitiveShutdown(t) \/ SoftReset(t)
      PROVE  Remembered' \subseteq Remembered \cup erased
    <2>1. UNCHANGED disk
        BY <1>3 DEF CommitInsights, BeginReflection, FinishReflection, DeleteOwnerData,
                    CognitiveShutdown, SoftReset
    <2>2. \A r \in memory_store' : r.kind = "episode" => r \in memory_store
        <3>1. CASE CommitInsights(t)
            BY <3>1 DEF CommitInsights
        <3>2. CASE BeginReflection(t)
            BY <3>2 DEF BeginReflection
        <3>3. CASE FinishReflection(t)
            BY <3>3 DEF FinishReflection
        <3>4. CASE \/ \E p \in Person : DeleteOwnerData(t, p)
                   \/ CognitiveShutdown(t) \/ SoftReset(t)
            BY <3>4 DEF DeleteOwnerData, CognitiveShutdown, SoftReset, AbsoluteCores
        <3>. QED
            BY <1>3, <3>1, <3>2, <3>3, <3>4
    <2>. QED
        BY <1>1, <2>1, <2>2 DEF Episodes
<1>4. ASSUME NEW c \in Caller, WriteFile(c)
      PROVE  Remembered' \subseteq Remembered \cup erased
    <2>1. /\ UNCHANGED memory_store
          /\ disk' = thread[c].saved
          /\ Sources(Episodes(thread[c].saved.memory_store)) \subseteq Kept
        BY <1>0, <1>4 DEF WriteFile, mind_vars, SavedKept
    <2>2. OnFile' \subseteq Kept /\ Known' = Known
        BY <2>1, SourcesGrow DEF OnFile, Known
    <2>. QED
        BY <2>2, RememberedIs DEF Kept
<1>5. CASE Restart \/ RestartAfresh
    <2>1. PICK file \in {disk} \cup HalfLoaded : Start(file)
        BY <1>5 DEF Restart, RestartAfresh
    <2>s. file.memory_store \subseteq disk.memory_store
        BY <2>1, HalfLoadedIsPart DEF TypeOK
    <2>2. UNCHANGED disk /\ Episodes(memory_store') = Episodes(file.memory_store)
        BY <2>1 DEF Start, Episodes, Genesis
    <2>3. OnFile' = OnFile /\ Known' \subseteq OnFile
        BY <2>s, <2>2, SourcesGrow DEF OnFile, Known
    <2>. QED
        BY <2>3, RememberedIs
<1>6. CASE UNCHANGED vars
    BY <1>1, <1>6 DEF vars, mind_vars
<1>7. ASSUME NEW w \in Worker, WorkerStep(w)
      PROVE  Remembered' \subseteq Remembered \cup erased
    BY <1>0, <1>2, <1>3, <1>7 DEF WorkerStep
<1>8. ASSUME NEW c \in Caller, CallerStep(c)
      PROVE  Remembered' \subseteq Remembered \cup erased
    BY <1>0, <1>2, <1>3, <1>4, <1>8 DEF CallerStep
<1>9. ASSUME NEW c \in Caller, Call(c)
      PROVE  Remembered' \subseteq Remembered \cup erased
    BY <1>0, <1>2, <1>3, <1>9 DEF Call
<1>. QED
    BY <1>0, <1>2, <1>5, <1>6, <1>7, <1>8, <1>9 DEF Next

\* The first worker alone can do that.
LEMMA OnlyTheFirst ==
    ASSUME TypeOK, SavedKept, WorkerAlone, [Next]_vars,
           \/ thread'[FirstWorker] = thread[FirstWorker]
           \/ ~ \E pm \in thread[FirstWorker].todo : Integrate(FirstWorker, pm)
    PROVE  Remembered' \subseteq Remembered \cup erased
<1>1. ASSUME NEW t \in Thread, NEW pm \in thread[t].todo, Integrate(t, pm)
      PROVE  FALSE
    <2>1. t = FirstWorker
        BY <1>1, OthersRest
    <2>2. thread[t] \in ThreadState /\ thread'[t] = [thread[t] EXCEPT !.todo = @ \ {pm}]
        <3>1. thread[t] \in ThreadState
            BY DEF TypeOK
        <3>2. thread'[t] = [thread[t] EXCEPT !.todo = @ \ {pm}, !.notes = thread[t].notes]
            BY <1>1 DEF Integrate, Decide, Becomes, TypeOK
        <3>. QED
            BY <3>1, <3>2 DEF ThreadState
    <2>3. thread'[t].todo = thread[t].todo \ {pm}
        BY <2>2 DEF ThreadState
    <2>. QED
        BY <1>1, <2>1, <2>3
<1>. QED
    BY <1>1, OnlyIntegrated

LEMMA OverStays ==
    ASSUME Stages, UNCHANGED dismissed, Remembered' \subseteq Remembered \cup erased',
           erased \subseteq erased', erased' \subseteq DOMAIN said', DOMAIN said \subseteq DOMAIN said',
           \A y \in Passed : y \in Passed' \/ y.src \subseteq erased'
    PROVE  OverFits'
<1>1. Sources(Passed) \subseteq Sources(Passed') \cup erased'
    BY DEF Sources
<1>. QED
    BY <1>1 DEF Stages, OverFits

\* A step that the consolidation does not notice may replace the file.
LEMMA UnnoticedFates ==
    ASSUME TypeOK, Purity, SavedKept, WorkerAlone, WorkerAlone', Once, Stages, [Next]_vars, Unnoticed
    PROVE  Stages' /\ Fading
<1>1. Remembered' \subseteq Remembered \cup erased
    BY OnlyTheFirst DEF Unnoticed
<1>2. /\ UNCHANGED <<said, rows, pending, flushed, session_id, dismissed, erased>>
      /\ thread'[FirstWorker] = thread[FirstWorker]
    BY DEF Unnoticed
<1>3. Passed' = Passed
    BY <1>2 DEF Passed, At
<1>4. OverFits'
    BY <1>1, <1>2, <1>3, OverStays DEF Stages, OverFits
<1>5. RowsFit'
    BY <1>2 DEF Stages, RowsFit, At, Unmarked
<1>6. TodoFits'
    BY <1>2 DEF Stages, TodoFits, At
<1>7. \A m : (Waiting(m)' => Waiting(m)) /\ (Ahead(m)' => Ahead(m))
    BY <1>2 DEF Waiting, Ahead
<1>. QED
    BY <1>1, <1>2, <1>4, <1>5, <1>6, <1>7, FadesWhen DEF Stages

\* Taking a task up, selecting, marking, reflecting and giving up move no message on;
\* a worker that throws away what it marked loses it.
LEMMA WorkingFates ==
    ASSUME TypeOK, Purity, SavedKept, WorkerAlone, WorkerAlone', Once, Stages, [Next]_vars,
           \/ TakeTask(FirstWorker)
           \/ SelectPending(FirstWorker) \/ MarkSelected(FirstWorker)
           \/ BeginReflection(FirstWorker) \/ FinishReflection(FirstWorker)
           \/ PostNotes(FirstWorker) \/ AbortCheckpoint(FirstWorker)
    PROVE  Stages' /\ Fading
<1>. DEFINE f == FirstWorker
<1>0. thread[f] \in ThreadState
    BY FirstIsWorker DEF TypeOK
<1>1. UNCHANGED <<said, rows, session_id, dismissed, erased>>
    BY DEF TakeTask, SelectPending, MarkSelected, MarkFlushed, BeginReflection,
           FinishReflection, PostNotes, AbortCheckpoint, wm_vars, history
<1>2. Remembered' \subseteq Remembered \cup erased
    <2>1. ~ \E pm \in thread[f].todo : Integrate(f, pm)
        <3>. SUFFICES ASSUME NEW pm \in thread[f].todo, Integrate(f, pm) PROVE FALSE
            OBVIOUS
        <3>1. At(f, "add") /\ thread[f].todo # {} /\ UNCHANGED budget
            BY DEF Integrate, Decide
        <3>2. BeginReflection(f) \/ AbortCheckpoint(f) => FALSE
            BY <3>1, FirstIsWorker DEF BeginReflection, AbortCheckpoint, Spend, At, TypeOK, Operation
        <3>. QED
            BY <3>1, <3>2 DEF TakeTask, SelectPending, MarkSelected, FinishReflection, PostNotes, At
    <2>. QED
        BY <2>1, OnlyTheFirst
<1>3. CASE SelectPending(f)
    <2>1. /\ thread'[f].pc = "mark" /\ thread'[f].todo = pending
          /\ UNCHANGED <<pending, flushed>> /\ thread[f].pc = "select"
        BY <1>0, <1>3, FirstIsWorker DEF SelectPending, Becomes, TypeOK, ThreadState, At, wm_vars
    <2>2. Passed' = Passed
        BY <2>1 DEF Passed, At
    <2>3. RowsFit'
        BY <1>1, <2>1 DEF Stages, RowsFit, At
    <2>4. TodoFits'
        BY <1>1, <2>1 DEF Stages, TodoFits, At
    <2>5. OverFits'
        BY <1>1, <1>2, <2>2, OverStays DEF Stages, OverFits
    <2>6. \A m : (Waiting(m)' => Waiting(m)) /\ (Ahead(m)' => Ahead(m))
        BY <1>1, <2>1 DEF Waiting, Ahead
    <2>. QED
        BY <1>1, <1>2, <2>3, <2>4, <2>5, <2>6, FadesWhen DEF Stages
<1>4. CASE MarkSelected(f)
    <2>1. /\ thread[f].pc = "mark"
          /\ pending' = pending \ thread[f].todo
          /\ flushed' = flushed \cup (pending \cap thread[f].todo)
          /\ \/ thread'[f].pc = "idle"
             \/ thread'[f].pc = "add" /\ thread'[f].todo = thread[f].todo
        <3>1. thread'[f] = Idle \/ thread'[f] = [thread[f] EXCEPT !.pc = "add", !.read = {}]
            BY <1>4, FirstIsWorker DEF MarkSelected, Becomes, TypeOK
        <3>2. CASE thread'[f] = Idle
            BY <1>4, <3>2 DEF MarkSelected, MarkFlushed, At, Idle
        <3>3. CASE thread'[f] = [thread[f] EXCEPT !.pc = "add", !.read = {}]
            BY <1>0, <1>4, <3>3 DEF MarkSelected, MarkFlushed, At, ThreadState
        <3>. QED
            BY <3>1, <3>2, <3>3
    <2>2. \A x \in thread[f].todo : x \in pending \/ x.src \subseteq erased
        BY <2>1 DEF Stages, TodoFits, At
    <2>3. \A y \in Passed : y \in Passed' \/ y.src \subseteq erased'
        BY <1>1, <2>1, <2>2 DEF Passed, At, Stages, TodoFits
    <2>4. RowsFit'
        BY <1>1, <2>1 DEF Stages, RowsFit, At
    <2>5. TodoFits'
        <3>1. pending' \cap flushed' = {}
            BY <2>1 DEF Stages, TodoFits
        <3>2. thread'[f].pc = "add" =>
                  \A x \in thread'[f].todo : x \in flushed' \/ x.src \subseteq erased'
            BY <1>1, <2>1, <2>2
        <3>. QED
            BY <2>1, <3>1, <3>2 DEF TodoFits, At
    <2>6. OverFits'
        BY <1>1, <1>2, <2>3, OverStays DEF Stages, OverFits
    <2>7. \A m : (Waiting(m)' => Waiting(m)) /\ (Ahead(m)' => Ahead(m))
        BY <1>1, <2>1 DEF Waiting, Ahead, Sources
    <2>. QED
        BY <1>1, <1>2, <2>4, <2>5, <2>6, <2>7, FadesWhen DEF Stages
<1>5. CASE \/ TakeTask(f)
           \/ BeginReflection(f) \/ FinishReflection(f) \/ PostNotes(f) \/ AbortCheckpoint(f)
    <2>1. PICK state : /\ thread'[f] = state
                       /\ \/ state \in {Idle, Off}
                          \/ \E pc \in {"select", "summarise"} :
                                 state = [Idle EXCEPT !.pc = pc, !.read = Unmarked]
                          \/ \E pc \in {"reflect", "post"} : \E view :
                                 state = [thread[f] EXCEPT !.pc = pc, !.view = view]
        BY <1>5, FirstIsWorker DEF TakeTask, BeginReflection, FinishReflection, PostNotes,
                                   AbortCheckpoint, Becomes, TypeOK
    <2>2. /\ thread'[f].pc \in {"idle", "off", "select", "summarise", "reflect", "post"}
          /\ thread'[f].pc = "summarise" => thread'[f].read = Unmarked
        <3>1. CASE state \in {Idle, Off}
            <4>1. Idle.pc = "idle" /\ Off.pc = "off"
                BY DEF Idle, Off
            <4>. QED
                BY <2>1, <3>1, <4>1
        <3>2. CASE \E pc \in {"select", "summarise"} :
                       state = [Idle EXCEPT !.pc = pc, !.read = Unmarked]
            BY <2>1, <3>2 DEF Idle
        <3>3. CASE \E pc \in {"reflect", "post"} : \E view :
                       state = [thread[f] EXCEPT !.pc = pc, !.view = view]
            BY <1>0, <2>1, <3>3 DEF ThreadState
        <3>. QED
            BY <2>1, <3>1, <3>2, <3>3
    <2>3. UNCHANGED <<pending, flushed>>
        BY <1>5 DEF TakeTask, BeginReflection, FinishReflection, PostNotes, AbortCheckpoint, wm_vars
    <2>4. Passed \subseteq Passed'
        BY <2>2, <2>3 DEF Passed, At
    <2>5. RowsFit'
        BY <1>1, <2>2 DEF Stages, RowsFit, At, Unmarked
    <2>6. TodoFits'
        BY <2>2, <2>3 DEF Stages, TodoFits, At
    <2>7. OverFits'
        BY <1>1, <1>2, <2>4, OverStays DEF Stages, OverFits
    <2>8. \A m : (Waiting(m)' => Waiting(m)) /\ (Ahead(m)' => Ahead(m))
        BY <1>1, <2>2, <2>3 DEF Waiting, Ahead
    <2>. QED
        BY <1>1, <1>2, <2>5, <2>6, <2>7, <2>8, FadesWhen DEF Stages
<1>. QED
    BY <1>3, <1>4, <1>5

\* The end of the process forgets what waited for it, what was in hand, and the
\* memories that were not saved.
LEMMA RestartFates ==
    ASSUME TypeOK, Purity, SavedKept, WorkerAlone, WorkerAlone', Once, Stages, [Next]_vars,
           Restart \/ RestartAfresh
    PROVE  Stages' /\ Fading
<1>1. PICK file : Start(file)
    BY DEF Restart, RestartAfresh
<1>2. /\ UNCHANGED <<said, rows, pending, flushed, dismissed, erased>>
      /\ session_id' = session_id + 1
      /\ thread'[FirstWorker].pc = "idle"
    BY <1>1, FirstIsWorker DEF Start, Reopen, history, Idle
<1>3. Remembered' \subseteq Remembered \cup erased
    <2>1. ASSUME NEW pm \in thread[FirstWorker].todo, Integrate(FirstWorker, pm)
          PROVE  FALSE
        BY <1>1, <2>1, <1>2 DEF Integrate, Decide, wm_vars, TypeOK, WMTypeOK
    <2>. QED
        BY <2>1, OnlyTheFirst
<1>4. session_id \in Nat /\ \A r \in rows : r.session \in Nat /\ r.session =< session_id
    BY DEF TypeOK, WMTypeOK, Row, Stages, RowsFit
<1>5. \A r \in rows : r.session # session_id' /\ r.session =< session_id'
    BY <1>2, <1>4
<1>6. RowsFit'
    BY <1>2, <1>5 DEF RowsFit, At
<1>7. TodoFits'
    BY <1>2 DEF Stages, TodoFits, At
<1>8. Passed \subseteq Passed'
    BY <1>2 DEF Passed, At
<1>9. OverFits'
    BY <1>2, <1>3, <1>8, OverStays DEF Stages, OverFits
<1>10. \A m : ~Waiting(m)' /\ (Ahead(m)' => Ahead(m))
    BY <1>2, <1>5 DEF Waiting, Ahead
<1>. QED
    BY <1>2, <1>3, <1>6, <1>7, <1>9, <1>10, FadesWhen DEF Stages

\* A message that is told waits.
LEMMA ToldFates ==
    ASSUME TypeOK, Purity, SavedKept, WorkerAlone, WorkerAlone', Once, Stages, [Next]_vars,
           NEW c \in Caller, Told(c)
    PROVE  Stages' /\ Fates!Calm
<1>. DEFINE new == Len(said) + 1
            scope == thread[c].scope
            row == [id |-> new, scope |-> scope, session |-> session_id, done |-> FALSE]
<1>1. /\ thread'[FirstWorker] = thread[FirstWorker]
      /\ UNCHANGED <<pending, flushed, session_id, memory_store, disk, dismissed, erased>>
      /\ rows' = rows \cup {row}
      /\ said' = Append(said, scope)
    BY DEF Told, RecordInteraction, AddInteraction, history
<1>2. /\ DOMAIN said' = DOMAIN said \cup {new}
      /\ new \notin DOMAIN said
      /\ scope \in Scope
    <2>1. scope \in Scope
        BY DEF TypeOK, ThreadState, Thread
    <2>2. said \in Seq(Scope)
        BY DEF TypeOK, WMTypeOK
    <2>. QED
        BY <1>1, <2>1, <2>2
<1>3. Passed' = Passed /\ Remembered' = Remembered
    BY <1>1 DEF Passed, At, Remembered
<1>4. row.id = new /\ ~row.done /\ row.session = session_id
    OBVIOUS
<1>. HIDE DEF row
<1>5. RowsFit'
    <2>1. \A r \in rows' : r.session =< session_id'
        BY <1>1, <1>4 DEF Stages, RowsFit, TypeOK, WMTypeOK
    <2>2. Unmarked \subseteq Unmarked'
        BY <1>1 DEF Unmarked
    <2>. QED
        BY <1>1, <2>1, <2>2 DEF Stages, RowsFit, At
<1>6. TodoFits'
    BY <1>1 DEF Stages, TodoFits, At
<1>7. OverFits'
    <2>1. erased' \subseteq DOMAIN said'
        BY <1>1, <1>2 DEF Stages, OverFits
    <2>. QED
        BY <1>1, <1>2, <1>3, <2>1, OverStays
<1>8. ASSUME NEW m \in DOMAIN said
      PROVE  FateOf(m)' = FateOf(m)
    <2>1. Waiting(m)' <=> Waiting(m)
        BY <1>1, <1>2, <1>4 DEF Waiting
    <2>2. Underway(m)' <=> Underway(m)
        BY <1>1, UnderwayIsAhead, UnderwayIsAheadNext DEF Ahead
    <2>. QED
        BY <1>1, <1>3, <2>1, <2>2 DEF FateOf
<1>9. ASSUME NEW m, m = new
      PROVE  FateOf(m)' = "waiting"
    <2>1. Waiting(m)'
        BY <1>1, <1>4, <1>9 DEF Waiting
    <2>2. m \notin Known \cup OnFile
        BY <1>2, <1>9 DEF Known, OnFile, Sources, Episodes,
                          Purity, PureMind, PureDisk, PureStore, Own
    <2>3. m \notin dismissed \cup erased
        BY <1>2, <1>9 DEF Stages, OverFits
    <2>. QED
        BY <1>1, <1>3, <2>1, <2>2, <2>3, RememberedIs DEF FateOf
<1>10. Fates!Hear(scope)
    <2>. DEFINE fate == [m \in DOMAIN said |-> FateOf(m)]
    <2>. HIDE DEF new, scope
    <2>1. \A m \in DOMAIN said' :
              FateOf(m)' = IF m \in DOMAIN said THEN fate[m] ELSE "waiting"
        BY <1>2, <1>8, <1>9
    <2>2. fate' = [m \in DOMAIN said' |-> IF m \in DOMAIN said THEN fate[m] ELSE "waiting"]
        BY <2>1
    <2>. QED
        BY <1>1, <2>2 DEF Fates!Hear
<1>11. Fates!Calm
    <2>. HIDE DEF scope
    <2>. QED
        BY <1>2, <1>10 DEF Fates!Calm
<1>. QED
    BY <1>5, <1>6, <1>7, <1>11 DEF Stages

\* The kill switch erases what is remembered and nothing else.
LEMMA ShutdownFates ==
    ASSUME TypeOK, Purity, SavedKept, WorkerAlone, WorkerAlone', Once, Stages, [Next]_vars,
           NEW c \in Caller, CognitiveShutdown(c), thread'[FirstWorker] = thread[FirstWorker]
    PROVE  Stages' /\ Fates!Calm
<1>. DEFINE ms == Known \ erased
<1>1. /\ UNCHANGED <<said, rows, pending, flushed, session_id, dismissed, disk>>
      /\ memory_store' = AbsoluteCores(memory_store)
      /\ erased' = erased \cup Known
    BY DEF CognitiveShutdown, Known, wm_vars
<1>3. Known \subseteq DOMAIN said
    BY DEF Known, Sources, Episodes, Purity, PureMind, PureStore, Own
<1>4. Known' = {} /\ OnFile' = OnFile
    BY <1>1 DEF Known, OnFile, Sources, Episodes, AbsoluteCores
<1>5. Passed' = Passed
    BY <1>1 DEF Passed, At
<1>6. RowsFit' /\ TodoFits'
    BY <1>1 DEF Stages, RowsFit, TodoFits, At, Unmarked
<1>7. OverFits'
    <2>1. erased' \subseteq DOMAIN said'
        BY <1>1, <1>3 DEF Stages, OverFits
    <2>. QED
        BY <1>1, <1>4, <1>5, <2>1, RememberedIs, OverStays
<1>8. ms \in SUBSET DOMAIN said
    BY <1>3
<1>9. \A m \in ms : FateOf(m) \in {"remembered"}
    BY RememberedIs, Exclusive, FateIs
<1>10. ASSUME NEW m \in DOMAIN said
       PROVE  FateOf(m)' = IF m \in ms THEN "erased" ELSE FateOf(m)
    <2>1. CASE m \in Known
        BY <1>1, <2>1 DEF FateOf
    <2>2. CASE m \notin Known
        <3>1. m \in Remembered' <=> m \in Remembered
            BY <1>4, <2>2, RememberedIs
        <3>2. (Waiting(m)' <=> Waiting(m)) /\ (Underway(m)' <=> Underway(m))
            BY <1>1, UnderwayIsAhead, UnderwayIsAheadNext DEF Waiting, Ahead
        <3>. QED
            BY <1>1, <2>2, <3>1, <3>2 DEF FateOf
    <2>. QED
        BY <2>1, <2>2
<1>. HIDE DEF ms
<1>11. Fates!Wipe(ms)
    BY <1>1, <1>8, <1>9, <1>10, MeetsWhen, HavingWhen DEF Fates!Wipe
<1>. QED
    BY <1>6, <1>7, <1>8, <1>11 DEF Stages, Fates!Calm

\* An erasure erases what the person said, wherever it has got to.
LEMMA EraseFates ==
    ASSUME TypeOK, Purity, SavedKept, WorkerAlone, WorkerAlone', Once, Stages, [Next]_vars,
           NEW c \in Caller, NEW p \in Person, DeleteOwnerData(c, p),
           thread'[FirstWorker] = thread[FirstWorker]
    PROVE  Stages' /\ Fates!Calm
<1>1. /\ UNCHANGED <<said, session_id, dismissed, disk>>
      /\ memory_store' = {r \in memory_store : r.kind = "genesis" \/ r.scope.owner # p}
      /\ rows' = {r \in rows : r.scope.owner # p}
      /\ pending' = {pm \in pending : pm.scope.owner # p}
      /\ flushed' = {pm \in flushed : pm.scope.owner # p}
      /\ erased' = erased \cup Of(p)
    BY DEF DeleteOwnerData, DeleteOwner
<1>2. \A x \in pending \cup flushed : x.scope.owner = p => x.src \subseteq Of(p)
    BY DEF Purity, PureTables, Own, Of
<1>3. \A r \in rows : r.scope.owner = p => r.id \in Of(p)
    BY DEF Purity, PureTables, Recorded, Of
<1>4. Known' \subseteq Known /\ Known \subseteq Known' \cup Of(p) /\ OnFile' = OnFile
    <2>1. \A r \in Episodes(memory_store) \ Episodes(memory_store') : r.src \subseteq Of(p)
        BY <1>1 DEF Episodes, Of, Purity, PureMind, PureStore, Own
    <2>2. Episodes(memory_store') \subseteq Episodes(memory_store)
        BY <1>1 DEF Episodes
    <2>. QED
        BY <1>1, <2>1, <2>2 DEF Known, OnFile, Sources
<1>5. RowsFit'
    <2>1. \A r \in Unmarked : r \in Unmarked' \/ r.id \in Of(p)
        BY <1>1, <1>3 DEF Unmarked
    <2>. QED
        BY <1>1, <2>1 DEF Stages, RowsFit, At
<1>6. TodoFits'
    BY <1>1, <1>2 DEF Stages, TodoFits, At
<1>7. OverFits'
    <2>1. \A y \in Passed : y \in Passed' \/ y.src \subseteq erased'
        BY <1>1, <1>2 DEF Passed, At
    <2>2. erased' \subseteq DOMAIN said'
        BY <1>1 DEF Stages, OverFits, Of
    <2>. QED
        BY <1>1, <1>4, <2>1, <2>2, RememberedIs, OverStays
<1>8. ASSUME NEW m \in DOMAIN said
      PROVE  FateOf(m)' = IF m \in Of(p) THEN "erased" ELSE FateOf(m)
    <2>1. CASE m \in Of(p)
        BY <1>1, <2>1 DEF FateOf
    <2>2. CASE m \notin Of(p)
        <3>1. m \in Remembered' <=> m \in Remembered
            BY <1>4, <2>2, RememberedIs
        <3>2. Waiting(m)' <=> Waiting(m)
            BY <1>1, <1>3, <2>2 DEF Waiting
        <3>3. Ahead(m)' <=> Ahead(m)
            BY <1>1, <1>2, <2>2 DEF Ahead, Sources
        <3>. QED
            BY <1>1, <2>2, <3>1, <3>2, <3>3, UnderwayIsAhead, UnderwayIsAheadNext DEF FateOf
    <2>. QED
        BY <2>1, <2>2
<1>9. Fates!Erase(p)
    BY <1>1, <1>8, MeetsWhen DEF Fates!Erase, Of
<1>. QED
    BY <1>5, <1>6, <1>7, <1>9 DEF Stages, Fates!Calm

\* A checkpoint summarises the messages it read that were not erased since.
LEMMA CheckpointFates ==
    ASSUME TypeOK, Purity, SavedKept, WorkerAlone, WorkerAlone', Once, Stages, [Next]_vars,
           FinishCheckpoint(FirstWorker)
    PROVE  Stages' /\ Fates!Calm
<1>. DEFINE f == FirstWorker
            read == thread[f].read
            ids == {r.id : r \in read}
            new == Summaries(read, checkpoints)
            ms == ids \ erased
<1>0. Recorded(said, read) /\ thread[f] \in ThreadState /\ thread[f].pc = "summarise"
    BY FirstIsWorker DEF Purity, PureThreads, PureThread, TypeOK, FinishCheckpoint, At
<1>1. /\ pending' = pending \cup new
      /\ rows' = {[r EXCEPT !.done = r.done \/ \E x \in read : x.id = r.id] : r \in rows}
      /\ UNCHANGED <<said, flushed, session_id, memory_store, disk, dismissed, erased>>
    BY DEF FinishCheckpoint, WriteCheckpoint, mind_vars, history
<1>2. thread'[f].pc = "select"
    BY <1>0, FirstIsWorker DEF FinishCheckpoint, Becomes, TypeOK, ThreadState
<1>3. /\ Sources(new) = ids
      /\ \A x \in new : x.src # {} /\ x.src \subseteq ids
    <2>1. /\ \A x \in new : x.src \subseteq ids
          /\ ids \subseteq Sources(new)
        BY <1>0, SummariesOnce
    <2>2. \A x \in new : x.src # {}
        BY DEF Summaries
    <2>. QED
        BY <2>1, <2>2 DEF Sources
<1>4. /\ \A r \in read : r \in Unmarked \/ r.id \in erased
      /\ \A m \in ids : m \notin Summarised /\ m \in DOMAIN said
    BY <1>0 DEF Stages, RowsFit, At, Once, Recorded
<1>. HIDE DEF new, read
<1>5. \A q \in rows' : \E r \in rows :
          /\ q.id = r.id /\ q.session = r.session
          /\ q.done <=> r.done \/ r.id \in ids
    <2>. SUFFICES ASSUME NEW r \in rows,
                         NEW q, q = [r EXCEPT !.done = r.done \/ \E x \in read : x.id = r.id]
                  PROVE  /\ q.id = r.id /\ q.session = r.session
                         /\ q.done <=> r.done \/ r.id \in ids
        BY <1>1
    <2>. QED
        BY DEF TypeOK, WMTypeOK, Row
<1>6. \A r \in rows : \E q \in rows' :
          /\ q.id = r.id /\ q.session = r.session
          /\ q.done <=> r.done \/ r.id \in ids
    <2>. SUFFICES ASSUME NEW r \in rows
                  PROVE  \E q \in rows' : /\ q.id = r.id /\ q.session = r.session
                                          /\ q.done <=> r.done \/ r.id \in ids
        OBVIOUS
    <2>. DEFINE q == [r EXCEPT !.done = r.done \/ \E x \in read : x.id = r.id]
    <2>1. /\ q.id = r.id /\ q.session = r.session
          /\ q.done <=> r.done \/ r.id \in ids
        BY DEF TypeOK, WMTypeOK, Row
    <2>2. q \in rows'
        BY <1>1
    <2>. HIDE DEF q
    <2>. QED
        BY <2>1, <2>2
<1>7. \A m : Waiting(m)' <=> Waiting(m) /\ m \notin ids
    <2>. HIDE DEF ids
    <2>. SUFFICES ASSUME NEW m PROVE Waiting(m)' <=> Waiting(m) /\ m \notin ids
        OBVIOUS
    <2>1. ASSUME Waiting(m)'
          PROVE  Waiting(m) /\ m \notin ids
        <3>1. PICK q \in rows' : q.id = m /\ ~q.done /\ q.session = session_id
            BY <1>1, <2>1 DEF Waiting
        <3>. QED
            BY <1>5, <3>1 DEF Waiting
    <2>2. ASSUME Waiting(m), m \notin ids
          PROVE  Waiting(m)'
        <3>1. PICK r \in rows : r.id = m /\ ~r.done /\ r.session = session_id
            BY <2>2 DEF Waiting
        <3>2. PICK q \in rows' : q.id = m /\ ~q.done /\ q.session = session_id
            BY <1>6, <2>2, <3>1
        <3>. QED
            BY <1>1, <3>2 DEF Waiting
    <2>. QED
        BY <2>1, <2>2
<1>8. \A m : Ahead(m)' <=> Ahead(m) \/ m \in ids
    BY <1>0, <1>1, <1>2, <1>3, SourcesGrow DEF Ahead
<1>9. Passed' = Passed
    BY <1>0, <1>1, <1>2 DEF Passed, At
<1>10. RowsFit'
    BY <1>1, <1>2, <1>5 DEF Stages, RowsFit, At
<1>11. TodoFits'
    <2>1. new \cap flushed = {}
        BY <1>3, <1>4 DEF Summarised, Sources
    <2>. QED
        BY <1>1, <1>2, <2>1 DEF Stages, TodoFits, At
<1>12. Remembered' = Remembered
    BY <1>1 DEF Remembered
<1>13. OverFits'
    BY <1>1, <1>9, <1>12 DEF Stages, OverFits
<1>14. ms \in SUBSET DOMAIN said
    BY <1>4
<1>15. ASSUME NEW m \in ms
       PROVE  FateOf(m) = "waiting"
    <2>1. Waiting(m)
        BY <1>4 DEF Waiting, Unmarked
    <2>2. m \notin dismissed \cup Remembered
        BY <2>1, Exclusive
    <2>. QED
        BY <2>1, <2>2 DEF FateOf
<1>16. ASSUME NEW m \in DOMAIN said
       PROVE  FateOf(m)' = IF m \in ms THEN "summarised" ELSE FateOf(m)
    <2>1. CASE m \in erased
        BY <1>1, <2>1 DEF FateOf
    <2>2. CASE m \in ms
        <3>1. m \notin erased \cup dismissed \cup Remembered
            BY <1>15, <2>2, FateIs
        <3>. QED
            BY <1>1, <1>7, <1>8, <1>12, <2>2, <3>1, UnderwayIsAheadNext DEF FateOf
    <2>3. CASE m \notin ids
        BY <1>1, <1>7, <1>8, <1>12, <2>3, UnderwayIsAhead, UnderwayIsAheadNext DEF FateOf
    <2>. QED
        BY <2>1, <2>2, <2>3
<1>. HIDE DEF ms
<1>17. Fates!Summarise(ms)
    BY <1>1, <1>14, <1>15, <1>16, MeetsWhen, HavingWhen DEF Fates!Summarise
<1>. QED
    BY <1>10, <1>11, <1>13, <1>14, <1>17 DEF Stages, Fates!Calm

\* The messages of one summary are settled together, in one way.
LEMMA OutcomeFates ==
    ASSUME TypeOK, Purity, SavedKept, WorkerAlone, WorkerAlone', Once, Stages, [Next]_vars,
           NEW pm \in thread[FirstWorker].todo,
           \/ Integrate(FirstWorker, pm) \/ Absorb(FirstWorker, pm)
           \/ Contradict(FirstWorker, pm)
    PROVE  Stages' /\ Fates!Calm
<1>. DEFINE f == FirstWorker
            ms == pm.src \ erased
            end == IF Integrate(f, pm) THEN "remembered" ELSE "dismissed"
<1>0. thread[f] \in ThreadState /\ PureThread(said, thread[f])
    BY FirstIsWorker DEF TypeOK, Purity, PureThreads
<1>1. PICK notes : Decide(f, pm, notes)
    BY DEF Integrate, Absorb, Contradict
<1>2. /\ thread[f].pc = "add"
      /\ UNCHANGED <<said, rows, pending, flushed, session_id, erased, disk>>
      /\ thread'[f] = [thread[f] EXCEPT !.todo = @ \ {pm}, !.notes = notes]
    BY <1>1, FirstIsWorker DEF Decide, At, Becomes, TypeOK, wm_vars
<1>3. thread'[f].pc = "add" /\ thread'[f].todo = thread[f].todo \ {pm}
    BY <1>0, <1>2 DEF ThreadState
<1>4. \A m \in pm.src : m \in DOMAIN said /\ said[m] = pm.scope
    BY <1>0, <1>2 DEF PureThread, Own
<1>5. pm \in PendingMemory /\ pm.scope \in Scope
    BY <1>0 DEF ThreadState, PendingMemory
<1>6. \/ Integrate(f, pm) /\ Known' = Known \cup pm.src /\ UNCHANGED dismissed
      \/ /\ ~Integrate(f, pm) /\ Known' = Known
         /\ dismissed' = dismissed \cup pm.src
    <2>1. CASE Integrate(f, pm)
        <3>. DEFINE r == [kind |-> "episode", scope |-> pm.scope, src |-> pm.src,
                          batch |-> pm.batch, origin |-> f]
        <3>1. memory_store' = memory_store \cup {r} /\ UNCHANGED dismissed
            BY <2>1 DEF Integrate
        <3>2. r.kind = "episode" /\ r.src = pm.src
            OBVIOUS
        <3>. HIDE DEF r
        <3>3. Episodes(memory_store') = Episodes(memory_store) \cup {r}
            BY <3>1, <3>2 DEF Episodes
        <3>4. Known' = Known \cup pm.src
            BY <3>2, <3>3 DEF Known, Sources
        <3>. QED
            BY <2>1, <3>1, <3>4
    <2>2. CASE ~Integrate(f, pm)
        BY <2>2 DEF Absorb, Contradict, Dismiss, Known
    <2>. QED
        BY <2>1, <2>2
<1>7. OnFile' = OnFile
    BY <1>2 DEF OnFile
<1>8. pm \in flushed \/ pm.src \subseteq erased
    BY <1>2 DEF Stages, TodoFits, At
<1>9. Passed \subseteq Passed' /\ (pm \in flushed => pm \in Passed')
    BY <1>2, <1>3 DEF Passed, At
<1>10. ASSUME NEW m \in ms
       PROVE  m \notin dismissed \cup Remembered /\ FateOf(m) = "summarised"
    <2>1. Ahead(m)
        BY <1>2 DEF Ahead, Sources
    <2>2. Underway(m) /\ ~Waiting(m) /\ m \notin dismissed \cup Remembered
        BY <2>1, Exclusive, UnderwayIsAhead
    <2>. QED
        BY <2>2 DEF FateOf
<1>11. RowsFit'
    BY <1>2, <1>3 DEF Stages, RowsFit, At
<1>12. TodoFits'
    BY <1>2, <1>3 DEF Stages, TodoFits, At
<1>13. OverFits'
    <2>1. dismissed' \cup Remembered' \subseteq erased' \cup Sources(Passed')
        BY <1>2, <1>6, <1>7, <1>8, <1>9, RememberedIs DEF Stages, OverFits, Sources
    <2>2. dismissed' \cap Remembered' \subseteq erased'
        BY <1>2, <1>6, <1>7, <1>10, RememberedIs DEF Stages, OverFits
    <2>3. dismissed' \cup erased' \subseteq DOMAIN said'
        BY <1>2, <1>4, <1>6 DEF Stages, OverFits
    <2>. QED
        BY <2>1, <2>2, <2>3 DEF OverFits
<1>14. ms \in SUBSET DOMAIN said
    BY <1>4
<1>15. ASSUME NEW m \in DOMAIN said
       PROVE  FateOf(m)' = IF m \in ms THEN end ELSE FateOf(m)
    <2>1. CASE m \in erased
        BY <1>2, <2>1 DEF FateOf
    <2>2. CASE m \in ms
        <3>1. m \notin dismissed \cup Remembered
            BY <1>10, <2>2
        <3>. QED
            BY <1>2, <1>6, <1>7, <2>2, <3>1, RememberedIs DEF FateOf
    <2>3. CASE m \notin pm.src
        <3>1. (m \in Remembered' <=> m \in Remembered) /\ (m \in dismissed' <=> m \in dismissed)
            BY <1>6, <1>7, <2>3, RememberedIs
        <3>2. Waiting(m)' <=> Waiting(m)
            BY <1>2 DEF Waiting
        <3>3. Ahead(m)' <=> Ahead(m)
            BY <1>2, <1>3, <2>3 DEF Ahead, Sources
        <3>. QED
            BY <1>2, <2>3, <3>1, <3>2, <3>3, UnderwayIsAhead, UnderwayIsAheadNext DEF FateOf
    <2>. QED
        BY <2>1, <2>2, <2>3
<1>16. end \in {"remembered", "dismissed"}
    OBVIOUS
<1>17. ms \subseteq {m \in Fates!Having({"summarised"}) : said[m] = pm.scope}
    <2>1. ms \subseteq Fates!Having({"summarised"})
        <3>. HIDE DEF ms
        <3>. QED
            BY <1>10, <1>14, HavingWhen
    <2>. QED
        BY <1>4, <2>1
<1>. HIDE DEF ms, end
<1>18. Fates!Settle(pm.scope, ms, end)
    BY <1>2, <1>15, <1>17, MeetsWhen DEF Fates!Settle
<1>. QED
    BY <1>5, <1>11, <1>12, <1>13, <1>14, <1>16, <1>18 DEF Stages, Fates!Calm

\* The step refinement, with the strengthening it needs.
LEMMA FatesInductive ==
    ASSUME TypeOK, Purity, SavedKept, WorkerAlone, Once, Stages, [Next]_vars,
           ~Spend("force"), ~Spend("reset")
    PROVE  Stages' /\ (Fading \/ Fates!Calm)
<1>0. WorkerAlone'
    BY AloneStep
<1>1. ASSUME WorkerStep(FirstWorker)
      PROVE  Stages' /\ (Fading \/ Fates!Calm)
    BY <1>0, <1>1, WorkingFates, CheckpointFates, OutcomeFates DEF WorkerStep
<1>2. ASSUME NEW c \in Caller, Taken(c)
      PROVE  Stages' /\ (Fading \/ Fates!Calm)
    BY <1>0, <1>2, ShutdownFates, EraseFates DEF Taken
<1>3. ASSUME NEW c \in Caller, Told(c)
      PROVE  Stages' /\ (Fading \/ Fates!Calm)
    BY <1>0, <1>3, ToldFates
<1>4. CASE Unnoticed \/ AbortCheckpoint(FirstWorker) \/ Restart \/ RestartAfresh
    BY <1>0, <1>4, UnnoticedFates, WorkingFates, RestartFates
<1>. QED
    BY <1>1, <1>2, <1>3, <1>4, AloneStep

LEMMA InitStages == Init => Stages /\ Fates!Init
<1>. SUFFICES ASSUME Init PROVE Stages /\ Fates!Init
    OBVIOUS
<1>1. thread[FirstWorker].pc = "idle" /\ said = <<>> /\ rows = {} /\ pending = {} /\ flushed = {}
    BY FirstIsWorker DEF Init, WMInit, Idle
<1>2. Remembered = {}
    BY DEF Init, Remembered, Genesis, NoFile, Sources, Episodes
<1>3. Stages
    BY <1>1, <1>2 DEF Stages, RowsFit, TodoFits, OverFits, At, Init
<1>. QED
    BY <1>1, <1>3 DEF Fates!Init

\* Nothing lost is no message whose fate is "lost".
LEMMA NotLost ==
    NothingLost /\ Unused({"crash", "fault", "force", "reset"})
        => \A m \in DOMAIN said : FateOf(m) # "lost"
<1>. SUFFICES ASSUME NothingLost, Unused({"crash", "fault", "force", "reset"}),
                     NEW m \in DOMAIN said
              PROVE  FateOf(m) # "lost"
    OBVIOUS
<1>1. Waiting(m) \/ Underway(m) \/ m \in dismissed \cup erased \cup Known
    BY DEF NothingLost, Underway, Settled, Known
<1>2. Known \subseteq Remembered
    BY RememberedIs
<1>. QED
    BY <1>1, <1>2 DEF FateOf

Followed == Within /\ (Unused({"force", "reset"}) => WorkerAlone /\ Once /\ Stages)

LEMMA FollowedInductive ==
    ASSUME TypeOK, TypeOK', Purity, SavedKept, NothingLost', Followed, [Next]_vars
    PROVE  Followed' /\ FateStep
<1>. DEFINE calm == {"crash", "fault", "force", "reset"}
<1>1. Within'
    BY WithinInductive DEF Followed
<1>2. ASSUME Unused({"force", "reset"})'
      PROVE  WorkerAlone' /\ Once' /\ Stages' /\ (Fading \/ Fates!Calm)
    <2>1. {"force", "reset"} \subseteq Operation
        BY DEF Operation
    <2>2. Unused({"force", "reset"}) /\ ~Spend("force") /\ ~Spend("reset")
        BY <1>2, <2>1, UnusedBefore DEF Followed
    <2>. QED
        BY <2>2, AloneStep, OnceInductive, FatesInductive DEF Followed
<1>3. ASSUME Unused(calm)'
      PROVE  Fates!Calm \/ UNCHANGED Fates!fates
    <2>1. Unused({"force", "reset"})'
        BY <1>3 DEF Unused
    <2>2. \A m \in DOMAIN said' : FateOf(m)' # "lost"
        <3>1. (NothingLost /\ Unused(calm) => \A m \in DOMAIN said : FateOf(m) # "lost")'
            BY NotLost, PTL
        <3>. QED
            BY <1>3, <3>1
    <2>3. Fading => UNCHANGED Fates!fates
        BY <2>2, FadingStays DEF Fading
    <2>. QED
        BY <1>2, <2>1, <2>3
<1>4. Fading \/ Fates!Calm => Fates!Next
    BY FadingLoses DEF Fates!Next
<1>. QED
    BY <1>1, <1>2, <1>3, <1>4 DEF Followed, FateStep

\* What becomes of the messages follows MessageFate as long as one consolidator
\* runs at a time, and without losing any as long as nothing else goes wrong.
THEOREM FateHolds == Spec => FollowsFate
<1>1. Init => Followed /\ Fates!Init
    BY InitAlone, InitStages DEF Followed
<1>2. TypeOK /\ TypeOK' /\ Purity /\ SavedKept /\ NothingLost' /\ Followed /\ [Next]_vars
          => Followed' /\ [FateStep]_vars
    BY FollowedInductive
<1>. QED
    BY <1>1, <1>2, TypeCorrect, PurityHolds, SavedHolds, NothingLostHolds, PTL
       DEF Spec, FollowsFate

LEMMA AlwaysUnused ==
    ASSUME TypeOK, Within, NEW ops, ops \subseteq Operation, \A op \in ops : Limit[op] = 0
    PROVE  Unused(ops)
BY SharedMindAssumption DEF TypeOK, Within, Unused

\* The state of a stuttering step keeps its fates.
LEMMA StutterFates == UNCHANGED vars => UNCHANGED Fates!fates
<1>. SUFFICES ASSUME UNCHANGED vars PROVE UNCHANGED Fates!fates
    OBVIOUS
<1>1. UNCHANGED <<said, rows, pending, session_id, thread, memory_store, disk, dismissed, erased>>
    BY DEF vars, wm_vars, mind_vars, history
<1>2. \A m : FateOf(m)' = FateOf(m)
    BY <1>1 DEF FateOf, Remembered, Waiting, Underway, InHand
<1>. QED
    BY <1>1, <1>2 DEF Fates!fates

\* A mind that never forces a save and is never reset implements MessageFate.
THEOREM ImplementsMessageFate ==
    ASSUME Limit["force"] = 0, Limit["reset"] = 0
    PROVE  Spec => Fates!Spec
<1>1. TypeOK' /\ Within' => Unused({"force", "reset"})'
    <2>1. TypeOK /\ Within => Unused({"force", "reset"})
        BY AlwaysUnused DEF Operation
    <2>. QED
        BY <2>1, PTL
<1>2. TypeOK /\ TypeOK' /\ Within /\ [Next]_vars => Within'
    BY WithinInductive
<1>3. Init => Within
    BY InitAlone
<1>4. Unused({"force", "reset"})' /\ [FateStep]_vars => [Fates!Next]_(Fates!fates)
    BY StutterFates DEF FateStep
<1>. QED
    BY <1>1, <1>2, <1>3, <1>4, FateHolds, TypeCorrect, PTL DEF Spec, FollowsFate, Fates!Spec

\* If, moreover, its process never dies and nothing fails, it never loses a message.
THEOREM ImplementsCalmFate ==
    ASSUME \A op \in {"crash", "fault", "force", "reset"} : Limit[op] = 0
    PROVE  Spec => Fates!CalmSpec
<1>1. TypeOK' /\ Within' => Unused({"crash", "fault", "force", "reset"})'
    <2>1. TypeOK /\ Within => Unused({"crash", "fault", "force", "reset"})
        BY AlwaysUnused DEF Operation
    <2>. QED
        BY <2>1, PTL
<1>2. TypeOK /\ TypeOK' /\ Within /\ [Next]_vars => Within'
    BY WithinInductive
<1>3. Init => Within
    BY InitAlone
<1>4. Unused({"crash", "fault", "force", "reset"})' /\ [FateStep]_vars => [Fates!Calm]_(Fates!fates)
    BY StutterFates DEF FateStep
<1>. QED
    BY <1>1, <1>2, <1>3, <1>4, FateHolds, TypeCorrect, PTL DEF Spec, FollowsFate, Fates!CalmSpec

=============================================================================
