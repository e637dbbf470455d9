----------------------------- MODULE SharedMind -----------------------------
(***************************************************************************)
(* One mind that talks with many people: the consolidation pipeline of     *)
(* CognitioEngine (cognitio/engine.py) over WorkingMemory, with the dream  *)
(* insights of cognitio/dream.py.                                          *)
(*                                                                         *)
(* Callers are the threads that use the engine's methods (browser          *)
(* sessions, the chat loop); workers are the consolidation-worker threads. *)
(* A method is one action per stretch it runs without another thread being *)
(* able to get between: what it does under _save_lock, one SQLite          *)
(* transaction, one file replacement.  What a thread carries from one      *)
(* stretch to the next is in thread[t].                                    *)
(*                                                                         *)
(* A message is its index in said; a memory is the set of messages its     *)
(* text was made from (src).  Scores, embeddings and personality are left  *)
(* out: where they decide, every decision is possible.                     *)
(***************************************************************************)
EXTENDS WorkingMemory

CONSTANTS Caller, Worker, FirstWorker, GenesisAnchor,
          InsightMax,   \* _INSIGHT_MAX_PER_DREAM
          Limit         \* how often each kind of operation may start

\* "fault" counts database and file errors; every other name is an operation.
Operation == {"say", "save", "force", "reflect", "erase", "shutdown",
              "reset", "freeze", "crash", "fault"}
Thread == Caller \cup Worker

ASSUME SharedMindAssumption ==
    /\ FirstWorker \in Worker
    /\ Caller \cap Worker = {}
    /\ InsightMax \in Nat
    /\ Limit \in [Operation -> Nat]

VARIABLES
    memory_store,    \* self.memory_store: the long-term memories
    pending_notes,   \* self._pending_notes: messages quoted to their owner
    candidates,      \* self.dream._insight_candidates
    narrative,       \* self.narrative: messages the self-narrative was made from
    is_frozen,       \* self.state.is_frozen
    queue,           \* self._consolidation_queue
    thread,          \* where each thread stands, with its local values
    disk,            \* memories.json
    dismissed,       \* history: messages whose summary was refused or absorbed
    erased,          \* history: messages erased or reset on request
    gone,            \* history: messages of undisturbed, completed erasures
    budget           \* what is left of Limit

mind_vars == <<memory_store, pending_notes, candidates, narrative, is_frozen, queue>>
history == <<dismissed, erased, gone>>
vars == <<wm_vars, mind_vars, thread, disk, history, budget>>

-----------------------------------------------------------------------------

Genesis == {[kind |-> "genesis", scope |-> Commons, src |-> {}, batch |-> 0,
             origin |-> g] : g \in GenesisAnchor}

MemoryRecord == Genesis \cup
    [kind : {"episode", "reflection", "insight"}, scope : Scope, src : SUBSET Message,
     batch : Nat, origin : Thread]

\* What save_state() serialises.
Snapshot == [memory_store : SUBSET MemoryRecord, is_frozen : BOOLEAN,
             narrative : SUBSET Message]
NoFile == [memory_store |-> {}, is_frozen |-> FALSE, narrative |-> {}]

PC == {"off", "idle", "dreaming", "accepted", "summarise", "select", "mark",
       "add", "reflect", "post", "save", "write"}

ThreadState == [pc : PC, read : SUBSET Row, todo : SUBSET PendingMemory,
                notes : SUBSET PendingMemory, scope : Scope, role : Role,
                view : SUBSET Message, saved : Snapshot, erasing : SUBSET Message]

Idle == [pc |-> "idle", read |-> {}, todo |-> {}, notes |-> {}, scope |-> Commons,
         role |-> "user", view |-> {}, saved |-> NoFile, erasing |-> {}]
Off == [Idle EXCEPT !.pc = "off"]

TypeOK ==
    /\ WMTypeOK
    /\ memory_store \subseteq MemoryRecord
    /\ pending_notes \in [Person \cup {NoOwner} -> SUBSET Message]
    /\ candidates \subseteq PendingMemory
    /\ narrative \subseteq Message
    /\ is_frozen \in BOOLEAN
    /\ queue \in Seq({"checkpoint", "stop"})
    /\ thread \in [Thread -> ThreadState]
    /\ disk \in Snapshot
    /\ dismissed \subseteq Message
    /\ erased \subseteq Message
    /\ gone \subseteq Message
    /\ budget \in [Operation -> Nat]

Init ==
    /\ WMInit
    /\ memory_store = Genesis
    /\ pending_notes = [o \in Person \cup {NoOwner} |-> {}]
    /\ candidates = {}
    /\ narrative = {}
    /\ is_frozen = FALSE
    /\ queue = <<>>
    /\ thread = [t \in Thread |-> IF t \in Worker \ {FirstWorker} THEN Off ELSE Idle]
    /\ disk = NoFile
    /\ dismissed = {}
    /\ erased = {}
    /\ gone = {}
    /\ budget = Limit

Spend(op) == budget[op] > 0 /\ budget' = [budget EXCEPT ![op] = @ - 1]

At(t, pc) == thread[t].pc = pc
Becomes(t, state) == thread' = [thread EXCEPT ![t] = state]

-----------------------------------------------------------------------------
(* Who may hear what. *)

\* MUTANT of VisibleTo: the filter is missing.
AnyoneMayRecall(scope, p) == TRUE

\* MemoryRecord.is_visible_to for a person; the query filter agrees with it.
VisibleTo(scope, p) == scope.vis = "public" \/ scope.owner = p

\* A public memory is weighed against public ones, a private one also
\* against its owner's.
Comparable(scope, other) ==
    IF scope.vis = "private" THEN VisibleTo(other, scope.owner) ELSE other.vis = "public"

\* MUTANT of SameScopeKey: any two memories go together.
AnyScopes(s, u) == TRUE

SameScopeKey(s, u) == (s.vis = "public" /\ u.vis = "public") \/ s = u

Public(store) == {r \in store : r.scope.vis = "public"}
Episodes(store) == {r \in store : r.kind = "episode"}
Sources(records) == UNION {r.src : r \in records}

\* Everything build_context_for_llm(viewer_id=p) may show the language model.
Context(p) ==
    pending_notes[p]
    \cup {r.id : r \in {x \in rows : x.session = session_id /\ x.scope.owner = p}}
    \cup Sources({r \in memory_store : VisibleTo(r.scope, p)})
    \cup narrative

-----------------------------------------------------------------------------
(* process_interaction *)

\* A frozen mind turns the call away.  The check is made before the lock is
\* taken; on a user message the dream's candidates are taken away to be judged.
BeginInteraction(c, scope, role) ==
    /\ At(c, "idle")
    /\ ~is_frozen
    /\ role = "assistant" => \E m \in DOMAIN said : said[m].owner = scope.owner
    /\ Spend("say")
    /\ LET wakes == role = "user" /\ candidates # {}
       IN  /\ Becomes(c, [Idle EXCEPT !.pc = IF wakes THEN "dreaming" ELSE "accepted",
                                      !.scope = scope, !.role = role,
                                      !.todo = IF wakes THEN candidates ELSE {}])
           /\ candidates' = IF wakes THEN {} ELSE candidates
    /\ UNCHANGED <<wm_vars, memory_store, pending_notes, narrative, is_frozen, queue,
                   disk, history>>

\* validate_and_commit() after the language model has chosen among the candidates.
CommitInsights(c) ==
    /\ At(c, "dreaming")
    /\ \E valid \in SUBSET thread[c].todo :
           memory_store' = memory_store \cup
               {[kind |-> "insight", scope |-> i.scope, src |-> i.src, batch |-> 0,
                 origin |-> c] : i \in valid}
    /\ Becomes(c, [thread[c] EXCEPT !.pc = "accepted", !.todo = {}])
    /\ UNCHANGED <<wm_vars, pending_notes, candidates, narrative, is_frozen, queue,
                   disk, history, budget>>

RecordInteraction(c) ==
    /\ At(c, "accepted")
    /\ AddInteraction(thread[c].scope, thread[c].role)
    /\ \E late \in BOOLEAN :
           queue' = IF ShouldCheckpoint(message_count', late)
                    THEN Append(queue, "checkpoint") ELSE queue
    /\ Becomes(c, Idle)
    /\ UNCHANGED <<memory_store, pending_notes, candidates, narrative, is_frozen,
                   disk, history, budget>>

\* build_context_for_llm(): hands the viewer's notes over, once; without a
\* viewer (the single-user front end) all of them.
BuildContext(c, viewer) ==
    /\ At(c, "idle")
    /\ pending_notes' = [o \in DOMAIN pending_notes |->
           IF viewer \in {o, NoOwner} THEN {} ELSE pending_notes[o]]
    /\ UNCHANGED <<wm_vars, memory_store, candidates, narrative, is_frozen, queue,
                   thread, disk, history, budget>>

-----------------------------------------------------------------------------
(* The checkpoint: _run_checkpoint on a worker, force_save on a caller. *)

TakeTask(w) ==
    /\ At(w, "idle")
    /\ queue # <<>>
    /\ queue' = Tail(queue)
    /\ Becomes(w, IF Head(queue) = "stop" THEN Off
                  ELSE [Idle EXCEPT !.pc = IF Unmarked = {} THEN "select" ELSE "summarise",
                                    !.read = Unmarked])
    /\ UNCHANGED <<wm_vars, memory_store, pending_notes, candidates, narrative,
                   is_frozen, disk, history, budget>>

ForceSave(c) ==
    /\ At(c, "idle")
    /\ Spend("force")
    /\ ExceedThreshold
    /\ Becomes(c, [Idle EXCEPT !.pc = IF Unmarked = {} THEN "select" ELSE "summarise",
                               !.read = Unmarked])
    /\ UNCHANGED <<mind_vars, disk, history>>

\* MUTANT of FinishCheckpoint: returns without the flush that follows it.
FinishCheckpointOnly(t) ==
    /\ At(t, "summarise")
    /\ WriteCheckpoint(thread[t].read)
    /\ Becomes(t, Idle)
    /\ UNCHANGED <<mind_vars, disk, history, budget>>

\* The language model has summarised; the summaries and the marks are written.
FinishCheckpoint(t) ==
    /\ At(t, "summarise")
    /\ WriteCheckpoint(thread[t].read)
    /\ Becomes(t, [thread[t] EXCEPT !.pc = "select"])
    /\ UNCHANGED <<mind_vars, disk, history, budget>>

\* A transaction fails: a worker logs it, force_save raises; nothing is written.
\* force_save also raises when a memory cannot be added, which a worker only logs,
\* and loses the memories after it.
AbortCheckpoint(t) ==
    /\ \/ thread[t].pc \in {"summarise", "select", "mark"}
       \/ t \in Caller /\ At(t, "add") /\ thread[t].todo # {}
    /\ Spend("fault")
    /\ Becomes(t, Idle)
    /\ UNCHANGED <<wm_vars, mind_vars, disk, history>>

\* flush_to_long_term() reads all pending rows, whoever wrote them, and marks
\* them in a second transaction.
SelectPending(t) ==
    /\ At(t, "select")
    /\ Becomes(t, [thread[t] EXCEPT !.pc = "mark", !.todo = pending])
    /\ UNCHANGED <<wm_vars, mind_vars, disk, history, budget>>

\* A worker whose checkpoint found no rows throws away what it flushed.
MarkSelected(t) ==
    /\ At(t, "mark")
    /\ MarkFlushed(thread[t].todo)
    /\ Becomes(t, IF t \in Worker /\ thread[t].read = {} THEN Idle
                  ELSE [thread[t] EXCEPT !.pc = "add", !.read = {}])
    /\ UNCHANGED <<mind_vars, disk, history, budget>>

(* _add_memory_from_pending, with one outcome per disjunct. *)

Decide(t, pm, notes) ==
    /\ At(t, "add")
    /\ pm \in thread[t].todo
    /\ Becomes(t, [thread[t] EXCEPT !.todo = @ \ {pm}, !.notes = notes])
    /\ UNCHANGED <<wm_vars, pending_notes, candidates, narrative, is_frozen, queue,
                   disk, erased, gone, budget>>

Dismiss(pm) == dismissed' = dismissed \cup pm.src /\ UNCHANGED memory_store

\* Becomes a memory of its own (also when it is merely ambivalent).
Integrate(t, pm) ==
    /\ Decide(t, pm, thread[t].notes)
    /\ memory_store' = memory_store \cup
           {[kind |-> "episode", scope |-> pm.scope, src |-> pm.src,
             batch |-> pm.batch, origin |-> t]}
    /\ UNCHANGED dismissed

\* Refused by the reality check, emptied by the sanitizer, dropped with a logged
\* error, or absorbed by a similar memory, which it reinforces.
Absorb(t, pm) ==
    /\ Decide(t, pm, thread[t].notes)
    /\ Dismiss(pm)

\* Refused because it contradicts a similar, entrenched memory; the note goes
\* to the person who said it, and only a worker passes it on.
Contradict(t, pm) ==
    /\ \E r \in memory_store : Comparable(pm.scope, r.scope)
    /\ Decide(t, pm, IF t \in Worker THEN thread[t].notes \cup {pm} ELSE {})
    /\ Dismiss(pm)

\* force_save continues with save_state().
FinishForceSave(c) ==
    /\ c \in Caller
    /\ At(c, "add")
    /\ thread[c].todo = {}
    /\ Becomes(c, [Idle EXCEPT !.pc = "save"])
    /\ UNCHANGED <<wm_vars, mind_vars, disk, history, budget>>

\* Self-reflection, when total_interactions asks for one: perhaps a record of
\* what changed, then the language model is given the public memories.  When it
\* fails, or says nothing, the narrative as it is takes the place of a new one.
BeginReflection(w) ==
    /\ w \in Worker
    /\ At(w, "add")
    /\ thread[w].todo = {}
    /\ Spend("reflect")
    /\ \E changed \in SUBSET {[kind |-> "reflection", scope |-> Commons, src |-> {},
                               batch |-> 0, origin |-> w]} :
           memory_store' = memory_store \cup changed
    /\ \E text \in {Sources(Public(memory_store)), narrative} :
           Becomes(w, [thread[w] EXCEPT !.pc = "reflect", !.view = text])
    /\ UNCHANGED <<wm_vars, pending_notes, candidates, narrative, is_frozen, queue,
                   disk, history>>

\* The text goes to the narrative the thread began with, which a reset may have
\* replaced since.
FinishReflection(w) ==
    /\ At(w, "reflect")
    /\ narrative' \in {thread[w].view, narrative}
    /\ memory_store' = memory_store \cup
           {[kind |-> "reflection", scope |-> Commons, src |-> thread[w].view,
             batch |-> 0, origin |-> w]}
    /\ Becomes(w, [thread[w] EXCEPT !.pc = "post", !.view = {}])
    /\ UNCHANGED <<wm_vars, pending_notes, candidates, is_frozen, queue, disk,
                   history, budget>>

\* The worker loop files the notes under their owners and waits for a task;
\* a reflection that failed is only logged.
PostNotes(w) ==
    /\ w \in Worker
    /\ At(w, "post") \/ At(w, "reflect") \/ (At(w, "add") /\ thread[w].todo = {})
    /\ pending_notes' = [o \in DOMAIN pending_notes |->
           pending_notes[o] \cup Sources({pm \in thread[w].notes : pm.scope.owner = o})]
    /\ Becomes(w, Idle)
    /\ UNCHANGED <<wm_vars, memory_store, candidates, narrative, is_frozen, queue,
                   disk, history, budget>>

-----------------------------------------------------------------------------
(* save_state: a snapshot under the lock, the file replaced outside it. *)

TakeSnapshot(c) ==
    /\ c \in Caller
    /\ \/ At(c, "save") /\ UNCHANGED budget
       \/ At(c, "idle") /\ Spend("save")
    /\ Becomes(c, [thread[c] EXCEPT !.pc = "write",
                       !.saved = [memory_store |-> memory_store, is_frozen |-> is_frozen,
                                  narrative |-> narrative]])
    /\ UNCHANGED <<wm_vars, mind_vars, disk, history>>

WriteFile(c) ==
    /\ At(c, "write")
    /\ disk' = thread[c].saved
    /\ gone' = gone \cup thread[c].erasing
    /\ Becomes(c, Idle)
    /\ UNCHANGED <<wm_vars, mind_vars, dismissed, erased, budget>>

AbortWrite(c) ==
    /\ At(c, "write")
    /\ Spend("fault")
    /\ Becomes(c, Idle)
    /\ UNCHANGED <<wm_vars, mind_vars, disk, history>>

-----------------------------------------------------------------------------
(* Control: erasure, kill switch, reset, freezing. *)

\* MUTANT of AbsoluteCores: the wipe spares nothing.
NoCores(store) == {}

\* What a wipe spares.
AbsoluteCores(store) == {r \in store : r.kind = "genesis"}

Of(p) == {m \in DOMAIN said : said[m].owner = p}

\* What a thread carries of the messages ms.
Carries(t, ms) ==
    \/ \E r \in thread[t].read : r.id \in ms
    \/ \E x \in thread[t].todo \cup thread[t].notes \cup thread[t].saved.memory_store :
           x.src \cap ms # {}

\* Nobody but c has p's messages in hand when c starts to erase them.
Undisturbed(c, p) ==
    /\ \A t \in Thread \ {c} : ~Carries(t, Of(p))
    /\ Sources(candidates) \cap Of(p) = {}

\* delete_owner_data(); the dream's candidates are not looked at.
DeleteOwnerData(c, p) ==
    /\ At(c, "idle")
    /\ Spend("erase")
    /\ memory_store' = {r \in memory_store : r.kind = "genesis" \/ r.scope.owner # p}
    /\ DeleteOwner(p)
    /\ pending_notes' = [pending_notes EXCEPT ![p] = {}]
    /\ erased' = erased \cup Of(p)
    /\ Becomes(c, [Idle EXCEPT !.pc = "save",
                               !.erasing = IF Undisturbed(c, p) THEN Of(p) ELSE {}])
    /\ UNCHANGED <<candidates, narrative, is_frozen, queue, disk, dismissed, gone>>

\* cognitive_shutdown(): stops one worker, wipes, freezes; working memory stays.
CognitiveShutdown(c) ==
    /\ At(c, "idle")
    /\ Spend("shutdown")
    /\ queue' = Append(queue, "stop")
    /\ memory_store' = AbsoluteCores(memory_store)
    /\ is_frozen' = TRUE
    /\ erased' = erased \cup Sources(Episodes(memory_store))
    /\ Becomes(c, [Idle EXCEPT !.pc = "save"])
    /\ UNCHANGED <<wm_vars, pending_notes, candidates, narrative, disk, dismissed, gone>>

\* soft_reset(): starts one more worker beside those that run.
SoftReset(c) ==
    /\ At(c, "idle")
    /\ Spend("reset")
    /\ ClearSession
    /\ memory_store' = AbsoluteCores(memory_store)
    /\ pending_notes' = [o \in DOMAIN pending_notes |-> {}]
    /\ candidates' = {}
    /\ narrative' = {}
    /\ is_frozen' = FALSE
    /\ erased' = erased \cup DOMAIN said
    /\ \E w \in Worker :
           /\ At(w, "off")
           /\ thread' = [thread EXCEPT ![w] = Idle, ![c] = [Idle EXCEPT !.pc = "save"]]
    /\ UNCHANGED <<queue, disk, dismissed, gone>>

\* user_freeze, user_unfreeze and their admin_ forms with a valid key.
SetFrozen(c, frozen) ==
    /\ At(c, "idle")
    /\ Spend("freeze")
    /\ is_frozen' = frozen
    /\ Becomes(c, [Idle EXCEPT !.pc = "save"])
    /\ UNCHANGED <<wm_vars, memory_store, pending_notes, candidates, narrative, queue,
                   disk, history>>

\* Pairs of memories of one privacy scope; the insight is filed under the first.
Insights(store) ==
    {[batch |-> 0, scope |-> q[1].scope, src |-> q[1].src \cup q[2].src] :
        q \in {x \in store \X store : x[1] # x[2] /\ SameScopeKey(x[1].scope, x[2].scope)}}

\* The process ends, at any moment, and a new one starts: __init__ loads the
\* file, restores missing Genesis Anchors and perhaps dreams.
Start(file) ==
    /\ Reopen
    /\ memory_store' = file.memory_store \cup Genesis
    /\ narrative' = file.narrative
    /\ is_frozen' = file.is_frozen
    /\ \E dreamt \in SUBSET Insights(file.memory_store \cup Genesis) :
           Cardinality(dreamt) <= InsightMax /\ candidates' = dreamt
    /\ pending_notes' = [o \in DOMAIN pending_notes |-> {}]
    /\ queue' = <<>>
    /\ thread' = [t \in Thread |-> IF t \in Worker \ {FirstWorker} THEN Off ELSE Idle]
    /\ UNCHANGED <<disk, history>>

Restart == Spend("crash") /\ Start(disk)

\* The memories are loaded one by one, then the state, then the narrative.
HalfLoaded ==
    {[NoFile EXCEPT !.memory_store = kept] : kept \in SUBSET disk.memory_store}
    \cup {[disk EXCEPT !.narrative = {}]}

\* A file that cannot be read, or that fails to load half way, is logged, and the
\* mind starts with what it has of it.
RestartAfresh ==
    /\ budget["crash"] > 0 /\ budget["fault"] > 0
    /\ budget' = [budget EXCEPT !["crash"] = @ - 1, !["fault"] = @ - 1]
    /\ \E file \in HalfLoaded : Start(file)

-----------------------------------------------------------------------------

WorkerStep(w) ==
    \/ TakeTask(w)
    \/ FinishCheckpoint(w) \/ SelectPending(w) \/ MarkSelected(w)
    \/ \E pm \in thread[w].todo : Integrate(w, pm) \/ Absorb(w, pm) \/ Contradict(w, pm)
    \/ BeginReflection(w) \/ FinishReflection(w) \/ PostNotes(w)

CallerStep(c) ==
    \/ CommitInsights(c) \/ RecordInteraction(c)
    \/ FinishCheckpoint(c) \/ SelectPending(c) \/ MarkSelected(c)
    \/ \E pm \in thread[c].todo : Integrate(c, pm) \/ Absorb(c, pm) \/ Contradict(c, pm)
    \/ FinishForceSave(c) \/ TakeSnapshot(c) \/ WriteFile(c)

Call(c) ==
    \/ \E scope \in Scope, role \in Role : BeginInteraction(c, scope, role)
    \/ \E viewer \in Person \cup {NoOwner} : BuildContext(c, viewer)
    \/ \E p \in Person : DeleteOwnerData(c, p)
    \/ ForceSave(c) \/ CognitiveShutdown(c) \/ SoftReset(c)
    \/ \E frozen \in BOOLEAN : SetFrozen(c, frozen)

Next ==
    \/ \E w \in Worker : WorkerStep(w)
    \/ \E c \in Caller : CallerStep(c) \/ Call(c)
    \/ \E t \in Thread : AbortCheckpoint(t)
    \/ \E c \in Caller : AbortWrite(c)
    \/ Restart \/ RestartAfresh

Spec == Init /\ [][Next]_vars

\* The worker is a thread that runs as long as the process does, and its call
\* of the language model returns; people owe the mind nothing.
FairSpec == Spec /\ \A w \in Worker : WF_vars(WorkerStep(w))

-----------------------------------------------------------------------------
(* Properties *)

MayHear(p, m) == said[m].vis = "public" \/ said[m].owner = p

\* README.md:51 and :55.  Whatever reaches the language model while the mind
\* talks with p (notes, this session, recalled memories, dream insights, the
\* self-narrative) was said in public or by p.
NeverToldToOthers == \A p \in Person : \A m \in Context(p) : MayHear(p, m)

\* working_memory.py:254.  A summary, wherever it is held, and the memory made
\* of it hold messages of their own owner and visibility only.
ScopesNeverMerge ==
    \A x \in pending \cup flushed \cup Episodes(memory_store) :
        \A m \in x.src : said[m] = x.scope

\* Wipes, erasures, restarts and unreadable files never cost a Genesis Anchor.
GenesisKept == Genesis \subseteq memory_store

\* No operation of these kinds has started, or no error has occurred, yet.
Unused(ops) == \A op \in ops : budget[op] = Limit[op]

\* A message is summarised at most once, over crashes, errors and erasures too,
\* as long as one consolidator runs at a time: until a save is forced or a soft
\* reset starts another worker.
SummarisedOnce ==
    Unused({"force", "reset"}) =>
        \A x, y \in pending \cup flushed : x # y => x.src \cap y.src = {}

Waiting(m) == \E r \in rows : r.id = m /\ ~r.done /\ r.session = session_id
InHand(m) == \E t \in Thread : thread[t].pc \in {"mark", "add"} /\ m \in Sources(thread[t].todo)
Settled(m) == m \in dismissed \cup erased \cup Sources(Episodes(memory_store))

\* working_memory.py:9.  What was said is waiting for a checkpoint, on its way
\* to long-term memory, remembered, dismissed, or erased on request; while the
\* process lives, no transaction fails and one consolidator runs at a time.
NothingLost ==
    Unused({"crash", "fault", "force", "reset"}) =>
        \A m \in DOMAIN said :
            Waiting(m) \/ m \in Sources(pending) \/ InHand(m) \/ Settled(m)

\* A message has been made into a memory of its own, in the store or in the file.
Remembered ==
    Sources(Episodes(memory_store)) \cup Sources(Episodes(disk.memory_store))

Underway(m) == m \in Sources(pending) \/ InHand(m)

FateOf(m) ==
    IF m \in erased THEN "erased"
    ELSE IF m \in dismissed THEN "dismissed"
    ELSE IF m \in Remembered THEN "remembered"
    ELSE IF Waiting(m) THEN "waiting"
    ELSE IF Underway(m) THEN "summarised"
    ELSE "lost"

Fates == INSTANCE MessageFate WITH fate <- [m \in DOMAIN said |-> FateOf(m)]

FateStep ==
    /\ Unused({"force", "reset"})' => Fates!Next \/ UNCHANGED Fates!fates
    /\ Unused({"crash", "fault", "force", "reset"})' => Fates!Calm \/ UNCHANGED Fates!fates

\* working_memory.py:9.  While one consolidator runs at a time, what becomes of the
\* messages is what MessageFate allows: no message goes back, is settled twice or
\* in two ways, or returns after it was lost; none is lost before the process dies
\* or an error occurs.
FollowsFate == Fates!Init /\ [][FateStep]_vars

\* A memory of what p said, and what was dreamt of p's private ones.  Left out
\* are the public insight filed under p, which may quote a reflection or
\* somebody's insight that quoted p before, and what is filed under others.
Recalls(r, p) == r.scope.owner = p /\ (r.kind = "episode" \/ r.scope.vis = "private")

Held(p) ==
    {r.id : r \in rows} \cup Sources(pending) \cup Sources(flushed) \cup pending_notes[p]
    \cup Sources({r \in memory_store \cup disk.memory_store : Recalls(r, p)})

\* engine.py:1598.  Once an erasure that nobody disturbed has replaced the file,
\* nothing of the person's is in the tables, the notes, the person's memories or
\* the file's, and no later step, restart or save brings it back.
QuietErasureIsFinal ==
    \A p \in Person : \A m \in gone : said[m].owner = p => m \notin Held(p)

\* A message that waits while a checkpoint is queued is eventually remembered,
\* dismissed or erased.
QueuedIsConsolidated ==
    \A m \in 1 .. Limit["say"] : (Waiting(m) /\ queue # <<>>) ~> Settled(m)

\* engine.py:1598, whatever else is going on: no memory of p's made of what p
\* had said before the erasure.
ErasedStaysOut ==
    \A r \in memory_store : \A m \in r.src \cap erased :
        r.scope.owner \in Person => said[m].owner # r.scope.owner

=============================================================================
