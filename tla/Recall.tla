------------------------------- MODULE Recall -------------------------------
(***************************************************************************)
(* Three places hold the mind's long-term memory: the records of           *)
(* MemoryStore, in memory; the file they are saved to; and the vectors     *)
(* that ChromaDB finds them by, which are written to disk at once.         *)
(* Recall goes through the vectors, the garbage collector prunes records   *)
(* and vectors, and a crash takes the records back to the file but leaves  *)
(* the vectors as they are (cognitio/memory.py, vector_store.py,           *)
(* garbage_collector.py, and the parts of engine.py that use them).        *)
(*                                                                         *)
(* Integrations, saves, collections and erasures hold _save_lock.          *)
(* Reflections and dream insights add without it, and the kill switch and  *)
(* the soft reset remove, clear and add again without it, one record after *)
(* the other; so what takes several steps here is what they may come       *)
(* between.  Who may recall what is in SharedMind, what a record is worth  *)
(* in Beliefs: there no belief is ever in crisis, and anchors are the only *)
(* records of an entrenchment of 0.4.                                      *)
(*                                                                         *)
(* The age of a record is the time since its last access in steps of the   *)
(* clock: 0 is within protect_recent_days, and from FadedAt on the recency *)
(* is below prune_threshold_recency.                                       *)
(***************************************************************************)
EXTENDS Integers, FiniteSets

CONSTANTS Id, Owner,
          Wiper,          \* threads that reset the mind or throw the kill switch
          Mind,           \* owner_id = "": the mind itself, or its only user
          Limit,          \* max_active_memories
          Pool,           \* candidate_pool
          FadedAt,
          MaxAge,         \* bound: ages are not told apart beyond it
          MaxFaults       \* bound: failures of the vector index

ASSUME RecallAssumption ==
    /\ Mind \notin Owner
    /\ IsFiniteSet(Id)
    /\ Limit \in Nat /\ Pool \in Nat
    /\ FadedAt \in Nat \ {0} /\ MaxAge \in Nat /\ FadedAt =< MaxAge
    /\ MaxFaults \in Nat

VARIABLES
    up,        \* the process runs
    store,     \* memory_store._store
    file,      \* memories.json
    index,     \* the ids in the collection of ChromaDB
    gcDue,     \* no _last_run, or prune_interval_hours ago
    adding,    \* ids that are in the store and whose vectors are being added
    held,      \* the one of them that is added under _save_lock, if any
    weighed,   \* the record that is weighed under _save_lock against a new one
    wipe,      \* how far the wipe of each thread is, and with which ids
    orphans,   \* history: vectors, there or to come, whose records a crash, a
               \* wipe or an erasure took
    revived,   \* history: ids that a wipe removed and a reinforcement wrote back
    faulty     \* history: ids whose vector could not be added or deleted

memory  == <<store, file>>
threads == <<adding, held, weighed, wipe>>
history == <<orphans, revived, faulty>>
vars == <<up, memory, index, gcDue, threads, history>>

MemoryRecord == [owner : Owner \cup {Mind}, core : BOOLEAN, anchor : BOOLEAN,
                 status : {"active", "pruned"}, age : 0 .. MaxAge]

Records(f) == DOMAIN f
ActiveIn(f) == {i \in DOMAIN f : f[i].status = "active"}
Active == ActiveIn(store)
CoreIn(f) == {i \in DOMAIN f : f[i].core}

Wipe == [stage : {"off", "shutdown", "reset", "sync"}, todo : SUBSET Id]
Idle == [stage |-> "off", todo |-> {}]

InHand == UNION {wipe[w].todo : w \in Wiper}

\* Vectors that will be there in a moment: a record is in the store before
\* its vector is added, and a reset adds what the store held, one by one.
Coming == adding \cup UNION {wipe[w].todo : w \in {v \in Wiper : wipe[v].stage = "sync"}}

\* Nobody holds _save_lock.
LockIsFree == held = {} /\ Records(weighed) = {}

\* An id that occurs nowhere; uuid4 makes a new one for every record.
Fresh == Id \ (Records(store) \cup Records(file) \cup Records(weighed) \cup index
                \cup adding \cup InHand \cup orphans \cup revived \cup faulty)

Only(f, ids) == [i \in ids |-> f[i]]
With(f, i, record) == [j \in DOMAIN f \cup {i} |-> IF j = i THEN record ELSE f[j]]

Genesis == [owner |-> Mind, core |-> TRUE, anchor |-> TRUE, status |-> "active", age |-> 0]
Reflection == [Genesis EXCEPT !.core = FALSE]

Told(p) == [owner |-> p, core |-> FALSE, anchor |-> FALSE, status |-> "active", age |-> 0]

IsStore(f) == DOMAIN f \subseteq Id /\ f \in [DOMAIN f -> MemoryRecord]

TypeOK ==
    /\ up \in BOOLEAN /\ gcDue \in BOOLEAN
    /\ IsStore(store) /\ IsStore(file) /\ IsStore(weighed)
    /\ index \subseteq Id /\ adding \subseteq Id /\ held \subseteq adding
    /\ wipe \in [Wiper -> Wipe]
    /\ orphans \subseteq Id /\ revived \subseteq Id /\ faulty \subseteq Id

Empty == [i \in {} |-> Genesis]

Init ==
    /\ up = FALSE /\ gcDue = FALSE
    /\ store = Empty /\ file = Empty
    /\ adding = {} /\ held = {} /\ weighed = Empty
    /\ wipe = [w \in Wiper |-> Idle]
    /\ index = {} /\ orphans = {} /\ revived = {} /\ faulty = {}

-----------------------------------------------------------------------------
(* The vector index *)

\* Adding may fail, and the exception ends what the caller was doing.
\* Deleting may fail, which is logged and no more.  At most MaxFaults do.
MayFail(ids) == Cardinality(faulty \cup ids) =< MaxFaults

IndexOf(i) ==
    \/ index' = index \cup {i} /\ UNCHANGED faulty
    \/ MayFail({i}) /\ faulty' = faulty \cup {i} /\ UNCHANGED index

\* The nearest n_results vectors, whatever became of their records.
Query(found) == found \subseteq index /\ Cardinality(found) =< Pool

\* MUTANT of Unindex: the vectors are forgotten.
UnindexNothing(ids) == UNCHANGED <<index, faulty>>

Unindex(ids) ==
    \E stuck \in SUBSET (ids \cap index) :
       /\ MayFail(stuck)
       /\ index' = index \ (ids \ stuck)
       /\ faulty' = faulty \cup stuck

\* At start-up _sync_memories_to_vector_store adds the vectors that are
\* missing.  It stops at the first that cannot be added.
\* MUTANT of Sync: the collection stays as it was.
SyncNothing(f, lost) ==
    /\ lost \subseteq ActiveIn(f) \ index
    /\ MayFail(lost)
    /\ UNCHANGED index

Sync(f, lost) ==
    /\ lost \subseteq ActiveIn(f) \ index
    /\ MayFail(lost)
    /\ index' = index \cup (ActiveIn(f) \ lost)

-----------------------------------------------------------------------------
(* Starting and stopping *)

\* _load_state survives a failure to sync.  Genesis Anchors that are not in
\* the file are made anew, under new ids: on the very first start, and after
\* a crash that came before the first save.
Start ==
    /\ ~up
    /\ \E loaded \in {f \in {file} \cup {With(file, g, Genesis) : g \in Fresh} :
                         CoreIn(f) # {} /\ (CoreIn(file) # {} => f = file)},
          lost \in SUBSET (ActiveIn(file) \ index) :
          /\ Sync(loaded, lost)
          /\ store' = loaded
          /\ orphans' = (index \ Records(loaded)) \cup ((orphans \cap index) \ ActiveIn(loaded))
          /\ faulty' = (faulty \cap index) \cup lost
    /\ up' = TRUE /\ gcDue' = TRUE
    /\ UNCHANGED <<file, threads, revived>>

Crash ==
    /\ up
    /\ up' = FALSE
    /\ store' = Empty
    /\ adding' = {} /\ held' = {} /\ weighed' = Empty
    /\ wipe' = [w \in Wiper |-> Idle]
    /\ revived' = {}
    /\ UNCHANGED <<file, index, gcDue, orphans, faulty>>

Save ==
    /\ up /\ LockIsFree
    /\ file' = store
    /\ UNCHANGED <<up, store, index, gcDue, threads, history>>

-----------------------------------------------------------------------------
(* Remembering and recalling *)

\* The record is in the store before its vector is added: under the lock when
\* a summary is integrated, without it for a reflection or a dream insight.
Remember(i, record, locked) ==
    /\ up
    /\ locked => LockIsFree
    /\ store' = With(store, i, record)
    /\ adding' = adding \cup {i}
    /\ held' = IF locked THEN {i} ELSE held
    /\ UNCHANGED <<up, file, index, gcDue, weighed, wipe, history>>

\* A failure is caught by _run_checkpoint, by the reflections and when the
\* mind wakes up, and leaves the record in the store.
Embed(i) ==
    /\ up
    /\ IndexOf(i)
    /\ adding' = adding \ {i}
    /\ held' = held \ {i}
    /\ UNCHANGED <<up, memory, gcDue, weighed, wipe, orphans, revived>>

\* A summary much like a memory that the vectors lead to is weighed against it
\* under the lock ...
Weigh(i) ==
    /\ up /\ LockIsFree
    /\ weighed' = Only(store, {i})
    /\ UNCHANGED <<up, memory, index, gcDue, adding, held, wipe, history>>

\* ... and, confirmed or contradicted, the memory is written to the store,
\* whether it is still there or not.  (The new record that an ambivalent
\* verdict adds next is left to Remember.)
Reinforce(i, age) ==
    /\ up
    /\ store' = With(store, i, [weighed[i] EXCEPT !.age = age])
    /\ revived' = revived \cup ({i} \ Records(store))
    /\ weighed' = Empty
    /\ UNCHANGED <<up, file, index, gcDue, adding, held, wipe, orphans, faulty>>

Accessed(f, ids) == [i \in DOMAIN f |-> IF i \in ids THEN [f[i] EXCEPT !.age = 0] ELSE f[i]]

\* The active memories among the candidates are accessed.
RetrieveMemories ==
    /\ up
    /\ \E found \in SUBSET index :
          /\ Query(found)
          /\ store' = Accessed(store, found \cap Active)
          /\ weighed' = Accessed(weighed, found \cap Active)
    /\ UNCHANGED <<up, file, index, gcDue, adding, held, wipe, history>>

\* last_accessed is a date, in the file as in the store.
Older(f) == [i \in DOMAIN f |->
                [f[i] EXCEPT !.age = IF @ < MaxAge THEN @ + 1 ELSE @]]

TimePasses ==
    /\ store' = Older(store) /\ file' = Older(file) /\ weighed' = Older(weighed)
    /\ gcDue' = up
    /\ UNCHANGED <<up, index, adding, held, wipe, history>>

-----------------------------------------------------------------------------
(* The garbage collector *)

\* MUTANT of IsProtected: anchors are not spared.
IsProtectedByAge(record) == record.age = 0

IsProtected(record) == record.anchor \/ record.age = 0

\* Recency also depends on the type and the intensity of a record; one clock
\* for all stands for the time each takes to fade.
Candidates == {i \in Active : ~IsProtected(store[i]) /\ store[i].age >= FadedAt}

ShouldRun == 10 * Cardinality(Active) >= 8 * Limit \/ gcDue

Larger(m, n) == IF m > n THEN m ELSE n
Smaller(m, n) == IF m < n THEN m ELSE n

\* MUTANT of MaxToPrune: half of the candidates, however much is over the limit.
MaxToPruneHalf ==
    LET total == Cardinality(Active)
    IN  IF 2 * total > Limit THEN Cardinality(Candidates) \div 2
                             ELSE Larger(0, total - Limit)

\* MUTANT of MaxToPrune: all candidates above half of the limit.
MaxToPruneAll ==
    LET total == Cardinality(Active)
        over  == Larger(0, total - Limit)
    IN  IF 2 * total > Limit
        THEN Larger(over, Smaller(Cardinality(Candidates), 500))
        ELSE over

\* What is over the limit and, above half of it, up to half of the
\* candidates.
MaxToPrune ==
    LET total == Cardinality(Active)
        over  == Larger(0, total - Limit)
    IN  IF 2 * total > Limit
        THEN Larger(over, Smaller(Cardinality(Candidates) \div 2, 500))
        ELSE over

\* The candidates in the order of their recency, as far as MaxToPrune goes.
Prunable(ids) ==
    /\ Cardinality(ids) = Smaller(MaxToPrune, Cardinality(Candidates))
    /\ \A i \in ids, k \in Candidates \ ids : store[i].age >= store[k].age

\* An interaction ends with a collection when one is due, under the lock.  (A
\* record that a wipe removed in the middle of it would come back as pruned,
\* and lose its vector.)
Collect ==
    /\ up /\ LockIsFree /\ Active # {} /\ ShouldRun
    /\ \E ids \in SUBSET Candidates :
          /\ Prunable(ids)
          /\ store' = [i \in Records(store) |->
                          IF i \in ids THEN [store[i] EXCEPT !.status = "pruned"]
                                       ELSE store[i]]
          /\ Unindex(ids)
          /\ orphans' = orphans \cup (ids \cap Coming)
    /\ gcDue' = FALSE
    /\ UNCHANGED <<up, file, threads, revived>>

-----------------------------------------------------------------------------
(* Forgetting *)

DeleteOwnerData(p) ==
    LET owned == {i \in Records(store) : store[i].owner = p /\ ~store[i].core}
    IN  /\ up /\ LockIsFree
        /\ store' = Only(store, Records(store) \ owned)
        /\ Unindex(owned)
        /\ orphans' = orphans \cup (owned \cap Coming)
        /\ UNCHANGED <<up, file, gcDue, threads, revived>>

\* The kill switch and the soft reset go through the ids they found, without
\* the lock.
BeginWipe(w, stage) ==
    /\ up
    /\ wipe[w] = Idle
    /\ wipe' = [wipe EXCEPT ![w] = [stage |-> stage, todo |-> Records(store) \ CoreIn(store)]]
    /\ UNCHANGED <<up, memory, index, gcDue, adding, held, weighed, history>>

Forgets(w) == wipe[w].stage \in {"shutdown", "reset"}

Forget(w, i) ==
    /\ up /\ Forgets(w)
    /\ store' = Only(store, Records(store) \ {i})
    /\ orphans' = orphans \cup ({i} \cap Records(store) \cap (index \cup Coming))
    /\ wipe' = [wipe EXCEPT ![w].todo = @ \ {i}]
    /\ UNCHANGED <<up, file, index, gcDue, adding, held, weighed, revived, faulty>>

\* The kill switch does not touch the vectors.
CognitiveShutdown(w) ==
    /\ up
    /\ wipe[w] = [stage |-> "shutdown", todo |-> {}]
    /\ wipe' = [wipe EXCEPT ![w] = Idle]
    /\ UNCHANGED <<up, memory, index, gcDue, adding, held, weighed, history>>

\* A soft reset drops the collection and makes it anew; that this failed is
\* only logged, and nothing tells that it went through with half of it.  Then
\* it adds a vector for every record there now is.
SoftReset(w) ==
    /\ up
    /\ wipe[w] = [stage |-> "reset", todo |-> {}]
    /\ \/ index' = {} /\ orphans' = orphans \cap Coming /\ faulty' = {}
       \/ UNCHANGED <<index, orphans, faulty>>
    /\ wipe' = [wipe EXCEPT ![w] = [stage |-> "sync", todo |-> Active]]
    /\ revived' = {}
    /\ UNCHANGED <<up, memory, gcDue, adding, held, weighed>>

SyncOne(w, i) ==
    /\ up
    /\ wipe[w].stage = "sync"
    /\ index' = index \cup {i}
    /\ wipe' = [wipe EXCEPT ![w].todo = @ \ {i}]
    /\ UNCHANGED <<up, memory, gcDue, adding, held, weighed, history>>

\* It went through all, or stopped at the first that could not be added.
EndSync(w) ==
    LET lost == (wipe[w].todo \cap Active) \ index
    IN  /\ up
        /\ wipe[w].stage = "sync"
        /\ MayFail(lost)
        /\ faulty' = faulty \cup lost
        /\ wipe' = [wipe EXCEPT ![w] = Idle]
        /\ UNCHANGED <<up, memory, index, gcDue, adding, held, weighed, orphans, revived>>

-----------------------------------------------------------------------------
Next ==
    \/ Start \/ Crash \/ Save
    \/ \E i \in Fresh : Remember(i, Reflection, FALSE)
    \/ \E i \in Fresh, p \in Owner \cup {Mind}, locked \in BOOLEAN : Remember(i, Told(p), locked)
    \/ \E i \in adding : Embed(i)
    \/ \E i \in index \cap Records(store) : Weigh(i)
    \/ \E i \in Records(weighed) : \E age \in {0, weighed[i].age} : Reinforce(i, age)
    \/ RetrieveMemories
    \/ TimePasses
    \/ Collect
    \/ \E p \in Owner : DeleteOwnerData(p)
    \/ \E w \in Wiper, stage \in {"shutdown", "reset"} : BeginWipe(w, stage)
    \/ \E w \in Wiper : \E i \in wipe[w].todo : Forget(w, i) \/ SyncOne(w, i)
    \/ \E w \in Wiper : CognitiveShutdown(w) \/ SoftReset(w) \/ EndSync(w)

Spec == Init /\ [][Next]_vars

-----------------------------------------------------------------------------
(* Properties *)

\* Every active memory can be found: whatever was pruned, erased, wiped, saved
\* or lost in between, a record that is active has its vector or is about to,
\* unless adding it failed in this run of the program, or a wipe removed the
\* record while it was being weighed and it was written back.
ActiveIsFindable == up => Active \ index \subseteq faulty \cup Coming \cup revived

\* A vector without an active record is the trace of a failure of the index,
\* or of a record that went while its vector was on its way or when nobody
\* removes vectors: in a crash, by the kill switch, or in a soft reset whose
\* clearing failed.  Pruning, erasing and resetting leave no other behind.
VectorsHaveRecords == up => index \ Active \subseteq orphans \cup faulty

\* A collection brings the active memories down to the limit, or finds
\* nothing more it may prune.
CollectionReachesLimit ==
    [][Collect => \/ Cardinality(Active') =< Limit
                  \/ Candidates' = {}]_vars

\* While the memories are within the limit, a collection spares half of its
\* candidates: the mind does not forget everything old at once.
CollectionIsGentle ==
    [][Collect /\ Cardinality(Active) =< Limit =>
          2 * Cardinality(Active \ Active') =< Cardinality(Candidates)]_vars

\* Anchors are only ever lost to a crash or to a wipe that has come to them,
\* and no wipe comes to a Genesis Anchor.
AnchorsOutlast ==
    [][\A i \in Active : store[i].anchor /\ i \notin Active' =>
          \/ ~up'
          \/ \E w \in Wiper : Forgets(w) /\ i \in wipe[w].todo /\ ~store[i].core]_vars

=============================================================================
