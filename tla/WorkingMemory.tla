--------------------------- MODULE WorkingMemory ---------------------------
(***************************************************************************)
(* The short-term memory of cognitio/working_memory.py: two SQLite tables  *)
(* and three in-process fields.  Every operator below is one transaction   *)
(* (or one in-process update) of the class; the threads that interleave    *)
(* them, and the summarising that happens between two of them, are in      *)
(* SharedMind.                                                             *)
(***************************************************************************)
EXTENDS Naturals, FiniteSets, Sequences

CONSTANTS Person,            \* account names: the non-empty owner_id values
          NoOwner,           \* owner_id = "", the single-user front end
          CheckpointEveryN   \* checkpoint_every_n

ASSUME WorkingMemoryAssumption ==
    /\ NoOwner \notin Person
    /\ CheckpointEveryN \in Nat \ {0}

Visibility == {"private", "public"}
Role == {"user", "assistant"}

\* What the mind says to itself, and what is said without an account, is public.
Commons == [owner |-> NoOwner, vis |-> "public"]
Scope == [owner : Person, vis : Visibility] \cup {Commons}

VARIABLES
    said,              \* history: said[m] is the scope in which message m was said
    rows,              \* table interactions; the id of a row is its index in said
    pending,           \* table pending_memories, status 'pending'
    flushed,           \* table pending_memories, status 'flushed'
    session_id,        \* of this process; a number instead of a uuid
    message_count,     \* user messages of this checkpoint period
    last_checkpoint,   \* has this process completed a checkpoint?
    checkpoints        \* history: numbers the checkpoints, to name what they write

wm_vars == <<said, rows, pending, flushed, session_id, message_count,
             last_checkpoint, checkpoints>>

Message == Nat \ {0}

Row == [id : Message, scope : Scope, session : Nat, done : BOOLEAN]

\* A checkpoint writes one summary for each scope, so the number of the
\* checkpoint and the scope stand for the uuid of the row.
PendingMemory == [batch : Nat, scope : Scope, src : SUBSET Message]

WMTypeOK ==
    /\ said \in Seq(Scope)
    /\ rows \subseteq Row
    /\ pending \subseteq PendingMemory
    /\ flushed \subseteq PendingMemory
    /\ session_id \in Nat
    /\ message_count \in Nat
    /\ last_checkpoint \in BOOLEAN
    /\ checkpoints \in Nat

WMInit ==
    /\ said = <<>>
    /\ rows = {}
    /\ pending = {}
    /\ flushed = {}
    /\ session_id = 1
    /\ message_count = 0
    /\ last_checkpoint = FALSE
    /\ checkpoints = 0

-----------------------------------------------------------------------------

AddInteraction(scope, role) ==
    /\ said' = Append(said, scope)
    /\ rows' = rows \cup {[id |-> Len(said) + 1, scope |-> scope,
                           session |-> session_id, done |-> FALSE]}
    /\ message_count' = message_count + (IF role = "user" THEN 1 ELSE 0)
    /\ UNCHANGED <<pending, flushed, session_id, last_checkpoint, checkpoints>>

\* should_checkpoint(), on the counter as it stands after the message;
\* late says whether the checkpoint interval has elapsed.
ShouldCheckpoint(count, late) ==
    \/ count >= CheckpointEveryN
    \/ count > 0 /\ (~last_checkpoint \/ late)

\* MUTANT of Unmarked: the filter on the checkpointed flag is dropped.
UnmarkedOrNot == {r \in rows : r.session = session_id}

\* The rows checkpoint() selects: of this session, not yet checkpointed.
Unmarked == {r \in rows : r.session = session_id /\ ~r.done}

\* MUTANT of Summaries: grouped by owner, whatever the visibility.
SummariesByOwner(read, n) ==
    {[batch |-> n, scope |-> s, src |-> {r.id : r \in {x \in read : x.scope.owner = s.owner}}] :
        s \in {r.scope : r \in read}}

\* The messages of one scope are summarised together, those of two never.
Summaries(read, n) ==
    {[batch |-> n, scope |-> s, src |-> {r.id : r \in {x \in read : x.scope = s}}] :
        s \in {r.scope : r \in read}}

\* MUTANT of WriteCheckpoint: marks every row of the session, also those that
\* came in while the language model was summarising.
WriteCheckpointMarkAll(read) ==
    /\ pending' = pending \cup Summaries(read, checkpoints)
    /\ rows' = {[r EXCEPT !.done = r.done \/ r \in Unmarked] : r \in rows}
    /\ message_count' = 0
    /\ last_checkpoint' = TRUE
    /\ checkpoints' = checkpoints + 1
    /\ UNCHANGED <<said, flushed, session_id>>

\* The second transaction of checkpoint(), after the summaries came back.
WriteCheckpoint(read) ==
    /\ pending' = pending \cup Summaries(read, checkpoints)
    /\ rows' = {[r EXCEPT !.done = r.done \/ \E x \in read : x.id = r.id] : r \in rows}
    /\ message_count' = 0
    /\ last_checkpoint' = TRUE
    /\ checkpoints' = checkpoints + 1
    /\ UNCHANGED <<said, flushed, session_id>>

\* The UPDATE of flush_to_long_term(); rows deleted since the SELECT stay deleted.
MarkFlushed(selected) ==
    /\ pending' = pending \ selected
    /\ flushed' = flushed \cup (pending \cap selected)
    /\ UNCHANGED <<said, rows, session_id, message_count, last_checkpoint, checkpoints>>

\* MUTANT of DeleteOwner: forgets the table of summaries.
DeleteOwnerRows(p) ==
    /\ rows' = {r \in rows : r.scope.owner # p}
    /\ UNCHANGED <<said, pending, flushed, session_id, message_count, last_checkpoint,
                   checkpoints>>

DeleteOwner(p) ==
    /\ rows' = {r \in rows : r.scope.owner # p}
    /\ pending' = {pm \in pending : pm.scope.owner # p}
    /\ flushed' = {pm \in flushed : pm.scope.owner # p}
    /\ UNCHANGED <<said, session_id, message_count, last_checkpoint, checkpoints>>

ClearSession ==
    /\ rows' = {}
    /\ pending' = {}
    /\ flushed' = {}
    /\ session_id' = session_id + 1
    /\ message_count' = 0
    /\ UNCHANGED <<said, last_checkpoint, checkpoints>>

\* force_checkpoint_save() puts the counter over the threshold first.
ExceedThreshold ==
    /\ message_count' = CheckpointEveryN
    /\ UNCHANGED <<said, rows, pending, flushed, session_id, last_checkpoint, checkpoints>>

\* A new process opens the tables as the old one left them, under a new session.
Reopen ==
    /\ session_id' = session_id + 1
    /\ message_count' = 0
    /\ last_checkpoint' = FALSE
    /\ UNCHANGED <<said, rows, pending, flushed, checkpoints>>

=============================================================================
