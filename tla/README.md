# Immortal Mind in TLA+

A verification project for the program in `src/`: a language model is given a
long-term memory ("the mind"), one mind talks with many people, and an Ethereum
contract records who the mind is and what it remembered. The modules here model
the parts that keep state, TLC checks them on small instances, and TLAPS proves
the most important theorems for all instances.

## The system and its parts

| part | code | state it keeps | how others reach it |
|---|---|---|---|
| working memory | `cognitio/working_memory.py` | SQLite tables `interactions` and `pending_memories`; session id, message counter, time of the last checkpoint | called by the engine, on whatever thread called the engine |
| engine | `cognitio/engine.py` | memory store, vector index, pending notes, frozen flag, narrative, scores, `memories.json`; one queue and one consolidation-worker thread | browser sessions (`frontend/app.py`) or the chat loop and its timer thread (`agent/chat.py`) |
| dream cycle | `cognitio/dream.py` | insight candidates | run when the engine starts after a sleep; judged on the next user message |
| filters | `cognitio/emotion_shield.py`, `reality_check.py`, `input_sanitizer.py` | the last emotional intensities, a cooldown, two counts of high-emotion memories | called for every summary, by every thread that consolidates |
| scores | `attention`, `biases`, `character`, `somatic`, `epistemic`, `predictive`, `existential`, `narrative`, `temporal` | numbers and texts of one engine | called by the engine |
| garbage collector | `cognitio/garbage_collector.py` | tombstones, crisis references | called after a message, when its interval has passed |
| vector index | `cognitio/vector_store.py` | one entry for each active memory | written by the engine beside the store |
| short-term chat memory | `agent/memory_manager.py`, `agent/summarizer.py` | a list of turns | chat loop and timer thread |
| language model access | `agent/llm_client.py`, `agent/model_adapter.py`, `agent/resilience.py` | failure counts and health of each provider | every part that asks a language model |
| accounts | `agent/accounts.py` | users, failed logins, message counts | `frontend/app.py` |
| front ends | `frontend/app.py`, `agent/chat.py` | browser sessions, the cached engine | people |
| contract | `contracts/ImmortalMind.sol` | identities and their logs | anyone on the chain |
| blockchain client | `storage/blockchain_anchor.py`, `storage/merkle_batcher.py` | queue of failed transactions and its file, pending batch | nobody yet calls it except to show that it is there |
| file stores | `storage/local_store.py`, `arweave_store.py`, `ipfs_store.py` | files, uploads | nobody yet calls them from the engine |

How they interact, and what is hard about it:

* Every message of a browser session runs `process_interaction` on a thread of
  its own. Saving it is short; turning it into a memory is not: the
  consolidation worker reads the rows, asks the language model for a summary of
  each person's part, writes the summaries and marks the rows, reads the
  summaries back, and adds them to the store one by one. Between any two of
  these, other threads talk, save, erase a person, reset or shut down the mind.
* Only some of the state is guarded by `_save_lock`: the kill switch, the reset,
  the reflection and the dream write the store and the index without it, the
  first two one record after another, and the file is replaced outside it.
* The process may end at any point. The tables survive row by row; the store
  survives as of the last save; notes, candidates, the queue and everything a
  thread had in its hands do not.
* A browser session's script fetches the cached mind once and keeps that engine
  to its end. An administrator may drop the engine from the cache meanwhile, and
  a script may fail or be cut short between any two of its calls. The dropped
  engine's consolidation worker goes on as well, over the same
  `working_memory.db` as the worker of the next engine.
* The blockchain client's node may be away, may refuse, and may take a
  transaction and lose the answer; what could not be sent waits in a file that
  is written in place.
* One mind serves everyone, so one person's private words are in the same
  store, tables and prompts' reach as everyone else's. Five different paths
  lead from what is stored to what the language model reads: notes, the current
  session, recalled memories, dream insights, and the self-narrative.

What makes each part correct: for the pipeline, that nothing said is lost or
summarised twice, that it is eventually settled, and that scopes stay apart;
for control, that an erasure is final and that the Genesis Anchors survive; for
the contract, that an identity belongs to whoever registered it, that its logs
only grow and stand still while frozen, and that events tell the truth; for the
web server, that an account does not inherit the words of an earlier one of the
same name and that what was deleted is gone, unless somebody or something was in
the middle of using it; for the filters, that emotion builds up and high emotion stays rare; for
the blockchain client, that nothing queued is lost and nothing sent twice.

## Modules

| module | models | state and actions |
|---|---|---|
| `WorkingMemory` | `working_memory.py` | the two tables as sets `rows`, `pending`, `flushed`; one operator for each transaction. A message is its index in the history `said`; a summary is the set `src` of messages it was made from |
| `SharedMind` | `engine.py`, `dream.py`, `memory.py`, what `narrative.py` is made from | extends `WorkingMemory`. `thread[t]` is the program counter and local values of a caller or a worker; each stretch that no other thread can interrupt is one action |
| `MCSharedMind` | | bounds and symmetry for TLC |
| `MessageFate` | what the mind promises about every message, which `SharedMind` implements | per message a station: waiting, summarised, remembered, dismissed, erased or lost; one action for each way on |
| `SharedMind_proofs` | | theorems about `SharedMind` |
| `ImmortalMind` | `ImmortalMind.sol` | the mappings and arrays of the contract, its event log; one action for each external function that changes state |
| `AnchorLedger` | the promise of the contract | per identity a list that has one owner, only grows, and not while sealed |
| `MCImmortalMind`, `ImmortalMind_proofs` | | instances; theorems |
| `Accounts` | `accounts.py` and the pages of `app.py` that use it | the tables `accounts` and `usage`, a clock, and what each browser session's script is doing; one action for each stretch of a script between two waits |
| `MCAccounts`, `Accounts_proofs` | | instances; theorems, those about `WebMind` with them |
| `Beliefs` | the contradiction check of `engine.py`, with `biases.py`, `character.py`, `reality_check.py` | entrenchment, confirmations and contradictions of the active records, the one figure of trust, crises, the records that make up the character; one action for each verdict and each way a record comes or goes |
| `Recall` | `garbage_collector.py`, `vector_store.py`, `memory.py` and their callers in `engine.py` | the store, the file, the ids in the vector index, and what threads have under way: records whose vectors are being added, one that is being weighed, and how far each wipe has come; one action for each stretch that no other thread can interrupt |
| `MCBeliefs`, `Beliefs_proofs`, `MCRecall`, `Recall_proofs` | | instances; theorems |
| `Sessions` | the session log of `temporal.py` | operators on a tracker: the numbers of the ended sessions and of the current one |
| `TerminalChat` | `chat.py` with its timer thread, `memory_manager.py`, `summarizer.py`, `full_delete` | extends `Sessions`. `local[t]` is where the chat loop and the timer stand; the short-term list and its lock are shared; of the engine there is its flags, its session, its worker's checkpoint and its database (none, empty, with tables, with words); the files are what `/delete` must remove |
| `MCTerminalChat`, `TerminalChat_proofs` | | instances; theorems |
| `MerkleTree` | `merkle_batcher.py` | operators: a hash is the term it was computed from |
| `BlockchainAnchor` | `blockchain_anchor.py`, the node, and the contract through `INSTANCE ImmortalMind` | connection, queue, file, the retry's place and list, batch, the node's pool; one action for each method, and for `retry_pending` one for each operation the loop comes to |
| `MemoryFilters` | `emotion_shield.py`, `reality_check.py` as `_add_memory_from_pending` calls them | whether the check is turned on, the window, the cooldown, both counts, and where each thread stands with its memory |
| `WebMind` | `app.py` with the engine's calls it makes, and the engines' workers | the engines of the process, which of them is cached, their workers, the file, the rows and summaries of `working_memory.db`, the accounts, the sessions; `todo` is the sequence of calls a script has still to make |
| `MCBlockchainAnchor`, `BlockchainAnchor_proofs`, `MCMemoryFilters`, `MemoryFilters_proofs`, `MCWebMind` | | instances; theorems (those about `WebMind` in `Accounts_proofs`) |

`SharedMind`, `Beliefs` and `Recall` look at the same store from three sides.
`SharedMind` says who is told what, in every interleaving of the threads, and
leaves the verdicts open; `Beliefs` decides the verdicts and leaves open who
spoke; `Recall` leaves both open and follows the records to the disk and the
index. What `Recall` assumes of the others is what they show: no belief is in
crisis, and only anchors have an entrenchment of 0.4 (`NoBeliefIsShaken`,
`NothingLearnedHardens`), so the collector's other protections never matter.

Operators whose comment begins with `MUTANT of` are not used by the
specification. Each is a plausible bug in the operator that follows it; putting
it in that operator's place must break the property it is listed with in
`PROJECT.json`, which shows that the property depends on the code.

### How SharedMind follows the code

| action | code |
|---|---|
| `BeginInteraction`, `CommitInsights`, `RecordInteraction` | `process_interaction`: the check of `is_frozen`, the language model call that judges dream candidates, and what is done under `_save_lock` |
| `BuildContext` | `build_context_for_llm`; what it may show is the operator `Context` |
| `TakeTask`, `FinishCheckpoint`, `SelectPending`, `MarkSelected` | `_consolidation_worker`, `_run_checkpoint`, `checkpoint()`, `flush_to_long_term()`: rows read / summaries written and rows marked / summaries read / marked as flushed (and discarded when the checkpoint had found no rows) |
| `Integrate`, `Absorb`, `Contradict` | the outcomes of `_add_memory_from_pending`. Which one happens depends on scores and texts, so each is possible |
| `BeginReflection`, `FinishReflection`, `PostNotes` | the reflection at the end of a checkpoint, which stores the old narrative once more when the language model fails; the worker loop filing the notes |
| `ForceSave`, `FinishForceSave` | `force_save`, which runs the same checkpoint on the caller's thread |
| `TakeSnapshot`, `WriteFile` | `save_state` |
| `DeleteOwnerData`, `CognitiveShutdown`, `SoftReset`, `SetFrozen` | the methods of these names (`SetFrozen`: `user_` and `admin_` freeze and unfreeze); each goes on to save |
| `Restart`, `RestartAfresh` | the end of the process at any moment, and `__init__` of the next one, with the file, or with what could be loaded of it |
| `AbortCheckpoint`, `AbortWrite` | a database or file error |

The erased, dismissed and gone messages, `said` and the number of a checkpoint
are history variables; the program does not keep them. `delete_owner_data`
takes two locks one after the other; what may happen in between commutes with
one of its halves, so it is one action. The garbage collector only changes the
status of a record, which this module does not keep (`Recall` does): `Context` and the store are
what they would be if every pruned memory were restored. An exception while one
summary is added is counted as a dismissal, as the code counts it
(`rejected += 1`).

The stations of `MessageFate` are read off that state (`FateOf`): a message is
"waiting" while a row of this session holds it unmarked, "summarised" while a
summary in the table or in a consolidator's hands holds it, "remembered" when the
store or the file has a memory of its own of it (an insight or a reflection that
quotes it does not count). What a dismissal or an erasure has settled
stays there; everything else is "lost": rows of an earlier session, summaries that
were thrown away, memories that were in neither the store nor the file when the
process ended. A replaced file can lose a message too, when its memory was only in
the old file.

### How Accounts follows the code

A session's script runs on its own thread. `authenticate` and `consume_message`
read the clock and then wait for the store's lock, so `SubmitLogin` and `Say`
read it and `Refuse`, `AcceptPassword`, `RejectPassword`, `LetThrough` and
`TurnAway` are the transactions. Registration counts the accounts on the page
(`SubmitRegistration`), hashes the password, and inserts (`Register`,
`NameTaken`). Leaving is `engine.delete_owner_data` (`Leave`) and then
`delete_account`; the script may fail (`Fail`) or end (`Abandon`) in between.
Nothing checks that the account of a session still exists, so a second tab goes
on talking after the first has deleted it. `wrongGuesses`, `lockouts`, `spoken`
and `departures` are history variables. The clock never goes back, and nothing
waits for the store longer than `MaxWait`: the lock is held for one transaction
at a time, and SQLite gives up after five seconds.

### How Beliefs follows the code

`_add_memory_from_pending` weighs a new statement against the similar memories
it finds. Everything that decides the outcome is a multiple of 0.01, but for
the confidence, which is any number `RealityCheck` lets through, and the
logistic function, which is monotone: so the thresholds on the probability
become thresholds on its argument, and all of it is integer arithmetic (the
units are in the module's header). `Accept`, `LiveWith`, `Reject` and `Add` are
the branches; `Dream` and `Reflect` the records that are stored unweighed. The
set `Strength` of confidences is a constant: 400 to 4000 stands for 0.05 to
0.5. With the reality check enabled no factor product exceeds 0.35, which
`TrustComesFirst` needs and the others do not.

### How Recall follows the code

Vectors go to disk at once, records at the next save, and only some of what
changes them holds `_save_lock`.

| action | code |
|---|---|
| `Remember`, `Embed` | a record added to the store, and its vector to the index: under the lock when a summary is integrated (`held`), without it for a reflection or a dream's insight |
| `Weigh`, `Reinforce` | a memory that the vectors lead to is held against a new statement, and written back by `update()`, whether it is still in the store or not |
| `RetrieveMemories`, `Collect` | `retrieve_memories`; the garbage collection at the end of an interaction, under the lock |
| `DeleteOwnerData` | the half of it that touches store and index, under the lock |
| `BeginWipe`, `Forget` | the loop that `cognitive_shutdown` and `soft_reset` share: the ids are listed, and removed one after another, without the lock |
| `CognitiveShutdown`, `SoftReset` | the end of that loop. The reset then clears the index, which may fail and is then only logged, and lists the records there are to be added |
| `SyncOne`, `EndSync` | `_sync_memories_to_vector_store` after a reset, one vector after another, to the end or to the first that cannot be added |
| `Start`, `Crash`, `Save` | `_load_state` with its synchronisation and `_ensure_genesis_anchors`, before there is another thread; the end of the process at any moment; `save_state`, whose snapshot is what the file becomes (`SharedMind` has its two halves) |

Adding to the index raises when it fails and deleting only logs, so each may
fail (`IndexOf`, `Unindex`, `Sync`). Three history variables say what the
properties must excuse: `faulty`, the ids that happened to; `orphans`, the
vectors, there or on their way, whose records went by a crash, a wipe, or a
removal that came before the vector did; `revived`, the records a wipe removed
while they were being weighed. One Genesis Anchor stands for them all. A
collection is one step, and the record an ambivalent verdict adds is left to
`Remember`. Every record has one clock, where `biases.py:40-93` lets recency
depend on the type and the intensity of a memory, and a Python dictionary that
changes while another thread iterates over it, which raises, is not modelled.

### How TerminalChat follows the code

| action | code |
|---|---|
| `Say`, `Reply` | `add_message`: the append and the test of the limit that follows it |
| `Wake`, `BeginFlush`, `SkipFlush` | the test of `time_based_flush`, and the two tests under `_flush_lock` |
| `Refuse`, `Accept` | `summarize`, which reads the list before it asks the language model, and the conditions of `store` |
| `Store`, `StoreFails`, `Trim` | `process_interaction`, which connects to the database and then finds tables or not, and the copy of the end of the list; the list replaced by the copy |
| `Tell`, `Save` | the engine is told of the message; the save after each exchange |
| `Clear`, `ForceSave`, `SetFrozen`, `SoftReset`, `KillSwitch`, `FullDelete`, `Wipe`, `Quit` | the commands; `/delete` is the shutdown and then the removal of the files, any of which may fail |
| `BeginCheckpoint`, `FinishCheckpoint` | `checkpoint()` on the worker: the rows read, and, after the language model call, the summaries written |
| `Exit`, `Crash`, `Start`, `StartWithoutEngine` | the end of the loop with the exit save; the end of the process at any moment; `_build_components` |

Of the engine there is what the deletion is about: its flags, its session, its
database and its worker; the rest is `SharedMind`. The database is `none`,
`empty`, with `tables`, or with `words` in them. `sqlite3.connect` makes a file
where there is none (`Connected`), and only `_initialize_db` makes tables
(`Initialised`), so whatever comes after `/delete` finds an empty database and
fails. The directory of ChromaDB and SQLite's own side files are left out. There is no clock,
because the timer sleeps exactly as long as a flush by time must wait, so it
never finds itself early. `add_message` appends outside the lock, as the
code does, and `Trim` is a step of its own, because the slice is taken before
the list is replaced. The number of messages in a session record is left out. A
flush without a summariser is unreachable: `_build_components` always makes one.
`refused`, `wiped` and `recorded` are history variables.

### How BlockchainAnchor follows the code

| action | code |
|---|---|
| `Anchor`, `HealthCheck` | `anchor_memory_hash`, `health_check`; what `_init_web3` leaves behind and returns is `InitWeb3` |
| `BeginRetry`, `RetryOne`, `PassOver`, `EndRetry` | `retry_pending`: the test of the queue; an operation that is sent again; one that raises or is of another type; the list replaced and saved |
| `AnchorMemoryBatched`, `FlushBatch` | the methods of these names with `MerkleBatcher.add` and `flush` and `_anchor_batch_on_chain` |
| `Mine`, `Administer` | the node includes the transaction it holds; the guardian registers, freezes and unfreezes from elsewhere |
| `Restart` | the end of the process at any moment, and `__init__` of the next |

The program runs the client on one thread; `Restart`, `Mine` and `Administer`
come in between any two steps. The contract is `ImmortalMind` itself, of which a
batch needs the identities, the batch log and the events. A single anchor never
reaches it: `anchorMemory` takes six arguments and is given five, so with an ABI
every call ends in the `except` branch. `asked`, `owed`, `made`, `killed` and
`copied` are history variables. Whether `web3` can be imported is fixed for a
behaviour.

### How MemoryFilters follows the code

A thread takes one memory after the other: `EvaluateInCooldown` or `Evaluate`,
`Detect` (after the message was embedded), `Settle`; `RejectViolation`,
`ApproveUnchecked` (with the check turned off) or `DetectOutliers` (after the
language model was asked), and `Decide`. `enabled` is fixed for a behaviour: the
terminal reads it from `REALITY_CHECK_ENABLED` (`chat.py:143`), the web server
always turns the check on (`app.py:76`). Neither
class has a lock, so any thread may be anywhere while another counts; the test
of the cooldown with its decrement is taken to be one step, as it is with
CPython's switching between threads far apart. Intensities are hundredths,
rounded down. The numbers are the defaults, which no caller overrides. What an
embedding, a pattern or the language model finds is any of its outcomes.

### How WebMind follows the code

`Begin` is `main()` up to the first call of the button that was pressed; the
calls that follow are a sequence (`ChatCalls`, `ForgetMeCalls`,
`FullDeleteCalls`, `AdminCalls`), and the action named after a call makes it
(`DeletesAccount` and `LogsOut` for the calls of the account store and of the page).
`SignUp`, `Login` and `SignOut` are the forms of the login page and the button.
`save_state` is two calls, `snapshot` and `replace`, because the file is replaced
outside the lock. `GetMind` makes an engine from the file where none is cached.
`GiveUp` is a language model that fails, or a page the browser left; `SaveFails`
and the second half of `RemoveFiles` are files that cannot be written or
removed. What a person told is the name it is filed under, the account it was
told with, and how often everything had been deleted by then.

Words become rows, and the workers carry them on: `BeginCheckpoint` reads rows
of the worker's own engine, or, when it finds none, throws the summaries away;
`WriteSummaries` writes into the database that is there by then;
`FlushToLongTerm` takes all summaries, whoever wrote them; `AddMemory` adds one
to the worker's own engine, frozen or not; `EndCheckpoint` ends, after a failed
transaction too. A worker may begin at any time and read any of its session's
rows, checkpointed or not, which is more than the code does. Every engine starts
one, a reset another, and none is ever stopped: the message that stops the
worker after a kill switch is left out, which again allows more. A database that
cannot be removed keeps its rows, because the kill switch leaves working memory
alone. A contradiction note counts as memory; words that a narrative, a
reflection or somebody else's insight repeats are left to `SharedMind`, and the
admission of logins and messages to `Accounts`.

`disturbed` says that an erasure was not left alone (`Disturb`). A person's
erasure is disturbed by another script that runs meanwhile, and by that person's
words in the hands of a worker or in the insights of a dream that are still to
be judged; a full deletion by another script, by a worker at work or that begins
before the deletion is over, by insights that are still to be judged, by the end
of the server in the middle of it, and by a database that cannot be removed.
After that the code keeps neither promise, as `ErasureInFlight` shows for the
worker that holds the words, and both properties claim nothing.

## Runs

Every bound is an entry of `Limit` (how often an operation may start), a
constant of the cfg (those whose name begins with `Max`), or a state constraint: `Bounded` in `MCAccounts` (how long
the histories are), `RacesAreSmall` in `MCRecall` and `Undisturbed` in `MCWebMind` (their rows say what they cut). Deadlock is not checked, because a model whose budget is
spent stops, and a mind nobody talks with waits.

| run | shows | bounds and why they suffice |
|---|---|---|
| `MindPrivacy` | `NeverToldToOthers`, `ScopesNeverMerge`, `QuietErasureIsFinal`, `SummarisedOnce`, and `FollowsFate`: the implementation of `MessageFate` | two people, two sessions, one worker; 2 messages in any of the five scopes, an erasure, a save, a crash. Two messages are needed to merge two people or to summarise one twice, and the erasure and the crash fall between any two steps. One message may be paired by a dream with a Genesis Anchor over the restart, and the second judges the insight; pairs of two people's messages, which take a third, and dreams after an erasure of several are covered by the theorems `PrivacyHolds` and `QuietErasureHolds` only. `FollowsFate` and the parts of its invariant were also run with the kill switch, freezing, a reflection and a failing transaction in place of the second message; the theorem `FateHolds` covers these and everything larger |
| `MindControl` | `GenesisKept` | one each of forced save, save, kill switch, reset, freeze, crash and error, with the second worker a reset starts |
| `MindPipeline` | `NothingLost`, and `QueuedIsConsolidated` under fairness | two people, two sessions, 2 messages (one may arrive while the other is summarised), an erasure, a reflection |
| `Contract` | ownership, events, the window of recent anchors, and both refinements of `AnchorLedger` | two senders, any 4 transactions, one of them possibly invalid (score 101, count 0), two moments in time. Four transactions register, freeze and try to write, or register and fill the window past its edge |
| `Accounts` | `WithinDailyLimits`, `BillIsBounded`, `GuessesAreBounded`, `AccountsAreBounded` | two sessions, three names (one more than the accounts two sessions can squeeze past a limit of 1), two failures to a lockout of 2 ticks with a wait of 1, a personal limit of 1 and a site limit of 2, two days of 2 ticks so that midnight falls into a wait, one departure; 4 wrong passwords, enough for two lockouts |
| `Beliefs` | `NothingLearnedHardens`, `NoBeliefIsShaken`, `CharacterIsInborn`, `TrustComesFirst` | a Genesis Anchor and two more records, the weakest, a middling and the greatest approved strength, any trust; 5 contradictions, which is what a crisis takes. The proofs remove the bounds |
| `Recall` | `ActiveIsFindable`, `VectorsHaveRecords`, `CollectionReachesLimit`, `CollectionIsGentle`, `AnchorsOutlast` | three records, one of them the Genesis Anchor, and a limit of two, so that a collection may be over it or at it and above half of it; an age is 0 (recent) or 1 (faded); one failure of the index, which is enough to part a vector from its record; two threads that wipe, and saves, crashes, resets and kill switches without bound. `RacesAreSmall`: while anything is wiped, weighed or added under the lock, or once the index has failed, two ids are in use (a record that comes or goes and the Genesis Anchor); the third is there for the collector. The proofs remove the bounds |
| `TerminalChat` | `WindowIsBounded`, `DeletedStaysDeleted`, `SessionsAreKept`, and `MessagesAreAnswered` under fairness | a list of 3 of which 1 is kept (20 and 10 in the code) and summaries of at least 2 (4 in the code), 6 messages: two flushes by size and any number by time; 3 starts or resets with a log of 1, so that the log is cut; 2 commands, so that one may follow a freeze or a clear; a checkpoint whenever there are words |
| `Anchoring` | `QueuedIsKept`, `LoggedOnce`, `BatchesTellTheirLeaves`, and `RetryEnds` under fairness | one request, which the contract refuses, the plain transaction takes or a missing connection queues; one leaf in batches of 4, so that a flush may find 3, whose root is that of 4; 8 calls make two batches and two retries; one crash, one lost answer or failed write. The queue is never longer than 6, so `MaxQueue` = 8 never binds where `web3` can be imported. A leaf that is no hexadecimal number (`NotHex`) is left out of the run, which then takes four times as long; it keeps its batch from ever being hashed, and no property speaks of it |
| `Filters` | `VividMemoriesAreFew`, `HighRecordsArePaidFor`, `BuildsUp` | the check on or off, two threads and nine memories that claim 0.9: three to reach the counts, three for the cooldown they start, three after it. The corrections make further values of it. The proofs remove the bounds |
| `WebMind` | `NamesStartEmpty`, `DeletedIsGone` | two sessions, a person and an administrator, two accounts, so that a name is registered again; three scripts, enough for one that tells, one that deletes, and one of whoever comes next; one checkpoint that finds rows, of any worker; one failing file, one restart. `Undisturbed` stops where an erasure was disturbed, since both properties then hold whatever happens. With two failures `DeletedIsGone` would not hold: the save of a deletion fails, then the removal of the file, and what was deleted is loaded by the next process. Both properties say so (`faults <= 1`), and the proofs, for any number of accounts, scripts, checkpoints and failures, need it |

Types are checked by proof.

One run ends in a violation and shows a disagreement between the code and what
a comment of the repository says; the counterexample is the behaviour of the code.

| run | says | does |
|---|---|---|
| `ErasureInFlight` | `engine.py:1598`: forgets everything one person told the mind | a checkpoint in flight adds the erased person's memory afterwards |

## Where code and documents differ

Met while modelling and not given a run: `working_memory.py:9` says data
is never lost; but a worker that found no rows throws away the summaries
a forced save has just written (which is why `NothingLost` speaks of runs
without a forced save and a soft reset), `force_save` loses what follows a memory that cannot be
added, and what a crash leaves in the tables is never summarised (each process
draws a new session id, line 49, and `checkpoint()` selects the rows of that
session only). `app.py:370` says saved, no loss, but the older of two overlapping
snapshots may stay. `chat.py:222` says all memory will be reset, but the
short-term list stays, and the next flush stores a summary of it. A checkpoint
that was queued before a freeze forms a memory after it, which
`WHITEPAPER.md:802` excludes; the kill switch does not clear working memory
(`engine.py:1405` says so), `soft_reset` deletes the long-term memories
`WHITEPAPER.md:801` says it preserves, and an insight that quotes two people's
public memories survives the erasure of the second (`dream.py:199`), as does a
reflection made of public memories. The site's
daily limit does not cap the bill as `README.md:57` says: `delete_account`
deletes the person's usage rows and so lowers the site's total. `BillIsBounded`
states what holds instead: at most one more personal allowance for each account
deleted. `IMP_MAX_ACCOUNTS` is exceeded when sessions register at once;
`AccountsAreBounded` says by how many.

The contract stores no genesis hash on registration but on
every freeze, over the last one (`ImmortalMind.sol:433`), where
`WHITEPAPER.md:938` says "stored immutably on registration".

What `TerminalChat` shows beside its properties: messages that come in while a
summary is written can be trimmed without having been summarised (the engine was
told of each of them separately); a message appended between the slice and the
assignment is lost from the list, and a `/clear` there is undone; while nobody
talks the timer summarises the same kept messages again every ten minutes; and
`_sleep_reported` is saved with the rest, so a sleep is reported once only,
until a reset makes a new tracker. `chat.py:445` says that after `/delete` files
are not recreated; of `memories.json` that is so, but a flush or a checkpoint that is
on its way connects to the removed `working_memory.db`, which leaves an empty
database there. `DeletedStaysDeleted` says what does hold: it has no tables,
and so no words, until a new process makes them.

What `BlockchainAnchor` shows beside its properties. With an ABI every single
anchor fails, and the entry its failure queues has no identity, so no retry can
send it: the queue only grows. `_web3` is assigned before `is_connected()` is
asked, so after one failed attempt the client takes itself for connected and
never loads the contract until the process ends. `retry_pending` runs over the
list its own failures append to: with a connection that fails the operation is
queued a second time and sent twice later on; without the `web3` package the
loop never ends (`RetryEnds` needs `installed`). Entries of the type
`anchor_batch` are never retried. The nonce counts mined transactions only, so a
second transaction before the first is mined is refused or replaces it. The
queue's file is written in place, and a torn file is read as an empty queue:
such a death counts as a failed write, and `QueuedIsKept` leaves it out.
`LoggedOnce` leaves out lost answers, deaths in the middle of a retry and copies that
a retry queued anew, after each of which a request may be logged twice; it says that a
request that was sent leaves the list.
`flush_batch` sends the count 0, which `anchorBatch` refuses, so a partial batch
never reaches the chain, and its leaves are gone from the batcher; this alone
keeps two batches with equal roots apart (`MerkleTree` repeats the last hash of
an odd level). `requirements.txt:11` asks for `web3>=7`, in which
`signed.rawTransaction` is named otherwise; the model lets a send succeed or
fail and so covers both.

What `MemoryFilters` shows beside its properties: `reset_session` and
`reset_session_stats` have no caller but the tests, so a session is the life of
an engine, whoever talks with it; after three high memories, approved or not,
every intensity is halved until the process ends. With the check turned off
nothing is capped, and `VividMemoriesAreFew` claims nothing;
`EMOTION_SHIELD_ENABLED` (`chat.py:144`, `.env.example:31`) is read into a key of
the configuration that nothing looks up, so the shield is always on. The comment
`emotion_shield.py:63` ("Session average cannot exceed this") names a bound that
only caps values during a cooldown, at six tenths of it. Every source is
`user_stated`, so the rule for `llm_inferred` never applies. `BuildsUp` is about
claims within 0 and 1, because the language model's number is not clamped before
the shield.

What `WebMind` shows beside its properties. `save_state` does not ask
`_data_deleted`, as the chat loop does before its exit save: a save that spans
`full_delete` puts the file back, with everything in it when its snapshot was
taken before the wipe. A checkpoint that had read a person's rows when their
data was erased adds their memory afterwards, and whoever registers the name
next finds it; nothing else need go wrong for that. After a full deletion the dropped
engine's worker writes the summary it was waiting for into the
`working_memory.db` that the next engine has made, and whichever worker flushes
next makes a memory of it, because `flush_to_long_term` does not ask for the
session. (Both are `disturbed`.) A session outlives its account, goes on
telling under the name, and whoever registers the name next finds those words
(`late`). A script that began before the cache was cleared and one that began
after it save two engines to one file in turn. Administrators are administrators
by name, whoever registers it.

What the numbers of `Beliefs` amount to: a learned memory stays below an
entrenchment of 0.4 and three confirmations, so two of the protections of the
garbage collector never apply to it; a belief crisis, which `WHITEPAPER.md`
describes at length, cannot happen; `update_personality`, called for new records
of an entrenchment of 0.1 only, never moves the personality; and
`character_strength` is the constant of the Genesis Anchors. The comment
`biases.py:111` says "hold" of a verdict for which the code adds the memory.
Trust is one figure for everyone (`entity_id="default"`), lost at a restart and
kept by a soft reset.

What `Recall` shows beside its properties: vectors of records that the kill
switch, a crash, or a reset whose `clear()` failed took stay in the index,
survive the erasure of the person they belong to, and take places among the
`n_results` nearest for ever, because the store is asked about every hit but
nothing is ever removed for not being in it. The same becomes of a memory or a
reflection that a wipe or an erasure finds in the store before its vector was
added. A record that is being weighed while a wipe removes it comes back with
`update()`, without a vector after a reset, until the next synchronisation adds
it again: a forgotten memory, findable once more. A crash before the first save
makes the Genesis Anchors again under new ids.

## Fairness

`FairSpec` assumes weak fairness of each worker's steps and nothing else: the
worker is a daemon thread in an endless loop, and its language model call either
answers or raises after its timeout. People, saves, crashes and errors owe
nothing. `QueuedIsConsolidated` is checked without errors: a checkpoint whose
transaction fails is dropped, and the message waits for the next one, which
comes only with the next message.

`FairSpec` of `TerminalChat` assumes weak fairness of the chat loop (all it does
without being asked; its language model call answers or raises) and of a flush
of the timer, and strong fairness of the chat loop's taking of the lock: the
timer sleeps ten minutes between two flushes, so a waiting chat loop finds the
lock free for as long as it takes. People, crashes and the timer's waking owe
nothing.

`Spec` of `BlockchainAnchor` assumes weak fairness of the steps of a retry that
has begun (`Retry`): the loop has no wait of its own, and every call it makes
returns or raises after its timeout. New calls, the node, the guardian and
restarts owe nothing.

## Proofs

All proofs are for any sets of people, callers, workers and anchors, any bounds,
and use only the named assumptions in `WorkingMemory`, `SharedMind`,
`ImmortalMind`, `Accounts`, `Beliefs`, `Recall`, `Sessions`, `TerminalChat`,
`BlockchainAnchor`, `MemoryFilters` and `WebMind`. Every invariant and every action
property that a run checks is a theorem; the temporal properties that are not are
the three of liveness (below).

Sums, sequences and ranks are written so that they can be reasoned about step by
step, because induction over data is out of the provers' reach: a day's total is
the size of the set of messages that were counted, an event tells the element of a
log that has its rank among the events of its kind, and the types of a log name
what its records may be.

`SharedMind_proofs`. `TypeCorrect` is inductive as it stands.
`PrivacyHolds` (`Spec => []NeverToldToOthers`) is not: what the context shows
depends on what threads carry, on the file a restart reads and on candidates a
dream left. The inductive invariant `Purity` says of every place that can hold
messages which messages it may hold: a private summary, memory or note only
those of its owner said in private or, for an insight, in its scope; a public
one only public messages; the narrative, and what a thread has gathered for it,
only public ones; rows their own message. It is preserved by each action
(one lemma for each group of actions) and implies `NeverToldToOthers` and
`ScopesNeverMerge`. `GenesisSurvives` needs only that wipes spare anchors, that
anchors have no person as owner, and that a restart restores them.
`QuietErasureHolds` needs `Erasure`: from the moment an undisturbed erasure has
emptied the tables and the store, no place from which a step could bring a
message back to its owner holds it. These are the tables, the notes, the store,
private dream candidates, what each thread has read, selected or snapshotted,
and, once the erasing thread has replaced the file, the file. `Purity` supplies
that an owner's messages are only in the owner's rows and summaries, so deleting
these is enough. A public insight filed under the person is left out: a dream
may pair a new public memory with a reflection, or with somebody's insight,
that still quotes an erased one, and the statement with it included is false as
soon as the bounds let a reflection, an erasure and a dream happen.

`SummarisedOnceHolds` and `NothingLostHolds` are about runs with one consolidator.
`Limit` and `budget` say which operations were used (`Unused`); budgets only shrink,
so what is unused after a step was unused before it. Then all workers but the first
are off and no caller is inside a consolidation (`WorkerAlone`), so every step is
one of the first worker, a message told, something taken by an erasure or the kill
switch, or a step the consolidation does not notice. `SummarisedOnce` follows from
`Once`: a row that is in a summary is marked, and the rows the worker has in hand
are in none. `NothingLost` follows from `Accounted`: every message waits in a row of
this session that is not marked, is on the first worker's way, or has come to an end
that no step takes back; and from `Flush`: summaries lie in the table only while
the worker that wrote them is on its way to take them.

`QuotedIsRemembered` says that whatever a memory, an insight, a reflection, the
narrative, a snapshot or the file quotes has a memory of its own in the same place,
or was erased on request (`Backed`), until a process has started from a file of which
it may have loaded half (`WellLoaded`). What an erasure leaves quoted in somebody
else's insight or in a reflection is the one thing that is quoted and not remembered.
`FateHolds` (`FollowsFate`) needs less, and needs it after half a load too: the
episodes in a snapshot are in the store, or were erased since (`SavedKept`).
The invariant that makes each step one of `MessageFate` is `Stages`: no row is of
a later session; what the worker has read is unmarked, what it has in hand is in
the table, or erased since; no summary is both pending and flushed; and what is
remembered or dismissed came out of a summary whose outcome is decided (`Passed`).
With `Once` it follows that a message is at one station only (`Exclusive`), which is
what each abstract step demands: a checkpoint summarises messages that wait,
an outcome settles messages that are summarised and of one scope. Every other step
fades the fates (`Fading`): it leaves them, or loses messages. `NothingLost` says
that no message is lost while nothing crashes or fails, so such a step is a stutter
then. Where no save is forced and nothing is reset, this is implementation in the
plain sense: `ImplementsMessageFate` is `Spec => Fates!Spec`, and, where nothing
crashes or fails either, `ImplementsCalmFate` is `Spec => Fates!CalmSpec`.

`ImmortalMind_proofs`. An inductive invariant relates the list of identities to
the mapping (`RegistrationIsUnique`) and ids to guardians (`OwnershipHolds`);
`GuardianWrites` is an action property that follows from ownership step by step;
`MemoryLogRefines` and `BatchLogRefines` show that every transaction is a step of
`AnchorLedger` or leaves it unchanged. `RecentAnchorsHold` needs `Chronology`:
the time stamps of an identity's anchors are in order, none later than its last
update, which is not in the future; and a lemma on sequences: what
`getRecentMemoryAnchors` copies is the tail of the log. `EventsAreComplete`
(`EventsTellTheState`) goes by one event at a time: an event that matches what the
transaction changes (`Matches`) keeps the ranks of the earlier ones and takes the
next rank for itself, or becomes the newest; every transaction emits such an event,
and so does a registration, because an identity that was never registered is zero
in every field (`UnwrittenIsZero`).

`Accounts_proofs`. `PersonalLimitHolds` is inductive with the types, because
the check and the count are one transaction on the day that was read.
`AccountsStayBounded` needs the sessions that have passed the count: accounts
and registering sessions together stay below the limit plus the number of
sessions (`RoomInv`). `GuessesStayBounded` needs `Spaced`: every wrong password
is accounted for by a lockout or the current failures, and either the lock that
holds ends, or the clock has come, a whole number of gaps after the first; with
`FreshClocks`, which bounds how old a clock a waiting script can carry.
`DailyLimitsHold` and `BillStaysBounded` rest on `BillInv`: the messages counted for
a day are finitely many, a message let through adds exactly one to them, a deleted
account takes away at most a personal allowance, and what was spoken is covered by
what is counted and what departures took away.

`WebMind`, which has constants and variables of its own, is the other side of the
same web page, and its theorems stand in `Accounts_proofs` too; they assume
`WebMindAssumption` only. `WebTypeCorrect` also says that what a script still has to
do is the rest of one of the scripts, in order, so that a call that waits tells which
went before. `DeletedStaysGone` and `NamesAreFresh` are implied by `WebInv`: unless an
erasure was disturbed or two file operations have failed (`Trusty`), no deletion is
under way beside another or beside somebody's leaving (`Alone`); who erases holds the
engine that is cached (`Holding`); no worker is at work once a deletion has emptied
the mind (`Resting`); and what is alive (`Live`: what an engine in use remembers or
has dreamt, a copy on its way to the file holds, or a worker carries) was told after
the last deletion. So was what the file, the rows and the summaries hold, except
while a deletion has yet to remove them (`Current`, `Purging`, `Wiping`). While no
session has outlived its account, all of it belongs to the account that has the name,
of which nothing is left once it was erased (`Owned`). An engine that is not in use
may keep deleted words, which no script will save; what its workers carry counts as
alive.

`Beliefs_proofs`. The inductive invariant lists the entrenchments a record can
have: a learned memory starts at 10 or 15 hundredths and gains 8 with a
confirmation, and what has been confirmed twice is above every approved
strength, at any trust; a Genesis Anchor keeps 100, because no approved strength
exceeds 60. The four theorems follow from it and arithmetic.

`Recall_proofs`. `ActiveIsFindable` and `VectorsHaveRecords` are statements
about the running process; their invariant must also say what a restart will
find: nothing the file calls pruned has a vector, but for what `faulty` and `orphans`
name; neither the store nor the record that is weighed calls active what the file, or
the other, calls pruned, and a record is a Genesis Anchor in all of them or in none
(`Later`); a vector that is on its way (`Coming`) is on its way to an active record or
is an orphan already; and no wipe comes to a Genesis Anchor (`Spared`), which is also
what `AnchorsAreKept` needs.
`CollectionsReachTheLimit` and `CollectionsAreGentle` compare the sizes of sets: a
collection takes the smaller of `MaxToPrune` and the number of candidates
(`WhatCollectTakes`), and `MaxToPrune` covers what is over the limit and, within it,
is at most half of the candidates (`MaxToPruneBounds`).

`TerminalChat_proofs`. `WindowStaysBounded` needs where the chat loop stands: the
list is at its limit only while the chat loop is on its way through a flush, or
after one that stored nothing (`WindowInv`), and a copy that waits to replace
the list is within `Kept`. `DeletionIsFinal` needs that once `/delete` has begun
its engine is marked, and that from the removal on the process can only exit
(`DeletedInv`). Only an engine that is made, or reset, gives a database its tables,
and neither can happen before the exit: a flush or a checkpoint on its way makes an
empty database at most. Both rest on the types and on
what the program counters say of the local values (`Typed`).
`SessionsStayInTheFile` (`SessionsAreKept`) needs that the engine tells what the file
tells and its own session besides, that this session is newer than all that were
saved, and that an engine whose files were deleted saves no more (`LogInv`).

`BlockchainAnchor_proofs`. `NothingQueuedIsLost` (`QueuedIsKept`) is not
inductive: in the middle of a retry the list is not yet what will be kept. The
invariant says that every owed request is among what the retry has kept or what
it has still to look at, that both are in the list, and that the file, while no
write has failed, is the list. It needs that an operation is dropped only when a
transaction was sent for it. `NothingIsLoggedTwice` (`LoggedOnce`) rests on
`Once`: what may still be retried waits in exactly one place, the list or what
the retry has kept, was asked for, and is not in the contract's log, unless an
answer was lost, a file could not be written, the process died in a retry that
had sent it, or a retry without a connection queued it again.
`RecordedBatchesAreFull` (`BatchesTellTheirLeaves`) needs nothing of the Merkle trees
but that a batch has one root: leaves that can be hashed never fill a batch while
they wait, a flush counts none, and the contract refuses a count of zero, so all it
records are batches of `BatchSize` leaves (`OnlyFullBatches`).

`MemoryFilters_proofs`. `VividMemoriesStayFew` counts the threads that saw the
limit open and have not decided: together with what is stored they are at most
three and one less than the threads. `CooldownsArePaidFor`: while a cooldown
lasts, the threads that were past the test of it when it began are all who may
still add a high record, and the evaluations it will yet cap are counted as
paid. Both use the cardinality theorems of
the library. `EmotionBuildsUp` is arithmetic over the cases of the correction.

Only model-checked: `QueuedIsConsolidated`, `MessagesAreAnswered` and `RetryEnds`,
which are liveness under fairness and out of the provers' reach.

## Plan

1. `WorkingMemory`, `SharedMind` with proofs; `ImmortalMind`, `AnchorLedger`
   with proofs (done).
2. `Accounts` with proofs; `Beliefs` and `Recall` with proofs; `TerminalChat`
   and `Sessions` with proofs (done).
3. `BlockchainAnchor` with `MerkleTree` over `ImmortalMind`, and `MemoryFilters`,
   with proofs; `WebMind`, the web server with its cached engine (done).
4. `FallbackChain`: the order of providers, failure counts and re-enabling. It
   has no caller in the program yet, so it comes late.
5. Proofs of every safety property the runs check (done).
6. `MessageFate`, an abstract specification of what becomes of each message,
   which `SharedMind` implements, with proof (done).

## Not modelled

Texts and numbers: embeddings, prompts, the patterns of the filters, and all
scores but entrenchment, trust, recency and emotional intensity. Where the program decides by them, the model
allows every decision. Providers' HTTP clients,
uploads to Arweave and IPFS, deployment scripts and page layout hold no state
the rest depends on. `WorkingMemory.cleanup` has no caller.
