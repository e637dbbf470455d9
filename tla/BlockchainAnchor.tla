-------------------------- MODULE BlockchainAnchor --------------------------
(***************************************************************************)
(* The client of the contract, storage/blockchain_anchor.py: its lazy      *)
(* connection, the queue of operations it could not send and the file the  *)
(* queue survives in, the Merkle batches, and the node it sends to.  One   *)
(* process uses it at a time; it may die between any two steps.            *)
(*                                                                         *)
(* The contract is the module ImmortalMind, of which a batch needs the     *)
(* identities, the batch log and the events.  What a memory is anchored    *)
(* with (URI, type, salience) is left out: none of it reaches a chain.     *)
(***************************************************************************)
EXTENDS MerkleTree

CONSTANTS Request,      \* hashes anchor_memory_hash is called with, each once
          Leaves,       \* hashes anchor_memory_batched is called with
          NotHex,       \* a string that is no hexadecimal number, or none of Leaves
          BatchSize,    \* MerkleBatcher's batch_size
          Guardian, Salt,   \* the account of private_key, the digest of identity_id
          Nobody, Model, Nothing,
          Torn,         \* what a write that ended half way leaves in the file
          MaxCalls, MaxBatches, MaxRetries, MaxRestarts, MaxFaults, MaxTransactions, MaxQueue,
          MaxCopies             \* bounds of the model

ASSUME BlockchainAnchorAssumption ==
    /\ BatchSize \in Nat \ {0}
    /\ {MaxCalls, MaxBatches, MaxRetries, MaxRestarts, MaxFaults, MaxTransactions, MaxQueue,
         MaxCopies} \subseteq Nat

VARIABLES
    installed,   \* can web3 be imported?
    web3,        \* _web3 and _contract: neither, the first, or both
    queue,       \* _pending_queue
    file,        \* pending_queue.json
    retrying,    \* where retry_pending stands
    pending,     \* MerkleBatcher._pending
    pool,        \* the transaction the node holds under the account's next nonce
    logged,      \* how often each request was written as a plain transaction
    identities, batchLog, registeredIdentities, events,   \* of the contract
    made,        \* history: the leaves of each batch, in the order they were made
    asked,       \* history: the requests
    owed,        \* history: requests reported as queued and not sent since
    calls, retries, restarts,    \* counts, for the bounds
    answersLost, savesFailed,    \* history: how often the node and the disk failed
    killed, copied               \* history: did a process die in a retry; was an
                                 \* operation queued again by one?

client == <<web3, retrying, pending>>
chain == <<identities, batchLog, registeredIdentities, events>>
counts == <<calls, retries, restarts>>
faults == <<answersLost, savesFailed>>
vars == <<installed, client, queue, file, pool, logged, chain, made, asked, owed, counts,
          faults, killed, copied>>

Contract == INSTANCE ImmortalMind
    WITH Address <- {Guardian}, Salt <- {Salt}, Hash <- {}, NoHash <- Nothing,
         Model <- {Model}, NoModel <- Nothing, Number <- {}, MaxTime <- 0, now <- 0,
         memoryLog <- <<>>, crisisLog <- <<>>, characterStrength <- 0,
         msg_sender <- Guardian

Id == Contract!ComputeIdentityId(Guardian, Salt)

\* An operation of the queue; the error paths leave the identity out.
Operation == [type : {"anchor_memory"}, named : BOOLEAN, what : Request]
             \cup [type : {"anchor_batch"}, named : BOOLEAN, what : Nat \ {0}]

ASSUME TornAssumption == Torn \notin Seq(Operation)

Op(type, named, what) == [type |-> type, named |-> named, what |-> what]

NoTransaction == [type |-> "none"]
LogTransaction == [type : {"log"}, what : Request]
BatchTransaction == [type : {"batch"}, what : Nat \ {0}, count : Nat]

NotRetrying == [on |-> FALSE, at |-> 1, remaining |-> <<>>]

TypeOK ==
    /\ installed \in BOOLEAN
    /\ web3 \in {"none", "bare", "contract"}
    /\ queue \in Seq(Operation)
    /\ file \in Seq(Operation) \cup {Torn}
    /\ retrying \in [on : BOOLEAN, at : Nat \ {0}, remaining : Seq(Operation)]
    /\ pending \in Seq(Leaves)
    /\ pool \in {NoTransaction} \cup LogTransaction \cup BatchTransaction
    /\ logged \in [Request -> Nat]
    /\ made \in Seq(Seq(Leaves))
    /\ asked \subseteq Request
    /\ owed \subseteq asked
    /\ {calls, retries, restarts, answersLost, savesFailed} \subseteq Nat
    /\ {killed, copied} \subseteq BOOLEAN

Init ==
    /\ installed \in BOOLEAN
    /\ web3 = "none"
    /\ queue = <<>>
    /\ file = <<>>
    /\ retrying = NotRetrying
    /\ pending = <<>>
    /\ pool = NoTransaction
    /\ logged = [r \in Request |-> 0]
    /\ identities = [id \in Contract!IdentityId |-> Contract!Unregistered]
    /\ batchLog = [id \in Contract!IdentityId |-> <<>>]
    /\ registeredIdentities = <<>>
    /\ events = <<>>
    /\ made = <<>>
    /\ asked = {}
    /\ owed = {}
    /\ calls = 0 /\ retries = 0 /\ restarts = 0 /\ answersLost = 0 /\ savesFailed = 0
    /\ killed = FALSE /\ copied = FALSE

-----------------------------------------------------------------------------
(* Connection, queue file and node *)

\* _init_web3: what it may leave behind and return.  It assigns _web3 before it
\* tests the connection, so a failed test is made once: the next call finds _web3
\* set and returns TRUE, and the contract is never loaded.
InitWeb3 ==
    IF web3 # "none" THEN {[web3 |-> web3, ok |-> TRUE]}
    ELSE IF ~installed THEN {[web3 |-> "none", ok |-> FALSE]}
    ELSE {[web3 |-> "bare", ok |-> FALSE],      \* the node does not answer
          [web3 |-> "bare", ok |-> TRUE],       \* no address or no ABI
          [web3 |-> "contract", ok |-> TRUE]}

Call == calls < MaxCalls /\ calls' = calls + 1 /\ UNCHANGED restarts
MayFail == answersLost + savesFailed < MaxFaults

\* _save_queue writes the file in place and only logs what goes wrong.
SaveQueue(operations) ==
    \/ file' = operations /\ UNCHANGED savesFailed
    \/ MayFail /\ file' \in {file, Torn} /\ savesFailed' = savesFailed + 1

\* _queue_operation, for none or one operation.
Enqueue(operations) ==
    /\ queue' = queue \o operations
    /\ IF operations = <<>> THEN UNCHANGED <<file, savesFailed>> ELSE SaveQueue(queue')

\* send_raw_transaction.  The nonce counts mined transactions only, so while one
\* is in the pool another is refused or, for a better price, takes its place.
\* The answer may be lost after the node took the transaction.
Send(transaction, sent) ==
    \/ sent /\ pool' = transaction /\ UNCHANGED answersLost
    \/ ~sent /\ MayFail /\ pool' = transaction /\ answersLost' = answersLost + 1
    \/ ~sent /\ UNCHANGED <<pool, answersLost>>

-----------------------------------------------------------------------------
(* Single anchors *)

\* MUTANT of OnError: the entry is queued whole, with its identity.
OnErrorKeepName(r) == <<Op("anchor_memory", TRUE, r)>>

\* What the except branch of anchor_memory_hash queues.
OnError(r) == <<Op("anchor_memory", FALSE, r)>>

\* anchor_memory_hash: the operation it queues, if any, and whether it returns a
\* transaction.  The contract's anchorMemory takes six arguments and is given
\* five, so with a contract every call ends in the except branch.
AnchorMemoryHash(r, added, sent) ==
    \E c \in InitWeb3 :
        /\ web3' = c.web3
        /\ \/ /\ ~c.ok
              /\ added = <<Op("anchor_memory", TRUE, r)>>
              /\ ~sent
              /\ UNCHANGED <<pool, answersLost>>
           \/ /\ c.ok /\ c.web3 = "contract"
              /\ added = OnError(r)
              /\ ~sent
              /\ UNCHANGED <<pool, answersLost>>
           \/ /\ c.ok /\ c.web3 = "bare"      \* _simple_log_tx
              /\ added = <<>>
              /\ Send([type |-> "log", what |-> r], sent)

Outcomes(r) == {<<>>, <<Op("anchor_memory", TRUE, r)>>, OnError(r)}

Anchor(r) ==
    /\ ~retrying.on
    /\ Call
    /\ r \notin asked
    /\ asked' = asked \cup {r}
    /\ \E added \in Outcomes(r), sent \in BOOLEAN :
           /\ AnchorMemoryHash(r, added, sent)
           /\ Enqueue(added)
           /\ owed' = IF added = <<>> THEN owed ELSE owed \cup {r}
    /\ UNCHANGED <<installed, retrying, pending, logged, chain, made, retries, killed, copied>>

HealthCheck ==
    /\ ~retrying.on
    /\ \E c \in InitWeb3 : web3' = c.web3
    /\ UNCHANGED <<installed, retrying, pending, queue, file, pool, logged, chain, made,
                   asked, owed, counts, faults, killed, copied>>

-----------------------------------------------------------------------------
(* retry_pending: one step for each operation the loop comes to *)

BeginRetry ==
    /\ ~retrying.on
    /\ queue # <<>>
    /\ Call
    /\ retries < MaxRetries
    /\ retries' = retries + 1
    /\ retrying' = [NotRetrying EXCEPT !.on = TRUE]
    /\ UNCHANGED <<installed, web3, pending, queue, file, pool, logged, chain, made, asked,
                   owed, faults, killed, copied>>

\* MUTANT of Keep: only what raised is kept; a refused operation is dropped.
KeepNameless(operation, sent) == IF operation.named THEN <<>> ELSE <<operation>>

\* MUTANT of Keep: what was sent is kept as well.
KeepAll(operation, sent) == <<operation>>

\* What the loop appends to remaining.
Keep(operation, sent) == IF sent THEN <<>> ELSE <<operation>>

\* anchor_memory_hash raises ValueError without an identity.
Retriable(operation) == operation.type = "anchor_memory" /\ operation.named

Reached == retrying.on /\ retrying.at <= Len(queue)
Current == queue[retrying.at]

Kept(sent) ==
    retrying' = [retrying EXCEPT !.at = @ + 1,
                                 !.remaining = @ \o Keep(Current, sent)]

\* The loop runs over the list a failed call appends to, and so comes to the copy:
\* where web3 cannot be imported it never ends, and is followed for MaxCopies.
RetryOne ==
    /\ Reached /\ Retriable(Current)
    /\ Len(queue) < IF installed THEN MaxQueue ELSE MaxCopies
    /\ \E added \in Outcomes(Current.what), sent \in BOOLEAN :
           /\ AnchorMemoryHash(Current.what, added, sent)
           /\ Enqueue(added)
           /\ Kept(sent)
           /\ owed' = IF sent THEN owed \ {Current.what} ELSE owed
           /\ copied' = (copied \/ \E i \in DOMAIN added : added[i].named)
    /\ UNCHANGED <<installed, pending, logged, chain, made, asked, counts, killed>>

PassOver ==
    /\ Reached /\ ~Retriable(Current)
    /\ Kept(FALSE)
    /\ UNCHANGED <<installed, web3, pending, queue, file, pool, logged, chain, made, asked,
                   owed, counts, faults, killed, copied>>

EndRetry ==
    /\ retrying.on /\ ~Reached
    /\ queue' = retrying.remaining
    /\ SaveQueue(queue')
    /\ retrying' = NotRetrying
    /\ UNCHANGED <<installed, web3, pending, pool, logged, chain, made, asked, owed, counts,
                   answersLost, killed, copied>>

-----------------------------------------------------------------------------
(* Merkle batches *)

\* The require of the contract, which build_transaction evaluates to estimate gas.
Accepts(count) ==
    Contract!OnlyGuardian(Guardian, Id) /\ Contract!NotFrozen(Id) /\ count > 0

\* _anchor_batch_on_chain, for the batch made last.
AnchorBatchOnChain(leaves, count) ==
    /\ made' = Append(made, leaves)
    /\ \E c \in InitWeb3 :
           /\ web3' = c.web3
           /\ \/ /\ ~c.ok
                 /\ Enqueue(<<Op("anchor_batch", TRUE, Len(made'))>>)
                 /\ UNCHANGED <<pool, answersLost>>
              \/ /\ c.ok /\ c.web3 = "bare"
                 /\ UNCHANGED <<queue, file, savesFailed, pool, answersLost>>
              \/ /\ c.ok /\ c.web3 = "contract"
                 /\ \E sent \in BOOLEAN :
                        /\ \/ Accepts(count) /\ Send([type |-> "batch", what |-> Len(made'),
                                                      count |-> count], sent)
                           \/ ~Accepts(count) /\ ~sent /\ UNCHANGED <<pool, answersLost>>
                        /\ IF sent THEN UNCHANGED <<queue, file, savesFailed>>
                           ELSE Enqueue(<<Op("anchor_batch", FALSE, Len(made'))>>)

\* bytes.fromhex raises for a leaf that is no hexadecimal number.
CanHash(leaves) == NotHex \notin ToSet(leaves)

AnchorMemoryBatched(h) ==
    /\ ~retrying.on
    /\ Call
    /\ LET leaves == Append(pending, h)
       IN  IF Len(leaves) >= BatchSize /\ CanHash(leaves)
           THEN pending' = <<>> /\ AnchorBatchOnChain(leaves, BatchSize)
           ELSE /\ pending' = leaves
                /\ UNCHANGED <<web3, queue, file, pool, made, faults>>
    /\ UNCHANGED <<installed, retrying, logged, chain, asked, owed, retries, killed, copied>>

\* MUTANT of FlushedCount: the leaves are counted before they are cleared.
CountLeaves(leaves) == Len(leaves)

\* flush_batch finds no leaves left to count, and 0 "is sufficient".
FlushedCount(leaves) == 0

FlushBatch ==
    /\ ~retrying.on
    /\ Call
    /\ Len(made) < MaxBatches
    /\ pending # <<>> /\ CanHash(pending)
    /\ pending' = <<>>
    /\ AnchorBatchOnChain(pending, FlushedCount(pending))
    /\ UNCHANGED <<installed, retrying, logged, chain, asked, owed, retries, killed, copied>>

-----------------------------------------------------------------------------
(* The chain, the guardian, and the end of a process *)

\* The node includes the transaction; a batch may revert after all.
Mine ==
    /\ pool # NoTransaction
    /\ pool' = NoTransaction
    /\ \/ /\ pool.type = "log"
          /\ logged' = [logged EXCEPT ![pool.what] = @ + 1]
          /\ UNCHANGED chain
       \/ /\ pool.type = "batch"
          /\ \/ Contract!AnchorBatch(Guardian, Id, MerkleRoot(made[pool.what]), pool.count)
             \/ ~Accepts(pool.count) /\ UNCHANGED chain
          /\ UNCHANGED logged
    /\ UNCHANGED <<installed, client, queue, file, made, asked, owed, counts,
                   faults, killed, copied>>

\* The contract as its guardian uses it from elsewhere.
Administer ==
    /\ \/ Contract!RegisterIdentity(Guardian, Salt, Model)
       \/ Contract!FreezeIdentity(Guardian, Id, Nothing)
       \/ Contract!UnfreezeIdentity(Guardian, Id)
    /\ UNCHANGED <<installed, client, queue, file, pool, logged, made, asked, owed, counts,
                   faults, killed, copied>>

LoadQueue(contents) == IF contents = Torn THEN <<>> ELSE contents

\* The process ends, at any moment, and a new one starts.
Restart ==
    /\ restarts < MaxRestarts
    /\ restarts' = restarts + 1
    /\ web3' = "none"
    /\ queue' = LoadQueue(file)
    /\ retrying' = NotRetrying
    /\ pending' = <<>>
    /\ killed' = (killed \/ retrying.on)
    /\ UNCHANGED <<installed, file, pool, logged, chain, made, asked, owed, calls, retries, faults,
                   copied>>

-----------------------------------------------------------------------------

Retry == RetryOne \/ PassOver \/ EndRetry

Next ==
    \/ \E r \in Request : Anchor(r)
    \/ HealthCheck
    \/ BeginRetry \/ Retry
    \/ \E h \in Leaves : AnchorMemoryBatched(h)
    \/ FlushBatch
    \/ Mine \/ Administer \/ Restart

\* A thread inside retry_pending goes on as long as its process lives.
Spec == Init /\ [][Next]_vars /\ WF_vars(Retry)

-----------------------------------------------------------------------------
(* Properties *)

Whats(operations) == {operations[i].what : i \in DOMAIN operations}

\* blockchain_anchor.py:373-413 and README.md:214 ("queue persistence").  A
\* request reported as queued is in the queue, and in its file, until a
\* transaction was sent for it, whatever fails meanwhile and wherever the process
\* dies; only a failed write of the file may lose it.
QueuedIsKept ==
    savesFailed = 0 =>
        /\ owed \subseteq Whats(queue)
        /\ owed \subseteq Whats(LoadQueue(file))

\* blockchain_anchor.py:381-413.  A request is written once, however often it is
\* retried, unless the answer to a send or a write of the file got lost, the process
\* died in a retry that had sent it, or a retry without a connection queued it again.
LoggedOnce ==
    answersLost = 0 /\ savesFailed = 0 /\ ~killed /\ ~copied =>
        \A r \in Request :
            logged[r] + (IF pool.type = "log" /\ pool.what = r THEN 1 ELSE 0) <= 1

\* A retry ends, though it appends to the list it runs over, as long as web3 can
\* be imported.
RetryEnds == installed /\ retrying.on ~> ~retrying.on

\* blockchain_anchor.py:445-469 and ImmortalMind.sol:387.  The contract counts the
\* leaves of a batch truly, and its root stands for no other number of leaves:
\* three hashes and the same three with the last repeated have one root, and only
\* full batches keep the two apart.
BatchesTellTheirLeaves ==
    \A i, j \in DOMAIN batchLog[Id] :
        LET anchor == batchLog[Id][i]
            other == batchLog[Id][j]
        IN  /\ \E b \in DOMAIN made : /\ MerkleRoot(made[b]) = anchor.merkleRoot
                                     /\ Len(made[b]) = anchor.memoryCount
            /\ anchor.merkleRoot = other.merkleRoot => anchor.memoryCount = other.memoryCount

=============================================================================
