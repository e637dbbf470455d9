----------------------- MODULE BlockchainAnchor_proofs -----------------------
(***************************************************************************)
(* Proofs about BlockchainAnchor: type correctness; the queue and its file *)
(* keep every operation that is owed, across any retries, lost answers and *)
(* ends of the process; a request is written once; and only full batches   *)
(* reach the contract.                                                     *)
(***************************************************************************)
EXTENDS BlockchainAnchor, TLAPS

-----------------------------------------------------------------------------
(* Operations and queues *)

\* Appending keeps what there was and adds what was appended.
LEMMA AppendedWhats ==
    ASSUME NEW S, NEW p \in Seq(S), NEW q \in Seq(S)
    PROVE  /\ p \o q \in Seq(S)
           /\ Whats(p \o q) = Whats(p) \cup Whats(q)
<1>1. /\ p \o q \in Seq(S) /\ Len(p \o q) = Len(p) + Len(q)
      /\ \A i \in 1 .. Len(p) : (p \o q)[i] = p[i]
      /\ \A i \in 1 .. Len(q) : (p \o q)[Len(p) + i] = q[i]
      OBVIOUS
<1>2. Whats(p) \subseteq Whats(p \o q)
      BY <1>1 DEF Whats
<1>3. ASSUME NEW i \in DOMAIN q
      PROVE  q[i].what \in Whats(p \o q)
  <2>1. Len(p) + i \in DOMAIN (p \o q)
        BY <1>1, <1>3
  <2> QED BY <1>1, <2>1 DEF Whats
<1>4. ASSUME NEW i \in DOMAIN (p \o q)
      PROVE  (p \o q)[i].what \in Whats(p) \cup Whats(q)
  <2>1. CASE i \in 1 .. Len(p)
        BY <1>1, <2>1 DEF Whats
  <2>2. CASE i \notin 1 .. Len(p)
    <3>1. i - Len(p) \in 1 .. Len(q)
          BY <1>1, <1>4, <2>2
    <3>2. (p \o q)[i] = q[i - Len(p)]
          BY <1>1, <3>1
    <3> QED BY <3>1, <3>2 DEF Whats
  <2> QED BY <2>1, <2>2
<1>5. Whats(q) \subseteq Whats(p \o q)
      BY <1>3 DEF Whats
<1>6. Whats(p \o q) \subseteq Whats(p) \cup Whats(q)
      BY <1>4 DEF Whats
<1> QED BY <1>1, <1>2, <1>5, <1>6

\* A queue of one operation.
LEMMA OneOperation ==
    ASSUME NEW S, NEW operation \in S
    PROVE  <<operation>> \in Seq(S) /\ Whats(<<operation>>) = {operation.what}
  BY DEF Whats

\* What an anchor may queue are operations, about its request.
LEMMA OutcomeType ==
    ASSUME NEW r \in Request, NEW added \in Outcomes(r)
    PROVE  /\ added \in Seq(Operation)
           /\ added # <<>> => Whats(added) = {r}
<1>1. Op("anchor_memory", TRUE, r) \in Operation /\ Op("anchor_memory", FALSE, r) \in Operation
      BY DEF Op, Operation
<1>2. Op("anchor_memory", TRUE, r).what = r /\ Op("anchor_memory", FALSE, r).what = r
      BY DEF Op
<1>3. ASSUME NEW named \in BOOLEAN, added = <<Op("anchor_memory", named, r)>>
      PROVE  added \in Seq(Operation) /\ Whats(added) = {r}
  <2> DEFINE operation == Op("anchor_memory", named, r)
  <2>1. operation \in Operation /\ operation.what = r
        BY <1>1, <1>2
  <2> HIDE DEF operation
  <2> QED BY <1>3, <2>1, OneOperation DEF operation
<1>4. added \in {<<>>, <<Op("anchor_memory", TRUE, r)>>, <<Op("anchor_memory", FALSE, r)>>}
      BY DEF Outcomes, OnError
<1>5. <<>> \in Seq(Operation)
      OBVIOUS
<1> QED BY <1>3, <1>4, <1>5

\* A queue that takes operations keeps its type, and the file gets the queue, the
\* old contents or a torn write.
LEMMA EnqueueType ==
    ASSUME TypeOK, NEW operations \in Seq(Operation), Enqueue(operations)
    PROVE  /\ queue' \in Seq(Operation)
           /\ file' \in Seq(Operation) \cup {Torn}
           /\ savesFailed' \in Nat
<1>1. queue \in Seq(Operation) /\ file \in Seq(Operation) \cup {Torn} /\ savesFailed \in Nat
      BY DEF TypeOK
<1>2. queue' \in Seq(Operation)
  <2>1. \A S : \A p, q \in Seq(S) : p \o q \in Seq(S)
        OBVIOUS
  <2> QED BY <1>1, <2>1 DEF Enqueue
<1>3. SaveQueue(queue') \/ UNCHANGED <<file, savesFailed>>
      BY DEF Enqueue
<1>4. file' \in {file, queue', Torn} /\ savesFailed' \in {savesFailed, savesFailed + 1}
      BY <1>3 DEF SaveQueue
<1> QED BY <1>1, <1>2, <1>4

-----------------------------------------------------------------------------
(* Every variable keeps its type.                                          *)

Connection == {"none", "bare", "contract"}
Pool == {NoTransaction} \cup LogTransaction \cup BatchTransaction

\* A connection that is tried leaves a connection.
LEMMA InitWeb3Type ==
    ASSUME web3 \in Connection, NEW c \in InitWeb3
    PROVE  c.web3 \in Connection
  BY DEF InitWeb3, Connection

\* A transaction that is sent, or not, leaves the pool well formed.
LEMMA SendType ==
    ASSUME pool \in Pool, answersLost \in Nat, NEW transaction \in Pool, NEW sent \in BOOLEAN,
           Send(transaction, sent)
    PROVE  pool' \in Pool /\ answersLost' \in Nat
  BY DEF Send

\* So does a single anchor.
LEMMA AnchorMemoryHashType ==
    ASSUME TypeOK, NEW r \in Request, NEW added, NEW sent \in BOOLEAN,
           AnchorMemoryHash(r, added, sent)
    PROVE  web3' \in Connection /\ pool' \in Pool /\ answersLost' \in Nat
<1>1. web3 \in Connection /\ pool \in Pool /\ answersLost \in Nat
      BY DEF TypeOK, Connection, Pool
<1>2. PICK c \in InitWeb3 :
          /\ web3' = c.web3
          /\ UNCHANGED <<pool, answersLost>> \/ Send([type |-> "log", what |-> r], sent)
      BY DEF AnchorMemoryHash
<1>3. [type |-> "log", what |-> r] \in Pool
      BY DEF Pool, LogTransaction
<1> QED BY <1>1, <1>2, <1>3, InitWeb3Type, SendType

\* And a batch.
LEMMA AnchorBatchType ==
    ASSUME TypeOK, NEW leaves \in Seq(Leaves), NEW count \in Nat,
           AnchorBatchOnChain(leaves, count)
    PROVE  /\ made' \in Seq(Seq(Leaves))
           /\ web3' \in Connection /\ pool' \in Pool /\ answersLost' \in Nat
           /\ queue' \in Seq(Operation) /\ file' \in Seq(Operation) \cup {Torn}
           /\ savesFailed' \in Nat
           /\ \/ UNCHANGED <<queue, file, savesFailed>>
              \/ \E operations \in Seq(Operation) : Enqueue(operations)
<1>1. /\ web3 \in Connection /\ pool \in Pool /\ answersLost \in Nat
      /\ queue \in Seq(Operation) /\ file \in Seq(Operation) \cup {Torn}
      /\ savesFailed \in Nat /\ made \in Seq(Seq(Leaves))
      BY DEF TypeOK, Connection, Pool
<1>2. made' = Append(made, leaves)
      BY DEF AnchorBatchOnChain
<1>3. made' \in Seq(Seq(Leaves)) /\ Len(made') \in Nat \ {0}
  <2>1. \A S : \A p \in Seq(S), e \in S : Append(p, e) \in Seq(S)
                                         /\ Len(Append(p, e)) \in Nat \ {0}
        OBVIOUS
  <2> QED BY <1>1, <1>2, <2>1
<1>4. PICK c \in InitWeb3 :
          /\ web3' = c.web3
          /\ \/ UNCHANGED <<pool, answersLost>>
             \/ \E sent \in BOOLEAN :
                    Send([type |-> "batch", what |-> Len(made'), count |-> count], sent)
          /\ \/ UNCHANGED <<queue, file, savesFailed>>
             \/ \E named \in BOOLEAN :
                    Enqueue(<<Op("anchor_batch", named, Len(made'))>>)
      BY DEF AnchorBatchOnChain
<1>5. [type |-> "batch", what |-> Len(made'), count |-> count] \in Pool
      BY <1>3 DEF Pool, BatchTransaction
<1>6. pool' \in Pool /\ answersLost' \in Nat
      BY <1>1, <1>4, <1>5, SendType
<1>7. \A named \in BOOLEAN : <<Op("anchor_batch", named, Len(made'))>> \in Seq(Operation)
  <2>1. \A named \in BOOLEAN : Op("anchor_batch", named, Len(made')) \in Operation
        BY <1>3 DEF Op, Operation
  <2> QED BY <2>1, OneOperation
<1>8. \/ UNCHANGED <<queue, file, savesFailed>>
      \/ \E operations \in Seq(Operation) : Enqueue(operations)
      BY <1>4, <1>7
<1>9. queue' \in Seq(Operation) /\ file' \in Seq(Operation) \cup {Torn} /\ savesFailed' \in Nat
      BY <1>1, <1>8, EnqueueType
<1> QED BY <1>1, <1>3, <1>4, <1>6, <1>8, <1>9, InitWeb3Type

\* The initial state is well formed.
LEMMA InitType == Init => TypeOK
<1> SUFFICES ASSUME Init PROVE TypeOK
    OBVIOUS
<1>1. \A S : <<>> \in Seq(S)
      OBVIOUS
<1>2. retrying \in [on : BOOLEAN, at : Nat \ {0}, remaining : Seq(Operation)]
      BY <1>1 DEF Init, NotRetrying
<1>3. /\ queue \in Seq(Operation) /\ file \in Seq(Operation)
      /\ pending \in Seq(Leaves) /\ made \in Seq(Seq(Leaves))
      BY <1>1 DEF Init
<1>4. {calls, retries, restarts, answersLost, savesFailed} \subseteq Nat
      BY DEF Init
<1>5. {killed, copied} \subseteq BOOLEAN
      BY DEF Init
<1>6. logged \in [Request -> Nat] /\ asked \subseteq Request /\ owed \subseteq asked
      BY DEF Init
<1> QED BY <1>2, <1>3, <1>4, <1>5, <1>6 DEF Init, TypeOK

\* What the queue holds is an operation, and a retriable one is about a request.
LEMMA CurrentType ==
    ASSUME TypeOK, Reached
    PROVE  /\ Current \in Operation
           /\ Retriable(Current) => Current.what \in Request
<1>1. Current \in Operation
      BY DEF TypeOK, Reached, Current
<1> QED BY <1>1 DEF Retriable, Operation

\* What the loop keeps makes a queue.
LEMMA KeptType ==
    ASSUME TypeOK, Reached, NEW sent \in BOOLEAN, Kept(sent)
    PROVE  retrying' \in [on : BOOLEAN, at : Nat \ {0}, remaining : Seq(Operation)]
<1>1. Keep(Current, sent) \in Seq(Operation)
      BY CurrentType, OneOperation DEF Keep
<1>2. retrying \in [on : BOOLEAN, at : Nat \ {0}, remaining : Seq(Operation)]
      BY DEF TypeOK
<1>3. retrying.remaining \o Keep(Current, sent) \in Seq(Operation)
  <2>1. \A S : \A p, q \in Seq(S) : p \o q \in Seq(S)
        OBVIOUS
  <2> QED BY <1>1, <1>2, <2>1
<1> DEFINE more == retrying.remaining \o Keep(Current, sent)
<1>4. retrying' = [retrying EXCEPT !.at = @ + 1, !.remaining = more]
      BY DEF Kept
<1>5. more \in Seq(Operation)
      BY <1>3
<1> HIDE DEF more
<1>6. \A at \in Nat : at + 1 \in Nat \ {0}
      OBVIOUS
<1>7. retrying.at + 1 \in Nat \ {0}
      BY <1>2, <1>6
<1> QED BY <1>2, <1>4, <1>5, <1>7

\* Every step keeps the types.
LEMMA TypeInductive == TypeOK /\ [Next]_vars => TypeOK'
<1> SUFFICES ASSUME TypeOK, [Next]_vars
             PROVE  TypeOK'
    OBVIOUS
<1>t. /\ installed \in BOOLEAN /\ web3 \in Connection
      /\ queue \in Seq(Operation) /\ file \in Seq(Operation) \cup {Torn}
      /\ retrying \in [on : BOOLEAN, at : Nat \ {0}, remaining : Seq(Operation)]
      /\ pending \in Seq(Leaves) /\ pool \in Pool /\ logged \in [Request -> Nat]
      /\ made \in Seq(Seq(Leaves)) /\ asked \subseteq Request /\ owed \subseteq asked
      /\ calls \in Nat /\ retries \in Nat /\ restarts \in Nat
      /\ answersLost \in Nat /\ savesFailed \in Nat
      /\ killed \in BOOLEAN /\ copied \in BOOLEAN
      BY DEF TypeOK, Connection, Pool
\* The types of the next state, apart from those of the counts and marks.
<1>g. ASSUME /\ installed' \in BOOLEAN /\ web3' \in Connection
             /\ queue' \in Seq(Operation) /\ file' \in Seq(Operation) \cup {Torn}
             /\ retrying' \in [on : BOOLEAN, at : Nat \ {0}, remaining : Seq(Operation)]
             /\ pending' \in Seq(Leaves) /\ pool' \in Pool /\ logged' \in [Request -> Nat]
             /\ made' \in Seq(Seq(Leaves)) /\ asked' \subseteq Request /\ owed' \subseteq asked'
             /\ calls' \in Nat /\ retries' \in Nat /\ restarts' \in Nat
             /\ answersLost' \in Nat /\ savesFailed' \in Nat
             /\ killed' \in BOOLEAN /\ copied' \in BOOLEAN
      PROVE  TypeOK'
      BY <1>g DEF TypeOK, Connection, Pool
<1> USE DEF client, counts, faults
<1>1. CASE UNCHANGED vars
      BY <1>1, <1>t, <1>g DEF vars
<1>2. ASSUME NEW r \in Request, Anchor(r)
      PROVE  TypeOK'
  <2>1. PICK added \in Outcomes(r), sent \in BOOLEAN :
            /\ AnchorMemoryHash(r, added, sent)
            /\ Enqueue(added)
            /\ owed' = IF added = <<>> THEN owed ELSE owed \cup {r}
        BY <1>2 DEF Anchor
  <2>2. web3' \in Connection /\ pool' \in Pool /\ answersLost' \in Nat
        BY <2>1, AnchorMemoryHashType
  <2>3. queue' \in Seq(Operation) /\ file' \in Seq(Operation) \cup {Torn} /\ savesFailed' \in Nat
        BY <2>1, OutcomeType, EnqueueType
  <2>4. asked' \subseteq Request /\ owed' \subseteq asked'
        BY <1>2, <2>1, <1>t DEF Anchor
  <2>5. calls' \in Nat /\ restarts' \in Nat
        BY <1>2, <1>t DEF Anchor, Call
  <2> QED BY <1>2, <2>2, <2>3, <2>4, <2>5, <1>t, <1>g DEF Anchor
<1>3. CASE HealthCheck
      BY <1>3, <1>t, <1>g, InitWeb3Type DEF HealthCheck
<1>4. CASE BeginRetry
  <2>1. retrying' \in [on : BOOLEAN, at : Nat \ {0}, remaining : Seq(Operation)]
    <3>1. <<>> \in Seq(Operation)
          OBVIOUS
    <3>2. retrying' = [on |-> TRUE, at |-> 1, remaining |-> <<>>]
          BY <1>4 DEF BeginRetry, NotRetrying
    <3> QED BY <3>1, <3>2
  <2>2. calls' \in Nat /\ restarts' \in Nat /\ retries' \in Nat
        BY <1>4, <1>t DEF BeginRetry, Call
  <2> QED BY <1>4, <2>1, <2>2, <1>t, <1>g DEF BeginRetry
<1>5. CASE RetryOne
  <2>1. PICK added \in Outcomes(Current.what), sent \in BOOLEAN :
            /\ AnchorMemoryHash(Current.what, added, sent)
            /\ Enqueue(added)
            /\ Kept(sent)
            /\ owed' = IF sent THEN owed \ {Current.what} ELSE owed
            /\ copied' = (copied \/ \E i \in DOMAIN added : added[i].named)
        BY <1>5 DEF RetryOne
  <2>2. Reached /\ Current.what \in Request
        BY <1>5, CurrentType DEF RetryOne
  <2>3. web3' \in Connection /\ pool' \in Pool /\ answersLost' \in Nat
        BY <2>1, <2>2, AnchorMemoryHashType
  <2>4. queue' \in Seq(Operation) /\ file' \in Seq(Operation) \cup {Torn} /\ savesFailed' \in Nat
        BY <2>1, <2>2, OutcomeType, EnqueueType
  <2>5. retrying' \in [on : BOOLEAN, at : Nat \ {0}, remaining : Seq(Operation)]
        BY <2>1, <2>2, KeptType
  <2>6. copied' \in BOOLEAN
        BY <2>1
  <2>7. owed' \subseteq asked
        BY <2>1, <1>t
  <2> QED BY <1>5, <2>3, <2>4, <2>5, <2>6, <2>7, <1>t, <1>g DEF RetryOne
<1>6. CASE PassOver
      BY <1>6, <1>t, <1>g, KeptType DEF PassOver
<1>7. CASE EndRetry
  <2>1. queue' \in Seq(Operation) /\ SaveQueue(queue')
        BY <1>7, <1>t DEF EndRetry
  <2>2. file' \in Seq(Operation) \cup {Torn} /\ savesFailed' \in Nat
    <3>1. file' \in {file, queue', Torn} /\ savesFailed' \in {savesFailed, savesFailed + 1}
          BY <2>1 DEF SaveQueue
    <3> QED BY <2>1, <3>1, <1>t
  <2>3. retrying' \in [on : BOOLEAN, at : Nat \ {0}, remaining : Seq(Operation)]
    <3>1. \A S : <<>> \in Seq(S)
          OBVIOUS
    <3> QED BY <1>7, <3>1 DEF EndRetry, NotRetrying
  <2> QED BY <1>7, <2>1, <2>2, <2>3, <1>t, <1>g DEF EndRetry
<1>8. ASSUME NEW h \in Leaves, AnchorMemoryBatched(h)
      PROVE  TypeOK'
  <2> DEFINE leaves == Append(pending, h)
  <2>1. leaves \in Seq(Leaves)
    <3>1. \A S : \A p \in Seq(S), e \in S : Append(p, e) \in Seq(S)
          OBVIOUS
    <3> QED BY <1>t, <3>1
  <2>2. \/ pending' = <<>> /\ AnchorBatchOnChain(leaves, BatchSize)
        \/ pending' = leaves /\ UNCHANGED <<web3, queue, file, pool, made, faults>>
        BY <1>8 DEF AnchorMemoryBatched
  <2> HIDE DEF leaves
  <2>3. /\ made' \in Seq(Seq(Leaves)) /\ web3' \in Connection /\ pool' \in Pool
        /\ answersLost' \in Nat /\ queue' \in Seq(Operation)
        /\ file' \in Seq(Operation) \cup {Torn} /\ savesFailed' \in Nat
        BY <2>1, <2>2, <1>t, AnchorBatchType, BlockchainAnchorAssumption
  <2>4. pending' \in Seq(Leaves)
    <3>1. \A S : <<>> \in Seq(S)
          OBVIOUS
    <3> QED BY <2>1, <2>2, <3>1
  <2>5. calls' \in Nat /\ restarts' \in Nat
        BY <1>8, <1>t DEF AnchorMemoryBatched, Call
  <2> QED BY <1>8, <2>3, <2>4, <2>5, <1>t, <1>g DEF AnchorMemoryBatched
<1>9. CASE FlushBatch
  <2>1. pending' = <<>> /\ AnchorBatchOnChain(pending, 0)
        BY <1>9 DEF FlushBatch, FlushedCount
  <2>2. /\ made' \in Seq(Seq(Leaves)) /\ web3' \in Connection /\ pool' \in Pool
        /\ answersLost' \in Nat /\ queue' \in Seq(Operation)
        /\ file' \in Seq(Operation) \cup {Torn} /\ savesFailed' \in Nat
        BY <2>1, <1>t, AnchorBatchType
  <2>3. pending' \in Seq(Leaves)
    <3>1. \A S : <<>> \in Seq(S)
          OBVIOUS
    <3> QED BY <2>1, <3>1
  <2>4. calls' \in Nat /\ restarts' \in Nat
        BY <1>9, <1>t DEF FlushBatch, Call
  <2> QED BY <1>9, <2>2, <2>3, <2>4, <1>t, <1>g DEF FlushBatch
<1>10. CASE Mine
  <2>1. pool' \in Pool
        BY <1>10 DEF Mine, Pool
  <2>2. logged' \in [Request -> Nat]
    <3>1. CASE pool.type = "log"
      <4>1. pool.what \in Request
            BY <3>1, <1>t, <1>10 DEF Mine, Pool, LogTransaction, BatchTransaction, NoTransaction
      <4>2. logged' = [logged EXCEPT ![pool.what] = @ + 1]
            BY <1>10, <3>1 DEF Mine
      <4> QED BY <4>1, <4>2, <1>t
    <3>2. CASE pool.type # "log"
          BY <1>10, <3>2, <1>t DEF Mine
    <3> QED BY <3>1, <3>2
  <2> QED BY <1>10, <2>1, <2>2, <1>t, <1>g DEF Mine
<1>11. CASE Administer
      BY <1>11, <1>t, <1>g DEF Administer
<1>12. CASE Restart
  <2>1. \A S : <<>> \in Seq(S)
        OBVIOUS
  <2>2. queue' \in Seq(Operation)
        BY <1>12, <2>1, <1>t DEF Restart, LoadQueue
  <2>3. retrying' \in [on : BOOLEAN, at : Nat \ {0}, remaining : Seq(Operation)]
        BY <1>12, <2>1 DEF Restart, NotRetrying
  <2>4. pending' \in Seq(Leaves) /\ restarts' \in Nat /\ killed' \in BOOLEAN
        BY <1>12, <2>1, <1>t DEF Restart
  <2>5. web3' \in Connection
        BY <1>12 DEF Restart, Connection
  <2> QED BY <1>12, <2>2, <2>3, <2>4, <2>5, <1>t, <1>g DEF Restart
<1> QED BY <1>1, <1>2, <1>3, <1>4, <1>5, <1>6, <1>7, <1>8, <1>9, <1>10, <1>11, <1>12
        DEF Next, Retry

\* Type correctness: whatever fails, the queue and a file that can be read hold
\* operations the retry can look at (blockchain_anchor.py:179-203, 373-413).
THEOREM TypeCorrect == Spec => []TypeOK
  BY InitType, TypeInductive, PTL DEF Spec

-----------------------------------------------------------------------------
(* What is owed is kept.                                                   *)

\* What the retry has not come to yet.
Rest == {queue[i].what : i \in {j \in DOMAIN queue : j >= retrying.at}}

\* As long as no write of it failed, the file is the queue.  Before its end a retry
\* has kept, or has yet to come to, all that is owed.
QueueIsSafe ==
    savesFailed = 0 =>
        /\ file = queue
        /\ owed \subseteq Whats(queue)
        /\ retrying.on => owed \subseteq Whats(retrying.remaining) \cup Rest

QueueInvariant == TypeOK /\ QueueIsSafe

\* At first nothing is owed.
LEMMA QueueInit == Init => QueueInvariant
  BY InitType DEF Init, QueueInvariant, QueueIsSafe, NotRetrying

\* A write of the queue that did not fail.
LEMMA EnqueueKeeps ==
    ASSUME TypeOK, file = queue, savesFailed = 0,
           NEW operations \in Seq(Operation), Enqueue(operations), savesFailed' = 0
    PROVE  /\ file' = queue'
           /\ queue' = queue \o operations
           /\ Whats(queue') = Whats(queue) \cup Whats(operations)
<1>1. queue \in Seq(Operation) /\ queue' = queue \o operations
      BY DEF TypeOK, Enqueue
<1>2. Whats(queue') = Whats(queue) \cup Whats(operations)
      BY <1>1, AppendedWhats
<1>3. CASE operations = <<>>
  <2>1. \A S : \A p \in Seq(S) : p \o <<>> = p
        OBVIOUS
  <2>2. file' = file /\ queue' = queue
        BY <1>1, <1>3, <2>1 DEF Enqueue
  <2> QED BY <1>1, <1>2, <2>2
<1>4. CASE operations # <<>>
  <2>1. file' = queue'
        BY <1>4 DEF Enqueue, SaveQueue
  <2> QED BY <1>1, <1>2, <2>1
<1> QED BY <1>3, <1>4

\* No step makes a failed write undone.
LEMMA FailuresStay ==
    ASSUME TypeOK, [Next]_vars, savesFailed' = 0
    PROVE  savesFailed = 0
<1>1. savesFailed \in Nat
      BY DEF TypeOK
<1>2. \A operations : SaveQueue(operations) => savesFailed = 0
      BY <1>1 DEF SaveQueue
<1>3. \A operations : Enqueue(operations) => savesFailed = 0
      BY <1>2 DEF Enqueue
<1>4. \A leaves, count : AnchorBatchOnChain(leaves, count) => savesFailed = 0
      BY <1>3 DEF AnchorBatchOnChain
<1>5. CASE UNCHANGED vars
      BY <1>5 DEF vars, faults
<1>6. CASE Retry
      BY <1>6, <1>2, <1>3 DEF Retry, RetryOne, PassOver, EndRetry, faults
<1>7. ASSUME NEW h \in Leaves, AnchorMemoryBatched(h) PROVE savesFailed = 0
      BY <1>7, <1>4 DEF AnchorMemoryBatched, faults
<1>8. CASE FlushBatch
      BY <1>8, <1>4 DEF FlushBatch
<1>9. ASSUME NEW r \in Request, Anchor(r) PROVE savesFailed = 0
      BY <1>9, <1>3 DEF Anchor
<1>10. CASE HealthCheck \/ BeginRetry \/ Mine \/ Administer \/ Restart
      BY <1>10 DEF HealthCheck, BeginRetry, Mine, Administer, Restart, faults
<1> QED BY <1>5, <1>6, <1>7, <1>8, <1>9, <1>10 DEF Next

\* The loop goes on by one: what it leaves behind is the current operation, and a
\* longer queue has no less to come to.
LEMMA RestShrinks ==
    ASSUME TypeOK, Reached, NEW added \in Seq(Operation), queue' = queue \o added,
           retrying'.at = retrying.at + 1
    PROVE  Rest \subseteq Rest' \cup {Current.what}
<1>1. queue \in Seq(Operation) /\ retrying.at \in Nat
      BY DEF TypeOK
<1>2. DOMAIN queue \subseteq DOMAIN queue' /\ \A i \in DOMAIN queue : queue'[i] = queue[i]
  <2>1. \A S : \A p, q \in Seq(S) : DOMAIN p \subseteq DOMAIN (p \o q)
                                    /\ \A i \in DOMAIN p : (p \o q)[i] = p[i]
        OBVIOUS
  <2> QED BY <1>1, <2>1
<1>3. ASSUME NEW i \in DOMAIN queue, i >= retrying.at, i # retrying.at
      PROVE  queue[i].what \in Rest'
  <2>1. i >= retrying.at + 1
        BY <1>1, <1>3
  <2> QED BY <1>2, <1>3, <2>1 DEF Rest
<1> QED BY <1>3 DEF Rest, Current

\* What the loop keeps, and what it does not.
LEMMA KeptWhats ==
    ASSUME TypeOK, Reached, NEW sent \in BOOLEAN, Kept(sent)
    PROVE  /\ retrying'.on = retrying.on /\ retrying'.at = retrying.at + 1
           /\ Whats(retrying'.remaining)
                  = Whats(retrying.remaining) \cup (IF sent THEN {} ELSE {Current.what})
<1>1. /\ retrying \in [on : BOOLEAN, at : Nat \ {0}, remaining : Seq(Operation)]
      /\ Current \in Operation
      BY CurrentType DEF TypeOK
<1>2. /\ retrying'.on = retrying.on /\ retrying'.at = retrying.at + 1
      /\ retrying'.remaining = retrying.remaining \o Keep(Current, sent)
      BY <1>1 DEF Kept
<1>3. /\ Keep(Current, sent) \in Seq(Operation)
      /\ Whats(Keep(Current, sent)) = IF sent THEN {} ELSE {Current.what}
      BY <1>1, OneOperation DEF Keep, Whats
<1>4. retrying.remaining \in Seq(Operation)
      BY <1>1
<1> QED BY <1>2, <1>3, <1>4, AppendedWhats

\* Every step keeps the queue safe.
LEMMA QueueInductive == QueueInvariant /\ [Next]_vars => QueueInvariant'
<1> SUFFICES ASSUME QueueInvariant, [Next]_vars, savesFailed' = 0
             PROVE  /\ file' = queue'
                    /\ owed' \subseteq Whats(queue')
                    /\ retrying'.on => owed' \subseteq Whats(retrying'.remaining) \cup Rest'
    BY TypeInductive DEF QueueInvariant, QueueIsSafe
<1>0. TypeOK /\ savesFailed = 0
      BY FailuresStay DEF QueueInvariant
<1>i. /\ file = queue /\ owed \subseteq Whats(queue)
      /\ retrying.on => owed \subseteq Whats(retrying.remaining) \cup Rest
      BY <1>0 DEF QueueInvariant, QueueIsSafe
<1>t. /\ queue \in Seq(Operation)
      /\ retrying \in [on : BOOLEAN, at : Nat \ {0}, remaining : Seq(Operation)]
      /\ owed \subseteq Request
      BY <1>0 DEF TypeOK
\* A step that touches neither the queue nor what is owed nor the retry.
<1>s. ASSUME UNCHANGED <<queue, file, owed, retrying>>
      PROVE  /\ file' = queue'
             /\ owed' \subseteq Whats(queue')
             /\ retrying'.on => owed' \subseteq Whats(retrying'.remaining) \cup Rest'
      BY <1>s, <1>i DEF Whats, Rest
\* Outside a retry only the queue and its file matter.
<1>b. ASSUME NEW operations \in Seq(Operation), Enqueue(operations),
             owed' \subseteq owed \cup Whats(operations)
      PROVE  file' = queue' /\ owed' \subseteq Whats(queue')
      BY <1>b, <1>0, <1>i, EnqueueKeeps
<1> USE DEF client, counts, faults
<1>1. CASE UNCHANGED vars
      BY <1>1, <1>s DEF vars
<1>2. ASSUME NEW r \in Request, Anchor(r)
      PROVE  file' = queue' /\ owed' \subseteq Whats(queue') /\ ~retrying'.on
  <2>1. PICK added \in Outcomes(r) :
            /\ Enqueue(added)
            /\ owed' = IF added = <<>> THEN owed ELSE owed \cup {r}
        BY <1>2 DEF Anchor
  <2>2. added \in Seq(Operation) /\ owed' \subseteq owed \cup Whats(added)
        BY <2>1, OutcomeType
  <2> QED BY <1>2, <1>b, <2>1, <2>2 DEF Anchor
<1>3. CASE HealthCheck \/ Mine \/ Administer
      BY <1>3, <1>s DEF HealthCheck, Mine, Administer
<1>4. CASE BeginRetry
  <2>1. retrying'.at = 1 /\ UNCHANGED <<queue, file, owed>>
        BY <1>4 DEF BeginRetry, NotRetrying
  <2>2. Whats(queue) = Rest'
    <3>1. \A j \in DOMAIN queue : j >= 1
          BY <1>t
    <3> QED BY <2>1, <3>1 DEF Whats, Rest
  <2> QED BY <2>1, <2>2, <1>i
<1>5. CASE RetryOne
  <2>1. PICK added \in Outcomes(Current.what), sent \in BOOLEAN :
            /\ Enqueue(added)
            /\ Kept(sent)
            /\ owed' = IF sent THEN owed \ {Current.what} ELSE owed
        BY <1>5 DEF RetryOne
  <2>2. Reached /\ Current.what \in Request
        BY <1>5, <1>0, CurrentType DEF RetryOne
  <2>3. added \in Seq(Operation)
        BY <2>1, <2>2, OutcomeType
  <2>4. file' = queue' /\ owed' \subseteq Whats(queue')
        BY <1>b, <2>1, <2>3
  <2>5. /\ retrying.on /\ retrying'.at = retrying.at + 1
        /\ Whats(retrying'.remaining)
               = Whats(retrying.remaining) \cup (IF sent THEN {} ELSE {Current.what})
        BY <1>0, <2>1, <2>2, KeptWhats DEF Reached
  <2>6. Rest \subseteq Rest' \cup {Current.what}
    <3>1. queue' = queue \o added
          BY <2>1 DEF Enqueue
    <3> QED BY <1>0, <2>2, <2>3, <2>5, <3>1, RestShrinks
  <2> QED BY <1>i, <2>1, <2>4, <2>5, <2>6
<1>6. CASE PassOver
  <2>1. Reached /\ Kept(FALSE) /\ UNCHANGED <<queue, file, owed>>
        BY <1>6 DEF PassOver
  <2>2. /\ retrying.on /\ retrying'.at = retrying.at + 1
        /\ Whats(retrying'.remaining) = Whats(retrying.remaining) \cup {Current.what}
        BY <1>0, <2>1, KeptWhats DEF Reached
  <2>3. Rest \subseteq Rest' \cup {Current.what}
    <3>1. <<>> \in Seq(Operation) /\ queue' = queue \o <<>>
          BY <1>t, <2>1
    <3> QED BY <1>0, <2>1, <2>2, <3>1, RestShrinks
  <2>4. owed' \subseteq Whats(queue')
        BY <1>i, <2>1 DEF Whats
  <2> QED BY <1>i, <2>1, <2>2, <2>3, <2>4
<1>7. CASE EndRetry
  <2>1. retrying.on /\ ~Reached /\ queue' = retrying.remaining /\ owed' = owed
        BY <1>7 DEF EndRetry
  <2>2. Rest = {}
    <3>1. \A j \in DOMAIN queue : j <= Len(queue)
          BY <1>t
    <3> QED BY <2>1, <3>1, <1>t DEF Reached, Rest
  <2>3. owed' \subseteq Whats(queue')
        BY <1>i, <2>1, <2>2 DEF Whats
  <2>4. file' = queue'
        BY <1>7, <1>0 DEF EndRetry, SaveQueue
  <2>5. ~retrying'.on
        BY <1>7 DEF EndRetry, NotRetrying
  <2> QED BY <2>3, <2>4, <2>5
<1>8. ASSUME NEW leaves \in Seq(Leaves), NEW count \in Nat,
             AnchorBatchOnChain(leaves, count), ~retrying.on, UNCHANGED <<retrying, owed>>
      PROVE  file' = queue' /\ owed' \subseteq Whats(queue') /\ ~retrying'.on
  <2>1. CASE UNCHANGED <<queue, file, savesFailed>>
        BY <1>8, <1>i, <2>1 DEF Whats
  <2>2. CASE \E operations \in Seq(Operation) : Enqueue(operations)
        BY <1>8, <1>b, <2>2
  <2> QED BY <1>8, <1>0, <2>1, <2>2, AnchorBatchType
<1>9. ASSUME NEW h \in Leaves, AnchorMemoryBatched(h)
      PROVE  file' = queue' /\ owed' \subseteq Whats(queue') /\ ~retrying'.on
  <2> DEFINE leaves == Append(pending, h)
  <2>1. leaves \in Seq(Leaves)
    <3>1. \A S : \A p \in Seq(S), e \in S : Append(p, e) \in Seq(S)
          OBVIOUS
    <3> QED BY <1>0, <3>1 DEF TypeOK
  <2>2. /\ ~retrying.on /\ UNCHANGED <<retrying, owed>>
        /\ AnchorBatchOnChain(leaves, BatchSize) \/ UNCHANGED <<queue, file>>
        BY <1>9 DEF AnchorMemoryBatched
  <2> HIDE DEF leaves
  <2>3. CASE AnchorBatchOnChain(leaves, BatchSize)
        BY <1>8, <2>1, <2>2, <2>3, BlockchainAnchorAssumption
  <2>4. CASE UNCHANGED <<queue, file>>
        BY <1>i, <2>2, <2>4 DEF Whats
  <2> QED BY <2>2, <2>3, <2>4
<1>10. CASE FlushBatch
  <2>1. pending \in Seq(Leaves) /\ AnchorBatchOnChain(pending, 0)
        BY <1>10, <1>0 DEF TypeOK, FlushBatch, FlushedCount
  <2>2. ~retrying.on /\ UNCHANGED <<retrying, owed>>
        BY <1>10 DEF FlushBatch
  <2> QED BY <1>8, <2>1, <2>2
<1>11. CASE Restart
  <2>1. queue' = file /\ UNCHANGED <<file, owed>> /\ ~retrying'.on
        BY <1>11, <1>i, <1>t, TornAssumption DEF Restart, LoadQueue, NotRetrying
  <2>2. owed' \subseteq Whats(queue')
        BY <1>i, <2>1 DEF Whats
  <2> QED BY <2>1, <2>2
<1> QED BY <1>1, <1>2, <1>3, <1>4, <1>5, <1>6, <1>7, <1>9, <1>10, <1>11 DEF Next, Retry

\* A request reported as queued stays in the queue and in its file until it is sent,
\* wherever the process dies, as long as the file can be written
\* (blockchain_anchor.py:373-413).
THEOREM NothingQueuedIsLost == Spec => []QueuedIsKept
<1>1. QueueInvariant => QueuedIsKept
  <2>1. SUFFICES ASSUME QueueInvariant, savesFailed = 0
                 PROVE  owed \subseteq Whats(queue) /\ owed \subseteq Whats(LoadQueue(file))
        BY DEF QueuedIsKept
  <2>2. file = queue /\ owed \subseteq Whats(queue) /\ queue \in Seq(Operation)
        BY <2>1 DEF QueueInvariant, QueueIsSafe, TypeOK
  <2> QED BY <2>2, TornAssumption DEF LoadQueue
<1> QED BY <1>1, QueueInit, QueueInductive, PTL DEF Spec

-----------------------------------------------------------------------------
(* What is retried is written once.                                        *)

\* The operation of the queue that retry_pending may send for a request.
Waits(r) == Op("anchor_memory", TRUE, r)
Places(operations, r) == {i \in DOMAIN operations : operations[i] = Waits(r)}
Single(operations) == \A r \in Request : \A i, j \in Places(operations, r) : i = j

\* Such an operation is still to be sent: it is in the queue, or, while a retry
\* runs, ahead of it in the queue or among what it keeps.
Waiting(r) ==
    IF retrying.on
    THEN (\E i \in Places(queue, r) : i >= retrying.at) \/ Places(retrying.remaining, r) # {}
    ELSE Places(queue, r) # {}

Written(r) == logged[r] + (IF pool.type = "log" /\ pool.what = r THEN 1 ELSE 0)

Undisturbed == answersLost = 0 /\ savesFailed = 0 /\ ~killed /\ ~copied

\* What waits was asked for and was not written, and waits in one place: what a
\* retry keeps it has passed in the queue.
Once ==
    /\ Single(queue)
    /\ retrying.on =>
           /\ Single(retrying.remaining)
           /\ \A r \in Request :
                  Places(retrying.remaining, r) # {} =>
                      \E k \in Places(queue, r) : k < retrying.at
    /\ \A r \in Request :
           /\ Written(r) <= 1
           /\ Waiting(r) => r \in asked /\ Written(r) = 0
           /\ r \notin asked => Written(r) = 0

OnceInvariant == QueueInvariant /\ (Undisturbed => Once)

\* Operations that are not for a request change no place of it.
LEMMA PlacesKept ==
    ASSUME NEW S, NEW p \in Seq(S), NEW q \in Seq(S), NEW r,
           \A i \in DOMAIN q : q[i] # Waits(r)
    PROVE  Places(p \o q, r) = Places(p, r)
<1>1. /\ Len(p) \in Nat /\ Len(q) \in Nat
      /\ DOMAIN p = 1 .. Len(p) /\ DOMAIN q = 1 .. Len(q)
      /\ DOMAIN (p \o q) = 1 .. Len(p) + Len(q)
      /\ \A i \in 1 .. Len(p) : (p \o q)[i] = p[i]
      /\ \A i \in 1 .. Len(q) : (p \o q)[Len(p) + i] = q[i]
      OBVIOUS
<1>2. ASSUME NEW i \in DOMAIN (p \o q), i \notin DOMAIN p
      PROVE  (p \o q)[i] # Waits(r)
  <2>1. i - Len(p) \in 1 .. Len(q) /\ Len(p) + (i - Len(p)) = i
        BY <1>1, <1>2
  <2>2. (p \o q)[i] = q[i - Len(p)]
        BY <1>1, <2>1
  <2> QED BY <1>1, <2>1, <2>2
<1>3. DOMAIN p \subseteq DOMAIN (p \o q)
      BY <1>1
<1> QED BY <1>1, <1>2, <1>3 DEF Places

\* One operation more.
LEMMA PlacesGrow ==
    ASSUME NEW S, NEW p \in Seq(S), NEW operation \in S, NEW r
    PROVE  Places(p \o <<operation>>, r) =
               Places(p, r) \cup (IF operation = Waits(r) THEN {Len(p) + 1} ELSE {})
<1>1. /\ Len(p) \in Nat
      /\ DOMAIN p = 1 .. Len(p)
      /\ DOMAIN (p \o <<operation>>) = 1 .. Len(p) + 1
      /\ \A i \in 1 .. Len(p) : (p \o <<operation>>)[i] = p[i]
      /\ (p \o <<operation>>)[Len(p) + 1] = operation
      OBVIOUS
<1>2. \A i : i \in 1 .. Len(p) + 1 <=> i \in 1 .. Len(p) \/ i = Len(p) + 1
      BY <1>1
<1> QED BY <1>1, <1>2 DEF Places

\* Nothing that went wrong is ever undone.
LEMMA DisturbanceStays ==
    ASSUME TypeOK, [Next]_vars, Undisturbed'
    PROVE  Undisturbed
<1>1. savesFailed = 0
      BY FailuresStay DEF Undisturbed
<1>2. answersLost = 0
  <2>1. answersLost \in Nat
        BY DEF TypeOK
  <2>2. \A transaction, sent : Send(transaction, sent) => answersLost = 0
        BY <2>1 DEF Send, Undisturbed
  <2>3. \A r, added, sent : AnchorMemoryHash(r, added, sent) => answersLost = 0
        BY <2>2 DEF AnchorMemoryHash, Undisturbed
  <2>4. \A leaves, count : AnchorBatchOnChain(leaves, count) => answersLost = 0
        BY <2>2 DEF AnchorBatchOnChain, Undisturbed
  <2>5. CASE UNCHANGED vars
        BY <2>5 DEF vars, faults, Undisturbed
  <2>6. CASE Retry
        BY <2>6, <2>3 DEF Retry, RetryOne, PassOver, EndRetry, faults, Undisturbed
  <2>7. ASSUME NEW h \in Leaves, AnchorMemoryBatched(h) PROVE answersLost = 0
        BY <2>7, <2>4 DEF AnchorMemoryBatched, faults, Undisturbed
  <2>8. CASE FlushBatch
        BY <2>8, <2>4 DEF FlushBatch
  <2>9. ASSUME NEW r \in Request, Anchor(r) PROVE answersLost = 0
        BY <2>9, <2>3 DEF Anchor
  <2>10. CASE HealthCheck \/ BeginRetry \/ Mine \/ Administer \/ Restart
        BY <2>10 DEF HealthCheck, BeginRetry, Mine, Administer, Restart, faults, Undisturbed
  <2> QED BY <2>5, <2>6, <2>7, <2>8, <2>9, <2>10 DEF Next
<1>3. ~killed /\ ~copied
  <2>1. CASE UNCHANGED <<killed, copied>>
        BY <2>1 DEF Undisturbed
  <2>2. CASE UNCHANGED vars
        BY <2>2 DEF vars, Undisturbed
  <2>3. CASE RetryOne
    <3>1. UNCHANGED killed /\ \E again \in BOOLEAN : copied' = (copied \/ again)
          BY <2>3 DEF RetryOne
    <3> QED BY <3>1, Zenon DEF Undisturbed
  <2>4. CASE Restart
    <3>1. UNCHANGED copied /\ killed' = (killed \/ retrying.on)
          BY <2>4 DEF Restart
    <3> QED BY <3>1, Zenon DEF Undisturbed
  <2>5. ASSUME NEW r \in Request, Anchor(r) PROVE UNCHANGED <<killed, copied>>
        BY <2>5 DEF Anchor
  <2>6. ASSUME NEW h \in Leaves, AnchorMemoryBatched(h) PROVE UNCHANGED <<killed, copied>>
        BY <2>6 DEF AnchorMemoryBatched
  <2>7. CASE HealthCheck \/ BeginRetry
        BY <2>7 DEF HealthCheck, BeginRetry, Undisturbed
  <2>11. CASE PassOver
        BY <2>11 DEF PassOver, Undisturbed
  <2>12. CASE EndRetry
        BY <2>12 DEF EndRetry, Undisturbed
  <2>8. CASE FlushBatch
        BY <2>8 DEF FlushBatch, Undisturbed
  <2>9. CASE Mine
        BY <2>9 DEF Mine, Undisturbed
  <2>10. CASE Administer
        BY <2>10 DEF Administer, Undisturbed
  <2> QED BY <2>1, <2>2, <2>3, <2>4, <2>5, <2>6, <2>7, <2>8, <2>9, <2>10, <2>11, <2>12
        DEF Next, Retry
<1> QED BY <1>1, <1>2, <1>3 DEF Undisturbed

\* A step that leaves the retry and every place in the queue alone, and writes
\* nothing more.
LEMMA CalmStep ==
    ASSUME TypeOK, TypeOK', Once, UNCHANGED retrying, asked \subseteq asked',
           \A r \in Request : Places(queue', r) = Places(queue, r) /\ Written(r)' <= Written(r)
    PROVE  Once'
<1>1. \A r \in Request : Written(r) \in Nat /\ Written(r)' \in Nat
  <2>1. logged \in [Request -> Nat] /\ logged' \in [Request -> Nat]
        BY DEF TypeOK
  <2> QED BY <2>1 DEF Written
<1>2. Single(queue')
      BY DEF Once, Single
<1>3. retrying'.on =>
          /\ Single(retrying'.remaining)
          /\ \A r \in Request :
                 Places(retrying'.remaining, r) # {} =>
                     \E k \in Places(queue', r) : k < retrying'.at
      BY DEF Once
<1>4. \A r \in Request : Waiting(r)' <=> Waiting(r)
      BY DEF Waiting
<1>5. ASSUME NEW r \in Request
      PROVE  /\ Written(r)' <= 1
             /\ Waiting(r)' => r \in asked' /\ Written(r)' = 0
             /\ r \notin asked' => Written(r)' = 0
      BY <1>1, <1>4 DEF Once
<1> QED BY <1>2, <1>3, <1>5 DEF Once

\* What a single anchor queues for its request, and what it writes, if no answer
\* is lost.
LEMMA AnchorEffect ==
    ASSUME TypeOK, NEW r \in Request, NEW added \in Outcomes(r), NEW sent \in BOOLEAN,
           AnchorMemoryHash(r, added, sent), answersLost' = 0, UNCHANGED logged
    PROVE  /\ added = <<>> \/ added = <<Waits(r)>> \/
              (added \in Seq(Operation)
                   /\ \A i \in DOMAIN added : \A q \in Request : added[i] # Waits(q))
           /\ sent => added = <<>>
           /\ \A q \in Request :
                  Written(q)' <= IF sent /\ q = r THEN logged[q] + 1 ELSE Written(q)
<1>1. answersLost \in Nat /\ logged \in [Request -> Nat]
      BY DEF TypeOK
<1>2. \/ ~sent /\ UNCHANGED pool
      \/ sent /\ pool' = [type |-> "log", what |-> r] /\ added = <<>>
  <2>1. \/ ~sent /\ UNCHANGED pool
        \/ added = <<>> /\ Send([type |-> "log", what |-> r], sent)
        BY DEF AnchorMemoryHash
  <2>2. answersLost + 1 # 0
        BY <1>1
  <2> QED BY <2>1, <2>2 DEF Send
<1>3. \A i \in DOMAIN OnError(r) : \A q \in Request : OnError(r)[i] # Waits(q)
      BY DEF OnError, Op, Waits
<1>4. added \in {<<>>, <<Waits(r)>>, OnError(r)} /\ added \in Seq(Operation)
      BY OutcomeType DEF Outcomes, Waits
<1>5. \A q \in Request :
          Written(q)' <= IF sent /\ q = r THEN logged[q] + 1 ELSE Written(q)
      BY <1>1, <1>2 DEF Written
<1> QED BY <1>2, <1>3, <1>4, <1>5

\* An anchor outside a retry: its request was never asked for, so it neither
\* waits nor was written.
LEMMA AnchorOnce ==
    ASSUME QueueInvariant, TypeOK', Once, Undisturbed',
           NEW r \in Request, Anchor(r)
    PROVE  Once'
<1>1. PICK added \in Outcomes(r), sent \in BOOLEAN :
          AnchorMemoryHash(r, added, sent) /\ Enqueue(added)
      BY DEF Anchor
<1>2. /\ ~retrying.on /\ UNCHANGED <<retrying, logged>>
      /\ r \notin asked /\ asked' = asked \cup {r}
      BY DEF Anchor
<1>3. TypeOK /\ queue \in Seq(Operation) /\ logged \in [Request -> Nat] /\ queue' = queue \o added
      BY <1>1 DEF QueueInvariant, TypeOK, Enqueue
<1>4. /\ added = <<>> \/ added = <<Waits(r)>> \/
            (added \in Seq(Operation)
                 /\ \A i \in DOMAIN added : \A q \in Request : added[i] # Waits(q))
      /\ sent => added = <<>>
      /\ \A q \in Request :
             Written(q)' <= IF sent /\ q = r THEN logged[q] + 1 ELSE Written(q)
      BY <1>1, <1>2, <1>3, AnchorEffect DEF Undisturbed
<1>5. \A q \in Request : Written(q) \in Nat /\ Written(q)' \in Nat /\ logged[q] <= Written(q)
  <2>1. logged' = logged
        BY <1>2
  <2> QED BY <1>3, <2>1 DEF Written
<1>6. Written(r) = 0 /\ Places(queue, r) = {}
      BY <1>2 DEF Once, Waiting
<1>7. \A q \in Request : Waits(q) = Waits(r) => q = r
      BY DEF Waits, Op
<1>8. Waits(r) \in Operation
      BY DEF Waits, Op, Operation
<1>9. \A q \in Request :
          /\ q # r => Places(queue', q) = Places(queue, q)
          /\ Places(queue', r) \subseteq {Len(queue) + 1}
          /\ sent => Places(queue', q) = Places(queue, q)
  <2>1. CASE added = <<Waits(r)>>
    <3>1. \A q : Places(queue', q) =
                     Places(queue, q) \cup (IF Waits(r) = Waits(q) THEN {Len(queue) + 1} ELSE {})
          BY <1>3, <1>8, <2>1, PlacesGrow
    <3>2. ~sent
      <4>1. <<Waits(r)>> # <<>>
            OBVIOUS
      <4> QED BY <1>4, <2>1, <4>1
    <3> QED BY <1>6, <1>7, <3>1, <3>2
  <2>2. CASE added = <<>>
    <3>1. added \in Seq(Operation) /\ \A q : \A i \in DOMAIN added : added[i] # Waits(q)
          BY <2>2
    <3> QED BY <1>3, <1>6, <3>1, PlacesKept
  <2>3. CASE /\ added \in Seq(Operation)
             /\ \A i \in DOMAIN added : \A q \in Request : added[i] # Waits(q)
        BY <1>3, <1>6, <2>3, PlacesKept
  <2> QED BY <1>4, <2>1, <2>2, <2>3
<1>10. Single(queue')
      BY <1>9 DEF Once, Single
<1>11. ASSUME NEW q \in Request
      PROVE  /\ Written(q)' <= 1
             /\ Waiting(q)' => q \in asked' /\ Written(q)' = 0
             /\ q \notin asked' => Written(q)' = 0
  <2>1. Waiting(q)' <=> Places(queue', q) # {}
        BY <1>2 DEF Waiting
  <2>2. Waiting(q) <=> Places(queue, q) # {}
        BY <1>2 DEF Waiting
  <2>3. CASE q = r
    <3>1. logged[r] = 0
          BY <1>3, <1>5, <1>6
    <3>2. CASE sent
          BY <1>2, <1>4, <1>5, <1>6, <1>9, <2>1, <2>3, <3>1, <3>2
    <3>3. CASE ~sent
          BY <1>2, <1>4, <1>5, <1>6, <2>3, <3>3
    <3> QED BY <3>2, <3>3
  <2>4. CASE q # r
        BY <1>2, <1>4, <1>5, <1>9, <2>1, <2>2, <2>4 DEF Once
  <2> QED BY <2>3, <2>4
<1> QED BY <1>2, <1>10, <1>11 DEF Once

\* The retry comes to an operation it may send: it is the only one for its request,
\* in the queue and in what is kept, and is kept if it was not sent.
LEMMA RetryOnce ==
    ASSUME QueueInvariant, TypeOK', Once, Undisturbed', RetryOne
    PROVE  Once'
<1>0. TypeOK /\ Reached /\ Retriable(Current) /\ Current.what \in Request
      BY CurrentType DEF RetryOne, QueueInvariant
<1>r. PICK r \in Request : r = Current.what
      BY <1>0
<1>1. PICK added \in Outcomes(r), sent \in BOOLEAN :
          /\ AnchorMemoryHash(r, added, sent)
          /\ Enqueue(added)
          /\ Kept(sent)
          /\ copied' = (copied \/ \E i \in DOMAIN added : added[i].named)
      BY <1>r DEF RetryOne
<1>2. /\ TypeOK /\ Reached /\ Retriable(Current) /\ UNCHANGED <<logged, asked>>
      BY DEF RetryOne, QueueInvariant
<1>3. /\ queue \in Seq(Operation) /\ logged \in [Request -> Nat] /\ queue' = queue \o added
      /\ retrying \in [on : BOOLEAN, at : Nat \ {0}, remaining : Seq(Operation)]
      BY <1>1, <1>2 DEF TypeOK, Enqueue
<1>4. r \in Request /\ Current \in Operation
      BY <1>2, CurrentType
<1>5. Current = Waits(r)
      BY <1>r, <1>2, <1>4 DEF Operation, Retriable, Waits, Op
<1>6. added # <<Waits(r)>>
  <2>1. ~ \E i \in DOMAIN added : added[i].named
        BY <1>1, Zenon DEF Undisturbed
  <2>2. DOMAIN <<Waits(r)>> = {1} /\ <<Waits(r)>>[1].named
        BY DEF Waits, Op
  <2> QED BY <2>1, <2>2
<1>7. /\ added \in Seq(Operation) /\ \A q \in Request : \A i \in DOMAIN added : added[i] # Waits(q)
      /\ \A q \in Request :
             Written(q)' <= IF sent /\ q = r THEN logged[q] + 1 ELSE Written(q)
  <2>1. <<>> \in Seq(Operation) /\ DOMAIN <<>> = {}
        OBVIOUS
  <2> QED BY <1>1, <1>2, <1>4, <1>6, <2>1, AnchorEffect DEF Undisturbed
<1>8. \A q \in Request : Places(queue', q) = Places(queue, q)
      BY <1>3, <1>7, PlacesKept
<1>9. \A q \in Request : Written(q) \in Nat /\ Written(q)' \in Nat /\ logged[q] <= Written(q)
  <2>1. logged' = logged
        BY <1>2
  <2> QED BY <1>3, <2>1 DEF Written
<1>10. /\ retrying.on /\ retrying'.on /\ retrying'.at = retrying.at + 1
       /\ retrying'.remaining = retrying.remaining \o Keep(Current, sent)
      BY <1>1, <1>2, <1>3 DEF Reached, Kept
<1>11. retrying.at \in Places(queue, r)
      BY <1>2, <1>3, <1>5 DEF Reached, Places, Current
<1>12. Places(retrying.remaining, r) = {} /\ \A k \in Places(queue, r) : k = retrying.at
  <2>1. \A k \in Places(queue, r) : k = retrying.at
        BY <1>4, <1>11 DEF Once, Single
  <2>2. ~(retrying.at < retrying.at)
        BY <1>3
  <2> QED BY <1>4, <1>10, <2>1, <2>2 DEF Once
<1>13. Waiting(r) /\ Written(r) = 0 /\ r \in asked
  <2>1. retrying.at >= retrying.at
        BY <1>3
  <2>2. Waiting(r)
        BY <1>10, <1>11, <2>1 DEF Waiting
  <2> QED BY <1>4, <2>2 DEF Once
<1>14. \A q \in Request : q # r => Waits(q) # Current
      BY <1>5 DEF Waits, Op
<1>15. /\ \A q \in Request : q # r =>
              Places(retrying'.remaining, q) = Places(retrying.remaining, q)
       /\ sent => Places(retrying'.remaining, r) = {}
       /\ \A i, j \in Places(retrying'.remaining, r) : i = j
  <2>1. retrying.remaining \in Seq(Operation)
        BY <1>3
  <2>2. CASE sent
    <3>1. <<>> \in Seq(Operation) /\ DOMAIN <<>> = {}
          OBVIOUS
    <3>2. retrying'.remaining = retrying.remaining \o <<>>
          BY <1>10, <2>2 DEF Keep
    <3>3. \A q : Places(retrying'.remaining, q) = Places(retrying.remaining, q)
          BY <2>1, <3>1, <3>2, PlacesKept
    <3> QED BY <1>12, <3>3
  <2>3. CASE ~sent
    <3>1. retrying'.remaining = retrying.remaining \o <<Current>>
          BY <1>10, <2>3 DEF Keep
    <3>2. \A q : Places(retrying'.remaining, q) = Places(retrying.remaining, q)
                     \cup (IF Current = Waits(q) THEN {Len(retrying.remaining) + 1} ELSE {})
          BY <1>4, <2>1, <3>1, PlacesGrow
    <3> QED BY <1>12, <1>14, <2>3, <3>2
  <2> QED BY <2>2, <2>3
<1>16. Single(queue') /\ Single(retrying'.remaining)
      BY <1>8, <1>10, <1>15 DEF Once, Single
<1>17. \A q \in Request : Places(retrying'.remaining, q) # {} =>
           \E k \in Places(queue', q) : k < retrying'.at
  <2>1. \A k \in Nat : (k < retrying.at => k < retrying.at + 1) /\ retrying.at < retrying.at + 1
        BY <1>3
  <2>2. \A q \in Request : Places(queue, q) \subseteq Nat
        BY <1>3 DEF Places
  <2>3. ASSUME NEW q \in Request, Places(retrying'.remaining, q) # {}, q # r
        PROVE  \E k \in Places(queue', q) : k < retrying'.at
        BY <1>8, <1>10, <1>15, <2>1, <2>2, <2>3 DEF Once
  <2>4. \E k \in Places(queue', r) : k < retrying'.at
        BY <1>4, <1>8, <1>10, <1>11, <2>1, <2>2
  <2> QED BY <2>3, <2>4
<1>18. ASSUME NEW q \in Request
       PROVE  /\ Written(q)' <= 1
              /\ Waiting(q)' => q \in asked' /\ Written(q)' = 0
              /\ q \notin asked' => Written(q)' = 0
  <2>1. CASE q = r /\ sent
    <3>1. ~Waiting(r)'
      <4>1. ~(retrying.at >= retrying.at + 1)
            BY <1>3
      <4> QED BY <1>4, <1>8, <1>10, <1>12, <1>15, <2>1, <4>1 DEF Waiting
    <3>2. logged[r] = 0
          BY <1>3, <1>4, <1>9, <1>13
    <3> QED BY <1>2, <1>4, <1>7, <1>9, <1>13, <2>1, <3>1, <3>2
  <2>2. CASE q = r /\ ~sent
        BY <1>2, <1>4, <1>7, <1>9, <1>13, <2>2
  <2>3. CASE q # r
    <3>1. Waiting(q)' => Waiting(q)
      <4>1. \A i \in Nat : i >= retrying.at + 1 => i >= retrying.at
            BY <1>3
      <4>2. Places(queue, q) \subseteq Nat
            BY <1>3 DEF Places
      <4> QED BY <1>8, <1>10, <1>15, <2>3, <4>1, <4>2 DEF Waiting
    <3> QED BY <1>2, <1>7, <1>9, <2>3, <3>1 DEF Once
  <2> QED BY <2>1, <2>2, <2>3
<1> QED BY <1>16, <1>17, <1>18 DEF Once

\* A retry begins at the head of the queue: what waited in it still waits.
LEMMA BeginOnce ==
    ASSUME TypeOK, Once, BeginRetry
    PROVE  Once'
<1>1. /\ ~retrying.on /\ retrying' = [on |-> TRUE, at |-> 1, remaining |-> <<>>]
      /\ UNCHANGED <<queue, pool, logged, asked>>
      BY DEF BeginRetry, NotRetrying
<1>2. \A q : Places(retrying'.remaining, q) = {}
  <2>1. retrying'.remaining = <<>> /\ DOMAIN <<>> = {}
        BY <1>1
  <2> QED BY <2>1 DEF Places
<1>3. Single(queue') /\ Single(retrying'.remaining)
      BY <1>1, <1>2 DEF Once, Single
<1>4. \A q \in Request : Written(q)' = Written(q) /\ (Waiting(q)' => Waiting(q))
      BY <1>1, <1>2 DEF Written, Waiting
<1> QED BY <1>1, <1>2, <1>3, <1>4 DEF Once

\* An operation that is passed over is none that waits.
LEMMA PassOnce ==
    ASSUME TypeOK, Once, PassOver
    PROVE  Once'
<1>1. /\ Reached /\ ~Retriable(Current) /\ Kept(FALSE) /\ Current \in Operation
      /\ UNCHANGED <<queue, pool, logged, asked>>
      BY CurrentType DEF PassOver
<1>2. retrying \in [on : BOOLEAN, at : Nat \ {0}, remaining : Seq(Operation)]
      BY DEF TypeOK
<1>3. /\ retrying.on /\ retrying'.on /\ retrying'.at = retrying.at + 1
      /\ retrying'.remaining = retrying.remaining \o <<Current>>
      BY <1>1, <1>2 DEF Reached, Kept, Keep
<1>4. \A q \in Request : Waits(q) # Current
      BY <1>1 DEF Retriable, Waits, Op
<1>5. \A q \in Request : Places(retrying'.remaining, q) = Places(retrying.remaining, q)
  <2>1. retrying.remaining \in Seq(Operation)
        BY <1>2
  <2>2. \A q : Places(retrying.remaining \o <<Current>>, q) = Places(retrying.remaining, q)
                   \cup (IF Current = Waits(q) THEN {Len(retrying.remaining) + 1} ELSE {})
        BY <1>1, <2>1, PlacesGrow
  <2> QED BY <1>3, <1>4, <2>2
<1>6. \A q \in Request : Places(queue, q) \subseteq Nat
  <2>1. queue \in Seq(Operation)
        BY DEF TypeOK
  <2> QED BY <2>1 DEF Places
<1>7. \A i \in Nat : /\ i >= retrying.at + 1 => i >= retrying.at
                     /\ i < retrying.at => i < retrying.at + 1
      BY <1>2
<1>8. Single(queue') /\ Single(retrying'.remaining)
      BY <1>1, <1>3, <1>5 DEF Once, Single
<1>9. \A q \in Request : Written(q)' = Written(q) /\ (Waiting(q)' => Waiting(q))
      BY <1>1, <1>3, <1>5, <1>6, <1>7 DEF Written, Waiting
<1>10. \A q \in Request : Places(retrying'.remaining, q) # {} =>
           \E k \in Places(queue', q) : k < retrying'.at
      BY <1>1, <1>3, <1>5, <1>6, <1>7 DEF Once
<1> QED BY <1>1, <1>8, <1>9, <1>10 DEF Once

\* What a retry kept becomes the queue.
LEMMA EndOnce ==
    ASSUME TypeOK, Once, EndRetry
    PROVE  Once'
<1>1. /\ retrying.on /\ ~retrying'.on /\ queue' = retrying.remaining
      /\ UNCHANGED <<pool, logged, asked>>
      BY DEF EndRetry, NotRetrying
<1>2. Single(queue')
      BY <1>1 DEF Once
<1>3. \A q \in Request : Written(q)' = Written(q) /\ (Waiting(q)' => Waiting(q))
      BY <1>1 DEF Written, Waiting
<1> QED BY <1>1, <1>2, <1>3 DEF Once

\* A batch is no request, and its transaction may only take a request's place.
LEMMA BatchOnce ==
    ASSUME TypeOK, TypeOK', Once, UNCHANGED <<retrying, logged, asked>>,
           NEW leaves \in Seq(Leaves), NEW count \in Nat, AnchorBatchOnChain(leaves, count)
    PROVE  Once'
<1>1. /\ \/ UNCHANGED pool
         \/ pool' = [type |-> "batch", what |-> Len(made'), count |-> count]
      /\ \/ UNCHANGED queue
         \/ \E named \in BOOLEAN : Enqueue(<<Op("anchor_batch", named, Len(made'))>>)
      BY DEF AnchorBatchOnChain, Send
<1>2. \A q \in Request : Written(q)' <= Written(q)
  <2>1. logged \in [Request -> Nat]
        BY DEF TypeOK
  <2> QED BY <1>1, <2>1 DEF Written
<1>3. \A q \in Request : Places(queue', q) = Places(queue, q)
  <2>1. CASE UNCHANGED queue
        BY <2>1
  <2>2. ASSUME NEW named \in BOOLEAN, Enqueue(<<Op("anchor_batch", named, Len(made'))>>)
        PROVE  \A q \in Request : Places(queue', q) = Places(queue, q)
    <3> DEFINE operation == Op("anchor_batch", named, Len(made'))
    <3>1. queue \in Seq(Operation) /\ queue' = queue \o <<operation>>
          BY <2>2 DEF TypeOK, Enqueue
    <3>2. \A q \in Request : operation # Waits(q)
          BY DEF Waits, Op
    <3> HIDE DEF operation
    <3>3. operation \in Operation
      <4>1. Len(made') \in Nat \ {0}
        <5>1. made' = Append(made, leaves) /\ made \in Seq(Seq(Leaves))
              BY DEF AnchorBatchOnChain, TypeOK
        <5> QED BY <5>1
      <4> QED BY <4>1 DEF operation, Op, Operation
    <3>4. \A q : Places(queue \o <<operation>>, q) =
                     Places(queue, q) \cup (IF operation = Waits(q) THEN {Len(queue) + 1} ELSE {})
          BY <3>1, <3>3, PlacesGrow
    <3> QED BY <3>1, <3>2, <3>4
  <2> QED BY <1>1, <2>1, <2>2
<1>4. asked \subseteq asked' /\ UNCHANGED retrying
      OBVIOUS
<1> QED BY <1>2, <1>3, <1>4, CalmStep

LEMMA OnceInductive == OnceInvariant /\ [Next]_vars => OnceInvariant'
<1> SUFFICES ASSUME OnceInvariant, [Next]_vars, Undisturbed'
             PROVE  Once'
    BY QueueInductive DEF OnceInvariant
<1>0. QueueInvariant /\ TypeOK /\ TypeOK' /\ Undisturbed /\ Once
      BY DisturbanceStays, TypeInductive DEF OnceInvariant, QueueInvariant
<1>l. logged \in [Request -> Nat]
      BY <1>0 DEF TypeOK
\* A step that changes neither the queue nor what is written.
<1>s. ASSUME UNCHANGED <<retrying, queue, asked>>,
             \A q \in Request : Written(q)' <= Written(q)
      PROVE  Once'
      BY <1>0, <1>s, CalmStep
<1>w. ASSUME UNCHANGED <<pool, logged>>
      PROVE  \A q \in Request : Written(q)' <= Written(q)
      BY <1>w, <1>l DEF Written
<1> USE DEF client, counts, faults
<1>1. CASE UNCHANGED vars
      BY <1>1, <1>s, <1>w DEF vars
<1>2. ASSUME NEW r \in Request, Anchor(r) PROVE Once'
      BY <1>0, <1>2, AnchorOnce
<1>3. CASE HealthCheck \/ Administer
      BY <1>3, <1>s, <1>w DEF HealthCheck, Administer
<1>4. CASE BeginRetry
      BY <1>0, <1>4, BeginOnce
<1>5. CASE RetryOne
      BY <1>0, <1>5, RetryOnce
<1>6. CASE PassOver
      BY <1>0, <1>6, PassOnce
<1>7. CASE EndRetry
      BY <1>0, <1>7, EndOnce
<1>8. ASSUME NEW h \in Leaves, AnchorMemoryBatched(h)
      PROVE  Once'
  <2> DEFINE leaves == Append(pending, h)
  <2>1. leaves \in Seq(Leaves)
    <3>1. \A S : \A p \in Seq(S), e \in S : Append(p, e) \in Seq(S)
          OBVIOUS
    <3> QED BY <1>0, <3>1 DEF TypeOK
  <2>2. /\ UNCHANGED <<retrying, logged, asked>>
        /\ AnchorBatchOnChain(leaves, BatchSize) \/ UNCHANGED <<queue, pool>>
        BY <1>8 DEF AnchorMemoryBatched
  <2> HIDE DEF leaves
  <2>3. CASE AnchorBatchOnChain(leaves, BatchSize)
        BY <1>0, <2>1, <2>2, <2>3, BatchOnce, BlockchainAnchorAssumption
  <2>4. CASE UNCHANGED <<queue, pool>>
        BY <1>s, <1>w, <2>2, <2>4
  <2> QED BY <2>2, <2>3, <2>4
<1>9. CASE FlushBatch
  <2>1. pending \in Seq(Leaves) /\ AnchorBatchOnChain(pending, 0)
        BY <1>9, <1>0 DEF TypeOK, FlushBatch, FlushedCount
  <2>2. UNCHANGED <<retrying, logged, asked>>
        BY <1>9 DEF FlushBatch
  <2> QED BY <1>0, <2>1, <2>2, BatchOnce
<1>10. CASE Mine
  <2>1. UNCHANGED <<retrying, queue, asked>> /\ pool' = NoTransaction
        BY <1>10 DEF Mine
  <2>2. \/ pool.type = "log" /\ logged' = [logged EXCEPT ![pool.what] = @ + 1]
        \/ UNCHANGED logged
        BY <1>10 DEF Mine
  <2>3. \A q \in Request : Written(q)' <= Written(q)
        BY <1>l, <2>1, <2>2 DEF Written, NoTransaction
  <2> QED BY <1>s, <2>1, <2>3
<1>11. CASE Restart
  <2>1. ~retrying.on /\ ~retrying'.on /\ UNCHANGED <<pool, logged, asked>>
        BY <1>11, <1>0 DEF Restart, NotRetrying, Undisturbed
  <2>2. queue' = queue
    <3>1. file = queue /\ queue \in Seq(Operation)
          BY <1>0 DEF QueueInvariant, QueueIsSafe, Undisturbed, TypeOK
    <3> QED BY <1>11, <3>1, TornAssumption DEF Restart, LoadQueue
  <2>3. \A q \in Request : Written(q)' = Written(q) /\ (Waiting(q)' => Waiting(q))
        BY <2>1, <2>2 DEF Written, Waiting
  <2> QED BY <1>0, <2>1, <2>2, <2>3 DEF Once
<1> QED BY <1>1, <1>2, <1>3, <1>4, <1>5, <1>6, <1>7, <1>8, <1>9, <1>10, <1>11 DEF Next, Retry

LEMMA OnceInit == Init => OnceInvariant
<1> SUFFICES ASSUME Init PROVE QueueInvariant /\ Once
    BY DEF OnceInvariant
<1>1. \A q : Places(queue, q) = {}
  <2>1. queue = <<>> /\ DOMAIN <<>> = {}
        BY DEF Init
  <2> QED BY <2>1 DEF Places
<1>2. ~retrying.on
      BY DEF Init, NotRetrying
<1>3. \A q \in Request : Written(q) = 0
      BY DEF Init, Written, NoTransaction
<1> QED BY <1>1, <1>2, <1>3, QueueInit DEF Once, Single, Waiting

\* A request is written once, however often it is retried and wherever a process
\* ends outside a retry, unless an answer or a write of the file was lost or a retry
\* queued it again (blockchain_anchor.py:381-413).
THEOREM NothingIsLoggedTwice == Spec => []LoggedOnce
<1>1. OnceInvariant => LoggedOnce
      BY DEF OnceInvariant, Undisturbed, Once, Written, LoggedOnce
<1> QED BY <1>1, OnceInit, OnceInductive, PTL DEF Spec

-----------------------------------------------------------------------------
(* The batches of the contract.                                            *)

\* The batches that were made of as many leaves as a batch should have.
Full == {b \in DOMAIN made : Len(made[b]) = BatchSize}

\* What the contract records of such a batch.
FullAnchor == [merkleRoot : {MerkleRoot(made[b]) : b \in Full},
               memoryCount : {BatchSize}, timestamp : {0}]

\* Leaves wait for as long as they do not fill a batch, or for ever once a string that
\* is no hash is among them.  A flush counts no leaves, so of the transactions that
\* are sent only those of a full batch can pass the contract.
OnlyFullBatches ==
    /\ CanHash(pending) => Len(pending) < BatchSize
    /\ pool.type = "batch" /\ pool.count > 0 => pool.what \in Full /\ pool.count = BatchSize
    /\ batchLog \in [Contract!IdentityId -> Seq(FullAnchor)]

BatchInvariant == TypeOK /\ OnlyFullBatches

LEMMA BatchInit == Init => BatchInvariant
<1> SUFFICES ASSUME Init PROVE OnlyFullBatches
    BY InitType DEF BatchInvariant
<1>1. Len(pending) = 0 /\ BatchSize \in Nat \ {0}
      BY BlockchainAnchorAssumption DEF Init
<1>2. pool.type = "none"
      BY DEF Init, NoTransaction
<1>3. batchLog \in [Contract!IdentityId -> Seq(FullAnchor)]
  <2>1. \A S : <<>> \in Seq(S)
        OBVIOUS
  <2> QED BY <2>1 DEF Init
<1> QED BY <1>1, <1>2, <1>3 DEF OnlyFullBatches

\* A batch that is made makes no other less full, and leaves what was recorded.
LEMMA MadeGrows ==
    ASSUME TypeOK, NEW leaves \in Seq(Leaves), made' = Append(made, leaves)
    PROVE  /\ Full \subseteq Full' /\ FullAnchor \subseteq FullAnchor'
           /\ Len(leaves) = BatchSize => Len(made') \in Full'
<1>1. made \in Seq(Seq(Leaves))
      BY DEF TypeOK
<1>2. /\ DOMAIN made = 1 .. Len(made) /\ DOMAIN made' = 1 .. (Len(made) + 1)
      /\ Len(made) \in Nat /\ Len(made') = Len(made) + 1
      /\ made'[Len(made) + 1] = leaves
      /\ \A b \in DOMAIN made : made'[b] = made[b]
      BY <1>1
<1>3. \A b \in Full : b \in Full' /\ made'[b] = made[b]
      BY <1>2 DEF Full
<1>4. {MerkleRoot(made[b]) : b \in Full} \subseteq {MerkleRoot(made'[b]) : b \in Full'}
      BY <1>3
<1>5. Len(leaves) = BatchSize => Len(made') \in Full'
      BY <1>2 DEF Full
<1> HIDE DEF Full
<1> QED BY <1>3, <1>4, <1>5 DEF FullAnchor

\* A step of the client that makes no batch and sends none.
LEMMA NoBatch ==
    ASSUME OnlyFullBatches, UNCHANGED <<pending, made, batchLog>>,
           pool' = pool \/ pool'.type # "batch"
    PROVE  OnlyFullBatches'
<1>1. Full' = Full
      BY DEF Full
<1>2. FullAnchor' = FullAnchor
      BY <1>1 DEF FullAnchor
<1> QED BY <1>1, <1>2 DEF OnlyFullBatches, CanHash

\* A batch is made of leaves that fill it, or is sent with a count of zero.
LEMMA BatchMade ==
    ASSUME BatchInvariant, UNCHANGED batchLog, pending' = <<>>,
           NEW leaves \in Seq(Leaves), NEW count \in Nat, AnchorBatchOnChain(leaves, count),
           count > 0 => count = BatchSize /\ Len(leaves) = BatchSize
    PROVE  OnlyFullBatches'
<1>1. /\ TypeOK /\ OnlyFullBatches
      /\ made' = Append(made, leaves)
      /\ \/ UNCHANGED pool
         \/ pool' = [type |-> "batch", what |-> Len(made'), count |-> count]
      BY DEF BatchInvariant, AnchorBatchOnChain, Send
<1>2. /\ Full \subseteq Full' /\ FullAnchor \subseteq FullAnchor'
      /\ Len(leaves) = BatchSize => Len(made') \in Full'
      BY <1>1, MadeGrows
<1>3. Len(pending') < BatchSize
  <2>1. Len(pending') = 0 /\ BatchSize \in Nat \ {0}
        BY BlockchainAnchorAssumption
  <2> QED BY <2>1
<1>4. pool'.type = "batch" /\ pool'.count > 0 =>
          pool'.what \in Full' /\ pool'.count = BatchSize
      BY <1>1, <1>2 DEF OnlyFullBatches
<1>5. batchLog' \in [Contract!IdentityId -> Seq(FullAnchor')]
  <2>1. \A S, T : S \subseteq T => Seq(S) \subseteq Seq(T)
        OBVIOUS
  <2>2. Seq(FullAnchor) \subseteq Seq(FullAnchor')
        BY <1>2, <2>1
  <2> QED BY <1>1, <2>2 DEF OnlyFullBatches
<1> QED BY <1>3, <1>4, <1>5 DEF OnlyFullBatches

\* Hashes that can be hashed could be without the last one.
LEMMA CouldHash ==
    ASSUME pending \in Seq(Leaves), NEW h \in Leaves, CanHash(Append(pending, h))
    PROVE  CanHash(pending)
<1>1. \A i \in DOMAIN pending : /\ i \in DOMAIN Append(pending, h)
                                /\ Append(pending, h)[i] = pending[i]
      OBVIOUS
<1> DEFINE leaves == Append(pending, h)
<1> HIDE DEF leaves
<1>2. ToSet(pending) \subseteq ToSet(leaves)
      BY <1>1 DEF leaves, ToSet
<1>3. CanHash(leaves)
      BY DEF leaves
<1> QED BY <1>2, <1>3 DEF CanHash

\* The node includes what it holds; the contract refuses a count of zero.
LEMMA BatchMined ==
    ASSUME BatchInvariant, Mine
    PROVE  OnlyFullBatches'
<1>1. /\ OnlyFullBatches /\ UNCHANGED <<pending, made>>
      /\ pool' = NoTransaction
      BY DEF BatchInvariant, Mine, client
<1>2. Full' = Full /\ FullAnchor' = FullAnchor
  <2>1. Full' = Full
        BY <1>1 DEF Full
  <2> QED BY <1>1, <2>1 DEF FullAnchor
<1>3. pool'.type = "none"
      BY <1>1 DEF NoTransaction
<1>4. batchLog' \in [Contract!IdentityId -> Seq(FullAnchor)]
  <2>1. CASE UNCHANGED batchLog
        BY <1>1, <2>1 DEF OnlyFullBatches
  <2>2. CASE ~UNCHANGED batchLog
    <3> DEFINE anchor == [merkleRoot |-> MerkleRoot(made[pool.what]),
                          memoryCount |-> pool.count, timestamp |-> 0]
    <3>1. /\ pool.type = "batch"
          /\ Contract!AnchorBatch(Guardian, Id, MerkleRoot(made[pool.what]), pool.count)
          BY <2>2 DEF Mine, chain
    <3>2. pool.count > 0 /\ batchLog' = [batchLog EXCEPT ![Id] = Append(@, anchor)]
          BY <3>1 DEF Contract!AnchorBatch
    <3>3. pool.what \in Full /\ pool.count = BatchSize
          BY <1>1, <3>1, <3>2 DEF OnlyFullBatches
    <3>4. anchor \in FullAnchor
          BY <3>3 DEF FullAnchor
    <3> HIDE DEF anchor
    <3>5. Id \in Contract!IdentityId
          BY DEF Id, Contract!ComputeIdentityId, Contract!IdentityId
    <3>6. Append(batchLog[Id], anchor) \in Seq(FullAnchor)
      <4>1. batchLog[Id] \in Seq(FullAnchor)
            BY <1>1, <3>5 DEF OnlyFullBatches
      <4>2. \A S : \A p \in Seq(S), e \in S : Append(p, e) \in Seq(S)
            OBVIOUS
      <4> QED BY <3>4, <4>1, <4>2
    <3> QED BY <1>1, <3>2, <3>5, <3>6 DEF OnlyFullBatches
  <2> QED BY <2>1, <2>2
<1> QED BY <1>1, <1>2, <1>3, <1>4 DEF OnlyFullBatches, CanHash

LEMMA BatchInductive == BatchInvariant /\ [Next]_vars => BatchInvariant'
<1> SUFFICES ASSUME BatchInvariant, [Next]_vars
             PROVE  OnlyFullBatches'
    BY TypeInductive DEF BatchInvariant
<1>0. /\ TypeOK /\ OnlyFullBatches
      /\ pending \in Seq(Leaves) /\ BatchSize \in Nat \ {0}
      BY BlockchainAnchorAssumption DEF BatchInvariant, TypeOK
<1> USE DEF client, counts, faults, chain
<1>1. CASE UNCHANGED vars
      BY <1>0, <1>1, NoBatch DEF vars
<1>a. ASSUME NEW r \in Request, NEW added, NEW sent \in BOOLEAN,
             AnchorMemoryHash(r, added, sent)
      PROVE  pool' = pool \/ pool'.type # "batch"
  <2>1. UNCHANGED pool \/ Send([type |-> "log", what |-> r], sent)
        BY <1>a DEF AnchorMemoryHash
  <2> QED BY <2>1 DEF Send
<1>2. ASSUME NEW r \in Request, Anchor(r) PROVE OnlyFullBatches'
  <2>1. pool' = pool \/ pool'.type # "batch"
        BY <1>2, <1>a DEF Anchor
  <2> QED BY <1>0, <1>2, <2>1, NoBatch DEF Anchor
<1>3. CASE HealthCheck \/ BeginRetry \/ PassOver \/ EndRetry
      BY <1>0, <1>3, NoBatch DEF HealthCheck, BeginRetry, PassOver, EndRetry
<1>4. CASE RetryOne
  <2>1. Current.what \in Request
        BY <1>0, <1>4, CurrentType DEF RetryOne, Retriable, Operation
  <2>2. pool' = pool \/ pool'.type # "batch"
        BY <1>4, <1>a, <2>1 DEF RetryOne
  <2> QED BY <1>0, <1>4, <2>2, NoBatch DEF RetryOne
<1>5. ASSUME NEW h \in Leaves, AnchorMemoryBatched(h)
      PROVE  OnlyFullBatches'
  <2> DEFINE leaves == Append(pending, h)
  <2>1. leaves \in Seq(Leaves) /\ Len(leaves) = Len(pending) + 1 /\ Len(pending) \in Nat
        BY <1>0
  <2>2. CanHash(leaves) => CanHash(pending)
        BY <1>0, CouldHash
  <2>3. /\ UNCHANGED batchLog
        /\ \/ /\ Len(leaves) >= BatchSize /\ CanHash(leaves)
              /\ pending' = <<>> /\ AnchorBatchOnChain(leaves, BatchSize)
           \/ /\ ~(Len(leaves) >= BatchSize /\ CanHash(leaves))
              /\ pending' = leaves /\ UNCHANGED <<pool, made>>
        BY <1>5 DEF AnchorMemoryBatched
  <2> HIDE DEF leaves
  <2>4. CASE pending' = <<>> /\ AnchorBatchOnChain(leaves, BatchSize)
                             /\ Len(leaves) >= BatchSize /\ CanHash(leaves)
    <3>1. Len(leaves) = BatchSize
          BY <1>0, <2>1, <2>2, <2>4 DEF OnlyFullBatches
    <3> QED BY <1>0, <2>1, <2>3, <2>4, <3>1, BatchMade
  <2>5. CASE /\ ~(Len(leaves) >= BatchSize /\ CanHash(leaves))
             /\ pending' = leaves /\ UNCHANGED <<pool, made>>
    <3>1. CanHash(leaves) => Len(leaves) < BatchSize
          BY <1>0, <2>1, <2>5
    <3>2. Full' = Full
          BY <2>5 DEF Full
    <3>3. FullAnchor' = FullAnchor
          BY <2>5, <3>2 DEF FullAnchor
    <3>4. CanHash(pending)' => Len(pending') < BatchSize
          BY <2>5, <3>1 DEF CanHash
    <3> QED BY <1>0, <2>3, <2>5, <3>2, <3>3, <3>4 DEF OnlyFullBatches
  <2> QED BY <2>3, <2>4, <2>5
<1>6. CASE FlushBatch
  <2>1. /\ pending' = <<>> /\ AnchorBatchOnChain(pending, 0)
        /\ UNCHANGED batchLog
        BY <1>6 DEF FlushBatch, FlushedCount
  <2> QED BY <1>0, <2>1, BatchMade
<1>7. CASE Mine
      BY <1>7, BatchMined
<1>8. CASE Administer
  <2>1. UNCHANGED batchLog
        BY <1>8 DEF Administer, Contract!RegisterIdentity, Contract!FreezeIdentity,
                    Contract!UnfreezeIdentity, Contract!logs
  <2> QED BY <1>0, <1>8, <2>1, NoBatch DEF Administer
<1>9. CASE Restart
  <2>1. /\ pending' = <<>> /\ Len(pending') = 0
        /\ UNCHANGED <<pool, made, batchLog>>
        BY <1>9 DEF Restart
  <2>2. Full' = Full
        BY <2>1 DEF Full
  <2>3. FullAnchor' = FullAnchor
        BY <2>1, <2>2 DEF FullAnchor
  <2> QED BY <1>0, <2>1, <2>2, <2>3 DEF OnlyFullBatches
<1> QED BY <1>1, <1>2, <1>3, <1>4, <1>5, <1>6, <1>7, <1>8, <1>9 DEF Next, Retry

\* The contract records a batch only with the number of its leaves, and that is the
\* size of a batch, so one root never stands for two numbers
\* (blockchain_anchor.py:445-469, ImmortalMind.sol:387).
THEOREM RecordedBatchesAreFull == Spec => []BatchesTellTheirLeaves
<1>1. BatchInvariant => BatchesTellTheirLeaves
  <2> SUFFICES ASSUME OnlyFullBatches, NEW i \in DOMAIN batchLog[Id]
               PROVE  /\ \E b \in DOMAIN made :
                            /\ MerkleRoot(made[b]) = batchLog[Id][i].merkleRoot
                            /\ Len(made[b]) = batchLog[Id][i].memoryCount
                      /\ batchLog[Id][i].memoryCount = BatchSize
      BY DEF BatchInvariant, BatchesTellTheirLeaves
  <2>1. Id \in Contract!IdentityId
        BY DEF Id, Contract!ComputeIdentityId, Contract!IdentityId
  <2>2. batchLog[Id] \in Seq(FullAnchor)
        BY <2>1 DEF OnlyFullBatches
  <2>3. batchLog[Id][i] \in FullAnchor
        BY <2>2
  <2> QED BY <2>3 DEF FullAnchor, Full
<1> QED BY <1>1, BatchInit, BatchInductive, PTL DEF Spec

=============================================================================
