------------------------ MODULE ImmortalMind_proofs ------------------------
(***************************************************************************)
(* Proofs about the contract, for every set of addresses, salts, hashes,   *)
(* models and numbers, and for every bound on transactions and time.       *)
(***************************************************************************)
EXTENDS ImmortalMind, FiniteSetTheorems, SequenceTheorems, TLAPS

-----------------------------------------------------------------------------
(* Type correctness *)

LEMMA EmitType ==
    ASSUME events \in Seq(Event), now \in Time,
           NEW sender \in Address, NEW name \in EventName, NEW id \in IdentityId,
           NEW what \in Hash \cup {NoHash} \cup Model \cup Number,
           Emit(sender, name, id, what)
    PROVE  events' \in Seq(Event) /\ msg_sender' \in Address /\ now' \in Time
<1>1. [name |-> name, id |-> id, what |-> what] \in Event
    BY DEF Event
<1>. QED
    BY <1>1 DEF Emit

LEMMA TouchType ==
    ASSUME identities \in [IdentityId -> Identity], now \in Time,
           NEW id \in IdentityId, NEW identity \in Identity, Touch(id, identity)
    PROVE  identities' \in [IdentityId -> Identity]
<1>1. [identity EXCEPT !.lastUpdate = now] \in Identity
    BY DEF Identity
<1>. QED
    BY <1>1 DEF Touch

LEMMA RegisterType ==
    ASSUME TypeOK, NEW sender \in Address, NEW salt \in Salt, NEW model \in Model,
           RegisterIdentity(sender, salt, model)
    PROVE  TypeOK'
<1>. DEFINE id == ComputeIdentityId(sender, salt)
<1>1. id \in IdentityId
    BY DEF ComputeIdentityId, IdentityId
<1>2. [modelFingerprint |-> model, creationTime |-> now, lastUpdate |-> now,
       guardian |-> sender, latest |-> NoHash, exists |-> TRUE,
       isFrozen |-> FALSE, genesisHash |-> NoHash] \in Identity
    BY DEF TypeOK, Identity
<1>3. identities' \in [IdentityId -> Identity]
    BY <1>1, <1>2, TouchType DEF TypeOK, RegisterIdentity
<1>4. registeredIdentities' \in Seq(IdentityId)
    BY <1>1 DEF TypeOK, RegisterIdentity
<1>5. Emit(sender, "IdentityRegistered", id, model)
    BY DEF RegisterIdentity
<1>6. events' \in Seq(Event) /\ msg_sender' \in Address /\ now' \in Time
    BY <1>1, <1>5, EmitType DEF TypeOK, EventName
<1>. QED
    BY <1>3, <1>4, <1>6 DEF TypeOK, RegisterIdentity, logs

LEMMA TransactionType ==
    ASSUME TypeOK, NEW sender \in Address, NEW id \in IdentityId, Transaction(sender, id)
    PROVE  TypeOK'
<1>. USE DEF TypeOK
<1>1. ASSUME NEW model \in Model, MigrateModel(sender, id, model)
      PROVE  TypeOK'
    <2>0. [identities[id] EXCEPT !.modelFingerprint = model] \in Identity
        BY DEF Identity
    <2>1. identities' \in [IdentityId -> Identity]
        BY <1>1, <2>0, TouchType DEF MigrateModel
    <2>2. events' \in Seq(Event) /\ msg_sender' \in Address /\ now' \in Time
        BY <1>1, EmitType DEF MigrateModel, EventName
    <2>. QED
        BY <1>1, <2>1, <2>2 DEF MigrateModel, logs
<1>2. ASSUME NEW h \in Hash, NEW salience \in Number, NEW entrenchment \in Number,
             AnchorMemory(sender, id, h, salience, entrenchment)
      PROVE  TypeOK'
    <2>1. identities' \in [IdentityId -> Identity]
        BY <1>2, TouchType DEF AnchorMemory
    <2>2. events' \in Seq(Event) /\ msg_sender' \in Address /\ now' \in Time
        BY <1>2, EmitType DEF AnchorMemory, EventName
    <2>3. [contentHash |-> h, timestamp |-> now, salienceScore |-> salience,
           entrenchmentLevel |-> entrenchment] \in MemoryAnchor
        BY <1>2 DEF AnchorMemory, MemoryAnchor, Score, ValidScore
    <2>4. memoryLog' \in [IdentityId -> Seq(MemoryAnchor)]
        BY <1>2, <2>3 DEF AnchorMemory
    <2>. QED
        BY <1>2, <2>1, <2>2, <2>4 DEF AnchorMemory
<1>3. ASSUME NEW h \in Hash, NEW count \in Number, AnchorBatch(sender, id, h, count)
      PROVE  TypeOK'
    <2>1. identities' \in [IdentityId -> Identity]
        BY <1>3, TouchType DEF AnchorBatch
    <2>2. events' \in Seq(Event) /\ msg_sender' \in Address /\ now' \in Time
        BY <1>3, EmitType DEF AnchorBatch, EventName
    <2>3. [merkleRoot |-> h, memoryCount |-> count, timestamp |-> now] \in BatchAnchor
        BY <1>3 DEF AnchorBatch, BatchAnchor
    <2>4. batchLog' \in [IdentityId -> Seq(BatchAnchor)]
        BY <1>3, <2>3 DEF AnchorBatch
    <2>. QED
        BY <1>3, <2>1, <2>2, <2>4 DEF AnchorBatch
<1>4. ASSUME NEW h \in Hash, AnchorSnapshot(sender, id, h)
      PROVE  TypeOK'
    <2>0. [identities[id] EXCEPT !.latest = h] \in Identity
        BY DEF Identity
    <2>1. identities' \in [IdentityId -> Identity]
        BY <1>4, <2>0, TouchType DEF AnchorSnapshot
    <2>2. events' \in Seq(Event) /\ msg_sender' \in Address /\ now' \in Time
        BY <1>4, EmitType DEF AnchorSnapshot, EventName
    <2>. QED
        BY <1>4, <2>1, <2>2 DEF AnchorSnapshot, logs
<1>5. ASSUME NEW h \in Hash, LogBeliefCrisis(sender, id, h)
      PROVE  TypeOK'
    <2>1. events' \in Seq(Event) /\ msg_sender' \in Address /\ now' \in Time
        BY <1>5, EmitType DEF LogBeliefCrisis, EventName
    <2>. QED
        BY <1>5, <2>1 DEF LogBeliefCrisis, logs
<1>6. ASSUME NEW h \in Hash, ResolveBeliefCrisis(sender, id, h)
      PROVE  TypeOK'
    <2>1. events' \in Seq(Event) /\ msg_sender' \in Address /\ now' \in Time
        BY <1>6, EmitType DEF ResolveBeliefCrisis, EventName
    <2>2. [memoryKey |-> h, contradictionCount |-> 0, timestamp |-> now] \in CrisisLog
        BY DEF CrisisLog
    <2>3. crisisLog' \in [IdentityId -> Seq(CrisisLog)]
        BY <1>6, <2>2 DEF ResolveBeliefCrisis
    <2>. QED
        BY <1>6, <2>1, <2>3 DEF ResolveBeliefCrisis
<1>7. ASSUME NEW h \in Hash, FreezeIdentity(sender, id, h)
      PROVE  TypeOK'
    <2>0. [identities[id] EXCEPT !.isFrozen = TRUE, !.genesisHash = h] \in Identity
        BY DEF Identity
    <2>1. identities' \in [IdentityId -> Identity]
        BY <1>7, <2>0, TouchType DEF FreezeIdentity
    <2>2. events' \in Seq(Event) /\ msg_sender' \in Address /\ now' \in Time
        BY <1>7, EmitType DEF FreezeIdentity, EventName
    <2>. QED
        BY <1>7, <2>1, <2>2 DEF FreezeIdentity, logs
<1>8. ASSUME UnfreezeIdentity(sender, id)
      PROVE  TypeOK'
    <2>0. [identities[id] EXCEPT !.isFrozen = FALSE] \in Identity
        BY DEF Identity
    <2>1. identities' \in [IdentityId -> Identity]
        BY <1>8, <2>0, TouchType DEF UnfreezeIdentity
    <2>2. events' \in Seq(Event) /\ msg_sender' \in Address /\ now' \in Time
        BY <1>8, EmitType DEF UnfreezeIdentity, EventName
    <2>. QED
        BY <1>8, <2>1, <2>2 DEF UnfreezeIdentity, logs
<1>9. ASSUME NEW n \in Number, UpdateCharacterStrength(sender, id, n)
      PROVE  TypeOK'
    <2>1. events' \in Seq(Event) /\ msg_sender' \in Address /\ now' \in Time
        BY <1>9, EmitType DEF UpdateCharacterStrength, EventName
    <2>2. characterStrength' \in [IdentityId -> Number \cup {0}]
        BY <1>9 DEF UpdateCharacterStrength
    <2>. QED
        BY <1>9, <2>1, <2>2 DEF UpdateCharacterStrength, logs
<1>10. ASSUME NEW n \in Number, LogGarbageCollection(sender, id, n)
       PROVE  TypeOK'
    <2>1. events' \in Seq(Event) /\ msg_sender' \in Address /\ now' \in Time
        BY <1>10, EmitType DEF LogGarbageCollection, EventName
    <2>. QED
        BY <1>10, <2>1 DEF LogGarbageCollection, logs
<1>. QED
    BY <1>1, <1>2, <1>3, <1>4, <1>5, <1>6, <1>7, <1>8, <1>9, <1>10 DEF Transaction

\* Every reachable state of the contract is well typed; in particular scores
\* in the log are at most 100 and no batch is empty.
THEOREM TypeCorrect == Spec => []TypeOK
<1>1. Init => TypeOK
    BY ImmortalMindAssumption DEF Init, TypeOK, Time, Identity, Unregistered
<1>2. TypeOK /\ [Next]_vars => TypeOK'
    <2>. SUFFICES ASSUME TypeOK, [Next]_vars PROVE TypeOK'
        OBVIOUS
    <2>1. CASE NextBlock
        BY <2>1, ImmortalMindAssumption DEF NextBlock, TypeOK, Time, logs
    <2>2. CASE UNCHANGED vars
        BY <2>2 DEF TypeOK, vars, logs
    <2>. QED
        BY <2>1, <2>2, RegisterType, TransactionType DEF Next
<1>. QED
    BY <1>1, <1>2, PTL DEF Spec

-----------------------------------------------------------------------------
(* Who owns what *)

\* An identity that was never registered is zero in every field.
UnwrittenIsZero ==
    \A id \in IdentityId : ~identities[id].exists => identities[id] = Unregistered

Ownership == TypeOK /\ NobodyTakesAnothersId /\ UnwrittenIsZero

\* What one transaction of a guardian can do to the identities and the two logs.
LEMMA TouchKeeps ==
    ASSUME TypeOK, NEW id \in IdentityId, NEW r \in Identity, Touch(id, r),
           r.guardian = identities[id].guardian, r.exists = identities[id].exists
    PROVE  /\ \A i \in IdentityId : /\ identities'[i].guardian = identities[i].guardian
                                    /\ identities'[i].exists = identities[i].exists
                                    /\ i # id => identities'[i] = identities[i]
           /\ \A i \in IdentityId : identities'[i].isFrozen =
                  IF i = id THEN r.isFrozen ELSE identities[i].isFrozen
BY DEF TypeOK, Touch, Identity

Stays(id) ==
    /\ \A i \in IdentityId : /\ identities'[i].guardian = identities[i].guardian
                             /\ identities'[i].exists = identities[i].exists
    /\ \A i \in IdentityId \ {id} :
           /\ identities'[i] = identities[i]
           /\ memoryLog'[i] = memoryLog[i]
           /\ crisisLog'[i] = crisisLog[i]
           /\ batchLog'[i] = batchLog[i]
           /\ characterStrength'[i] = characterStrength[i]

Quiet == UNCHANGED <<memoryLog, batchLog>>
             /\ \A i \in IdentityId : identities'[i].isFrozen = identities[i].isFrozen
Grows(id) ==
    /\ ~identities[id].isFrozen
    /\ \A i \in IdentityId : identities'[i].isFrozen = identities[i].isFrozen
    /\ \/ /\ UNCHANGED batchLog
          /\ \E a \in MemoryAnchor : memoryLog' = [memoryLog EXCEPT ![id] = Append(@, a)]
       \/ /\ UNCHANGED memoryLog
          /\ \E a \in BatchAnchor : batchLog' = [batchLog EXCEPT ![id] = Append(@, a)]
Toggles(id) ==
    /\ UNCHANGED <<memoryLog, batchLog>>
    /\ \A i \in IdentityId : identities'[i].isFrozen =
           IF i = id THEN ~identities[i].isFrozen ELSE identities[i].isFrozen

LEMMA TransactionEffect ==
    ASSUME TypeOK, NEW sender \in Address, NEW id \in IdentityId, Transaction(sender, id)
    PROVE  /\ OnlyGuardian(sender, id)
           /\ msg_sender' = sender
           /\ registeredIdentities' = registeredIdentities
           /\ Stays(id)
           /\ Quiet \/ Grows(id) \/ Toggles(id)
<1>. DEFINE Goal == /\ OnlyGuardian(sender, id)
                    /\ msg_sender' = sender
                    /\ registeredIdentities' = registeredIdentities
                    /\ Stays(id)
                    /\ Quiet \/ Grows(id) \/ Toggles(id)
<1>0. identities[id] \in Identity
    BY DEF TypeOK
<1>1. ASSUME NEW model \in Model, MigrateModel(sender, id, model)
      PROVE  Goal
    <2>1. [identities[id] EXCEPT !.modelFingerprint = model] \in Identity
        BY <1>0 DEF Identity
    <2>. QED
        BY <1>0, <1>1, <2>1, TouchKeeps DEF MigrateModel, Emit, Stays, Quiet, logs, Identity
<1>2. ASSUME NEW h \in Hash, NEW salience \in Number, NEW entrenchment \in Number,
             AnchorMemory(sender, id, h, salience, entrenchment)
      PROVE  Goal
    <2>1. [contentHash |-> h, timestamp |-> now, salienceScore |-> salience,
           entrenchmentLevel |-> entrenchment] \in MemoryAnchor
        BY <1>2 DEF AnchorMemory, MemoryAnchor, Score, ValidScore, TypeOK
    <2>2. /\ \A i \in IdentityId : /\ identities'[i].guardian = identities[i].guardian
                                   /\ identities'[i].exists = identities[i].exists
                                   /\ i # id => identities'[i] = identities[i]
          /\ \A i \in IdentityId : identities'[i].isFrozen = identities[i].isFrozen
        BY <1>0, <1>2, TouchKeeps DEF AnchorMemory
    <2>3. Grows(id)
        BY <1>2, <2>1, <2>2 DEF AnchorMemory, Grows, NotFrozen
    <2>4. Stays(id)
        BY <1>2, <2>2 DEF AnchorMemory, Stays, TypeOK
    <2>. QED
        BY <1>2, <2>3, <2>4 DEF AnchorMemory, Emit
<1>3. ASSUME NEW h \in Hash, NEW count \in Number, AnchorBatch(sender, id, h, count)
      PROVE  Goal
    <2>1. [merkleRoot |-> h, memoryCount |-> count, timestamp |-> now] \in BatchAnchor
        BY <1>3 DEF AnchorBatch, BatchAnchor, TypeOK
    <2>2. /\ \A i \in IdentityId : /\ identities'[i].guardian = identities[i].guardian
                                   /\ identities'[i].exists = identities[i].exists
                                   /\ i # id => identities'[i] = identities[i]
          /\ \A i \in IdentityId : identities'[i].isFrozen = identities[i].isFrozen
        BY <1>0, <1>3, TouchKeeps DEF AnchorBatch
    <2>3. Grows(id)
        BY <1>3, <2>1, <2>2 DEF AnchorBatch, Grows, NotFrozen
    <2>4. Stays(id)
        BY <1>3, <2>2 DEF AnchorBatch, Stays, TypeOK
    <2>. QED
        BY <1>3, <2>3, <2>4 DEF AnchorBatch, Emit
<1>4. ASSUME NEW h \in Hash, AnchorSnapshot(sender, id, h)
      PROVE  Goal
    <2>1. [identities[id] EXCEPT !.latest = h] \in Identity
        BY <1>0 DEF Identity
    <2>. QED
        BY <1>0, <1>4, <2>1, TouchKeeps DEF AnchorSnapshot, Emit, Stays, Quiet, logs, Identity
<1>5. ASSUME NEW h \in Hash, LogBeliefCrisis(sender, id, h)
      PROVE  Goal
    BY <1>5 DEF LogBeliefCrisis, Emit, Stays, Quiet, logs
<1>6. ASSUME NEW h \in Hash, ResolveBeliefCrisis(sender, id, h)
      PROVE  Goal
    BY <1>6 DEF ResolveBeliefCrisis, Emit, Stays, Quiet, TypeOK
<1>7. ASSUME NEW h \in Hash, FreezeIdentity(sender, id, h)
      PROVE  Goal
    <2>1. [identities[id] EXCEPT !.isFrozen = TRUE, !.genesisHash = h] \in Identity
        BY <1>0 DEF Identity
    <2>. QED
        BY <1>0, <1>7, <2>1, TouchKeeps DEF FreezeIdentity, Emit, Stays, Toggles, logs, Identity
<1>8. ASSUME UnfreezeIdentity(sender, id)
      PROVE  Goal
    <2>1. [identities[id] EXCEPT !.isFrozen = FALSE] \in Identity
        BY <1>0 DEF Identity
    <2>. QED
        BY <1>0, <1>8, <2>1, TouchKeeps DEF UnfreezeIdentity, Emit, Stays, Toggles, logs, Identity
<1>9. ASSUME NEW n \in Number, UpdateCharacterStrength(sender, id, n)
      PROVE  Goal
    BY <1>9 DEF UpdateCharacterStrength, Emit, Stays, Quiet, logs, TypeOK
<1>10. ASSUME NEW n \in Number, LogGarbageCollection(sender, id, n)
       PROVE  Goal
    BY <1>10 DEF LogGarbageCollection, Emit, Stays, Quiet, logs
<1>. QED
    BY <1>1, <1>2, <1>3, <1>4, <1>5, <1>6, <1>7, <1>8, <1>9, <1>10 DEF Transaction

\* What a registration does: one unwritten identity gets its guardian.
LEMMA RegisterEffect ==
    ASSUME TypeOK, NEW sender \in Address, NEW salt \in Salt, NEW model \in Model,
           RegisterIdentity(sender, salt, model)
    PROVE  \E id \in IdentityId :
               /\ id.guardian = sender
               /\ ~identities[id].exists
               /\ identities'[id].exists
               /\ identities'[id].guardian = sender
               /\ ~identities'[id].isFrozen
               /\ \A i \in IdentityId \ {id} : identities'[i] = identities[i]
               /\ registeredIdentities' = Append(registeredIdentities, id)
               /\ UNCHANGED <<logs, characterStrength>>
               /\ msg_sender' = sender
<1>. DEFINE id == ComputeIdentityId(sender, salt)
<1>1. id \in IdentityId /\ id.guardian = sender
    BY DEF ComputeIdentityId, IdentityId
<1>2. /\ ~identities[id].exists
      /\ identities'[id].exists
      /\ identities'[id].guardian = sender
      /\ ~identities'[id].isFrozen
      /\ \A i \in IdentityId \ {id} : identities'[i] = identities[i]
      /\ registeredIdentities' = Append(registeredIdentities, id)
      /\ UNCHANGED <<logs, characterStrength>>
      /\ msg_sender' = sender
    BY <1>1 DEF RegisterIdentity, Available, Touch, Emit, TypeOK
<1>. QED
    BY <1>1, <1>2

\* Ownership is inductive with the zeroes of the identities still unwritten.
LEMMA OwnershipInvariant == Spec => []Ownership
<1>1. Init => NobodyTakesAnothersId /\ UnwrittenIsZero
    BY DEF Init, NobodyTakesAnothersId, UnwrittenIsZero, Unregistered
<1>2. TypeOK /\ NobodyTakesAnothersId /\ UnwrittenIsZero /\ [Next]_vars
          => NobodyTakesAnothersId' /\ UnwrittenIsZero'
    <2>. SUFFICES ASSUME TypeOK, NobodyTakesAnothersId, UnwrittenIsZero, [Next]_vars
                  PROVE  NobodyTakesAnothersId' /\ UnwrittenIsZero'
        OBVIOUS
    <2>1. ASSUME NEW sender \in Address, NEW salt \in Salt, NEW model \in Model,
                 RegisterIdentity(sender, salt, model)
          PROVE  NobodyTakesAnothersId' /\ UnwrittenIsZero'
        BY <2>1, RegisterEffect DEF NobodyTakesAnothersId, UnwrittenIsZero
    <2>2. ASSUME NEW sender \in Address, NEW id \in IdentityId, Transaction(sender, id)
          PROVE  NobodyTakesAnothersId' /\ UnwrittenIsZero'
        BY <2>2, TransactionEffect
           DEF NobodyTakesAnothersId, UnwrittenIsZero, Stays, OnlyGuardian
    <2>3. CASE NextBlock
        BY <2>3 DEF NextBlock, NobodyTakesAnothersId, UnwrittenIsZero
    <2>4. CASE UNCHANGED vars
        BY <2>4 DEF vars, NobodyTakesAnothersId, UnwrittenIsZero
    <2>. QED
        BY <2>1, <2>2, <2>3, <2>4 DEF Next
<1>. QED
    BY <1>1, <1>2, TypeCorrect, PTL DEF Spec, Ownership

\* No identity ever belongs to an address other than the one its id names.
THEOREM OwnershipHolds == Spec => []NobodyTakesAnothersId
BY OwnershipInvariant, PTL DEF Ownership

\* The list of registered identities names every existing identity once.
THEOREM RegistrationIsUnique == Spec => []RegisteredOnce
<1>1. Init => RegisteredOnce
    BY DEF Init, RegisteredOnce, Unregistered
<1>2. TypeOK /\ RegisteredOnce /\ [Next]_vars => RegisteredOnce'
    <2>. SUFFICES ASSUME TypeOK, RegisteredOnce, [Next]_vars PROVE RegisteredOnce'
        OBVIOUS
    <2>1. ASSUME NEW sender \in Address, NEW salt \in Salt, NEW model \in Model,
                 RegisterIdentity(sender, salt, model)
          PROVE  RegisteredOnce'
        <3>1. PICK id \in IdentityId :
                  /\ ~identities[id].exists
                  /\ identities'[id].exists
                  /\ \A i \in IdentityId \ {id} : identities'[i] = identities[i]
                  /\ registeredIdentities' = Append(registeredIdentities, id)
            BY <2>1, RegisterEffect
        <3>2. /\ DOMAIN registeredIdentities = 1 .. Len(registeredIdentities)
              /\ Len(registeredIdentities) \in Nat
              /\ DOMAIN registeredIdentities' = 1 .. Len(registeredIdentities) + 1
              /\ \A i \in DOMAIN registeredIdentities :
                     registeredIdentities'[i] = registeredIdentities[i]
              /\ registeredIdentities'[Len(registeredIdentities) + 1] = id
            BY <3>1 DEF TypeOK
        <3>. QED
            BY <3>1, <3>2 DEF RegisteredOnce
    <2>2. ASSUME NEW sender \in Address, NEW id \in IdentityId, Transaction(sender, id)
          PROVE  RegisteredOnce'
        BY <2>2, TransactionEffect DEF RegisteredOnce, Stays
    <2>3. CASE NextBlock
        BY <2>3 DEF NextBlock, RegisteredOnce
    <2>4. CASE UNCHANGED vars
        BY <2>4 DEF vars, RegisteredOnce
    <2>. QED
        BY <2>1, <2>2, <2>3, <2>4 DEF Next
<1>. QED
    BY <1>1, <1>2, TypeCorrect, PTL DEF Spec

\* Whatever changes for an identity changes in a transaction of its guardian.
THEOREM GuardianWrites == Spec => OnlyTheGuardianWrites
<1>1. TypeOK /\ [Next]_vars =>
          [\A id \in IdentityId :
              <<identities[id], memoryLog[id], crisisLog[id], batchLog[id],
                characterStrength[id]>>' #
              <<identities[id], memoryLog[id], crisisLog[id], batchLog[id],
                characterStrength[id]>>
              => msg_sender' = identities'[id].guardian]_vars
    <2>. SUFFICES ASSUME TypeOK, Next, NEW id \in IdentityId,
                         <<identities[id], memoryLog[id], crisisLog[id], batchLog[id],
                           characterStrength[id]>>' #
                         <<identities[id], memoryLog[id], crisisLog[id], batchLog[id],
                           characterStrength[id]>>
                  PROVE  msg_sender' = identities'[id].guardian
        OBVIOUS
    <2>1. ASSUME NEW sender \in Address, NEW salt \in Salt, NEW model \in Model,
                 RegisterIdentity(sender, salt, model)
          PROVE  msg_sender' = identities'[id].guardian
        BY <2>1, RegisterEffect DEF logs
    <2>2. ASSUME NEW sender \in Address, NEW of \in IdentityId, Transaction(sender, of)
          PROVE  msg_sender' = identities'[id].guardian
        BY <2>2, TransactionEffect DEF Stays, OnlyGuardian
    <2>3. ~NextBlock
        BY DEF NextBlock, logs
    <2>. QED
        BY <2>1, <2>2, <2>3 DEF Next
<1>. QED
    BY <1>1, TypeCorrect, PTL DEF Spec, OnlyTheGuardianWrites

-----------------------------------------------------------------------------
(* Time: the log of an identity is in the order of its time stamps. *)

\* No time stamp is ahead of the last update, nor that of the clock.
Chronology ==
    \A id \in IdentityId :
        /\ identities[id].lastUpdate <= now
        /\ \A j \in DOMAIN memoryLog[id] :
               /\ memoryLog[id][j].timestamp <= identities[id].lastUpdate
               /\ \A i \in 1 .. j : memoryLog[id][i].timestamp <= memoryLog[id][j].timestamp

\* All a step can do to the times of an identity: it is left alone, touched,
\* or touched while an anchor of this moment is appended.
TouchedAt(id) ==
    \/ identities'[id].lastUpdate = identities[id].lastUpdate /\ memoryLog'[id] = memoryLog[id]
    \/ identities'[id].lastUpdate = now /\ memoryLog'[id] = memoryLog[id]
    \/ /\ identities'[id].lastUpdate = now
       /\ \E a \in MemoryAnchor :
              a.timestamp = now /\ memoryLog'[id] = Append(memoryLog[id], a)

LEMMA TouchTime ==
    ASSUME TypeOK, NEW id \in IdentityId, NEW r \in Identity, Touch(id, r)
    PROVE  /\ identities'[id].lastUpdate = now
           /\ \A i \in IdentityId \ {id} : identities'[i] = identities[i]
BY DEF TypeOK, Touch, Identity

LEMMA TransactionTime ==
    ASSUME TypeOK, NEW sender \in Address, NEW of \in IdentityId, Transaction(sender, of)
    PROVE  now' = now /\ \A id \in IdentityId : TouchedAt(id)
<1>. DEFINE Goal == now' = now /\ \A id \in IdentityId : TouchedAt(id)
<1>0. identities[of] \in Identity
    BY DEF TypeOK
<1>1. ASSUME NEW model \in Model, MigrateModel(sender, of, model)
      PROVE  Goal
    <2>1. [identities[of] EXCEPT !.modelFingerprint = model] \in Identity
        BY <1>0 DEF Identity
    <2>. QED
        BY <1>1, <2>1, TouchTime DEF MigrateModel, Emit, TouchedAt, logs
<1>2. ASSUME NEW h \in Hash, NEW salience \in Number, NEW entrenchment \in Number,
             AnchorMemory(sender, of, h, salience, entrenchment)
      PROVE  Goal
    <2>. DEFINE a == [contentHash |-> h, timestamp |-> now, salienceScore |-> salience,
                      entrenchmentLevel |-> entrenchment]
    <2>1. a \in MemoryAnchor /\ a.timestamp = now
        BY <1>2 DEF AnchorMemory, MemoryAnchor, Score, ValidScore, TypeOK
    <2>2. memoryLog' = [memoryLog EXCEPT ![of] = Append(@, a)]
        BY <1>2 DEF AnchorMemory
    <2>3. /\ identities'[of].lastUpdate = now
          /\ \A i \in IdentityId \ {of} : identities'[i] = identities[i]
        BY <1>0, <1>2, TouchTime DEF AnchorMemory
    <2>4. TouchedAt(of)
        BY <2>1, <2>2, <2>3 DEF TouchedAt, TypeOK
    <2>5. \A id \in IdentityId \ {of} : TouchedAt(id)
        BY <2>2, <2>3 DEF TouchedAt, TypeOK
    <2>. QED
        BY <1>2, <2>4, <2>5 DEF AnchorMemory, Emit
<1>3. ASSUME NEW h \in Hash, NEW count \in Number, AnchorBatch(sender, of, h, count)
      PROVE  Goal
    BY <1>0, <1>3, TouchTime DEF AnchorBatch, Emit, TouchedAt
<1>4. ASSUME NEW h \in Hash, AnchorSnapshot(sender, of, h)
      PROVE  Goal
    <2>1. [identities[of] EXCEPT !.latest = h] \in Identity
        BY <1>0 DEF Identity
    <2>. QED
        BY <1>4, <2>1, TouchTime DEF AnchorSnapshot, Emit, TouchedAt, logs
<1>5. ASSUME NEW h \in Hash, LogBeliefCrisis(sender, of, h)
      PROVE  Goal
    BY <1>5 DEF LogBeliefCrisis, Emit, TouchedAt, logs
<1>6. ASSUME NEW h \in Hash, ResolveBeliefCrisis(sender, of, h)
      PROVE  Goal
    BY <1>6 DEF ResolveBeliefCrisis, Emit, TouchedAt
<1>7. ASSUME NEW h \in Hash, FreezeIdentity(sender, of, h)
      PROVE  Goal
    <2>1. [identities[of] EXCEPT !.isFrozen = TRUE, !.genesisHash = h] \in Identity
        BY <1>0 DEF Identity
    <2>. QED
        BY <1>7, <2>1, TouchTime DEF FreezeIdentity, Emit, TouchedAt, logs
<1>8. ASSUME UnfreezeIdentity(sender, of)
      PROVE  Goal
    <2>1. [identities[of] EXCEPT !.isFrozen = FALSE] \in Identity
        BY <1>0 DEF Identity
    <2>. QED
        BY <1>8, <2>1, TouchTime DEF UnfreezeIdentity, Emit, TouchedAt, logs
<1>9. ASSUME NEW n \in Number, UpdateCharacterStrength(sender, of, n)
      PROVE  Goal
    BY <1>9 DEF UpdateCharacterStrength, Emit, TouchedAt, logs
<1>10. ASSUME NEW n \in Number, LogGarbageCollection(sender, of, n)
       PROVE  Goal
    BY <1>10 DEF LogGarbageCollection, Emit, TouchedAt, logs
<1>. QED
    BY <1>1, <1>2, <1>3, <1>4, <1>5, <1>6, <1>7, <1>8, <1>9, <1>10 DEF Transaction

LEMMA RegistrationTime ==
    ASSUME TypeOK, NEW sender \in Address, NEW salt \in Salt, NEW model \in Model,
           RegisterIdentity(sender, salt, model)
    PROVE  now' = now /\ \A id \in IdentityId : TouchedAt(id)
<1>. DEFINE of == ComputeIdentityId(sender, salt)
            r == [modelFingerprint |-> model, creationTime |-> now, lastUpdate |-> now,
                  guardian |-> sender, latest |-> NoHash, exists |-> TRUE,
                  isFrozen |-> FALSE, genesisHash |-> NoHash]
<1>1. of \in IdentityId
    BY DEF ComputeIdentityId, IdentityId
<1>2. r \in Identity
    BY DEF TypeOK, Identity
<1>3. Touch(of, r) /\ UNCHANGED <<memoryLog, now>>
    BY DEF RegisterIdentity, Emit, logs
<1>. QED
    BY <1>1, <1>2, <1>3, TouchTime DEF TouchedAt

\* A touch keeps the order, because nothing in the log is from the future.
LEMMA TouchKeepsOrder ==
    ASSUME TypeOK, TypeOK', Chronology, now <= now', NEW id \in IdentityId, TouchedAt(id)
    PROVE  /\ identities'[id].lastUpdate <= now'
           /\ \A j \in DOMAIN memoryLog'[id] :
                  /\ memoryLog'[id][j].timestamp <= identities'[id].lastUpdate
                  /\ \A i \in 1 .. j :
                         memoryLog'[id][i].timestamp <= memoryLog'[id][j].timestamp
<1>. DEFINE log == memoryLog[id]
            before == identities[id].lastUpdate
            after == identities'[id].lastUpdate
<1>1. now \in Nat /\ now' \in Nat /\ before \in Nat /\ after \in Nat
    BY DEF TypeOK, Time, Identity
<1>2. /\ log \in Seq(MemoryAnchor)
      /\ DOMAIN log = 1 .. Len(log)
      /\ Len(log) \in Nat
      /\ \A i \in DOMAIN log : log[i].timestamp \in Nat
    <2>1. log \in Seq(MemoryAnchor)
        BY DEF TypeOK
    <2>2. \A a \in MemoryAnchor : a.timestamp \in Nat
        BY DEF MemoryAnchor, Time
    <2>. QED
        BY <2>1, <2>2
<1>3. /\ before <= now
      /\ \A j \in DOMAIN log : /\ log[j].timestamp <= before
                               /\ \A i \in 1 .. j : log[i].timestamp <= log[j].timestamp
    BY DEF Chronology
<1>4. after <= now /\ before <= after
    BY <1>1, <1>3 DEF TouchedAt
<1>5. CASE memoryLog'[id] = log
    BY <1>1, <1>2, <1>3, <1>4, <1>5
<1>6. ASSUME NEW a \in MemoryAnchor, after = now, a.timestamp = now,
             memoryLog'[id] = Append(log, a)
      PROVE  \A j \in DOMAIN memoryLog'[id] :
                  /\ memoryLog'[id][j].timestamp <= after
                  /\ \A i \in 1 .. j :
                         memoryLog'[id][i].timestamp <= memoryLog'[id][j].timestamp
    <2>1. /\ DOMAIN memoryLog'[id] = 1 .. Len(log) + 1
          /\ \A i \in 1 .. Len(log) : memoryLog'[id][i] = log[i]
          /\ memoryLog'[id][Len(log) + 1] = a
        BY <1>2, <1>6
    <2>2. \A i \in 1 .. Len(log) : log[i].timestamp <= now
        BY <1>1, <1>2, <1>3
    <2>. QED
        BY <1>1, <1>2, <1>3, <1>4, <1>6, <2>1, <2>2
<1>. QED
    BY <1>1, <1>4, <1>5, <1>6 DEF TouchedAt

LEMMA ChronologyInvariant == Spec => [](TypeOK /\ Chronology)
<1>1. Init => Chronology
    BY ImmortalMindAssumption DEF Init, Chronology, Unregistered
<1>2. TypeOK /\ TypeOK' /\ Chronology /\ [Next]_vars => Chronology'
    <2>. SUFFICES ASSUME TypeOK, TypeOK', Chronology, [Next]_vars PROVE Chronology'
        OBVIOUS
    <2>1. now <= now' /\ \A id \in IdentityId : TouchedAt(id)
        <3>0. now \in Nat
            BY DEF TypeOK, Time
        <3>1. ASSUME NEW sender \in Address, NEW salt \in Salt, NEW model \in Model,
                     RegisterIdentity(sender, salt, model)
              PROVE  now <= now' /\ \A id \in IdentityId : TouchedAt(id)
            BY <3>0, <3>1, RegistrationTime
        <3>2. ASSUME NEW sender \in Address, NEW of \in IdentityId, Transaction(sender, of)
              PROVE  now <= now' /\ \A id \in IdentityId : TouchedAt(id)
            BY <3>0, <3>2, TransactionTime
        <3>3. CASE NextBlock
            BY <3>0, <3>3 DEF NextBlock, TouchedAt, logs
        <3>4. CASE UNCHANGED vars
            BY <3>0, <3>4 DEF vars, TouchedAt, logs
        <3>. QED
            BY <3>1, <3>2, <3>3, <3>4 DEF Next
    <2>. QED
        BY <2>1, TouchKeepsOrder DEF Chronology
<1>. QED
    BY <1>1, <1>2, TypeCorrect, PTL DEF Spec

LEMMA TailOfASequence ==
    ASSUME NEW S, NEW s \in Seq(S), NEW skip \in 0 .. Len(s)
    PROVE  SubSeq(s, skip + 1, Len(s)) = [i \in 1 .. Len(s) - skip |-> s[skip + i]]
<1>. DEFINE tail == SubSeq(s, skip + 1, Len(s))
<1>1. Len(s) \in Nat /\ skip \in Nat /\ skip <= Len(s)
    OBVIOUS
<1>2. \A i \in skip + 1 .. Len(s) : s[i] \in S
    BY <1>1
<1>3. /\ tail \in Seq(S)
      /\ Len(tail) = IF skip + 1 <= Len(s) THEN Len(s) - (skip + 1) + 1 ELSE 0
      /\ \A i \in 1 .. Len(s) - (skip + 1) + 1 : tail[i] = s[skip + 1 + i - 1]
    <2>. HIDE DEF tail
    <2>1. skip + 1 \in Int /\ Len(s) \in Int
        BY <1>1
    <2>. QED
        BY <1>2, <2>1, SubSeqProperties DEF tail
<1>4. Len(tail) = Len(s) - skip /\ Len(s) - (skip + 1) + 1 = Len(s) - skip
    BY <1>1, <1>3
<1>5. \A i \in 1 .. Len(s) - skip : skip + 1 + i - 1 = skip + i
    BY <1>1
<1>. HIDE DEF tail
<1>6. tail = [i \in 1 .. Len(s) - skip |-> tail[i]]
    BY <1>3, <1>4
<1>. QED
    BY <1>3, <1>4, <1>5, <1>6 DEF tail

\* How many anchors of the log getRecentMemoryAnchors leaves out.
Skip(id, count) == IF count >= Len(memoryLog[id]) THEN 0 ELSE Len(memoryLog[id]) - count

\* What getRecentMemoryAnchors copies index by index is the tail of the log.
LEMMA RecentIsTheTail ==
    ASSUME TypeOK, NEW id \in IdentityId, NEW count \in Nat
    PROVE  /\ Skip(id, count) \in 0 .. Len(memoryLog[id])
           /\ GetRecentMemoryAnchors(id, count) =
                  SubSeq(memoryLog[id], Skip(id, count) + 1, Len(memoryLog[id]))
           /\ GetRecentMemoryAnchors(id, count) =
                  [i \in 1 .. Len(memoryLog[id]) - Skip(id, count) |->
                       memoryLog[id][Skip(id, count) + i]]
<1>. DEFINE log == memoryLog[id]
            skip == Skip(id, count)
<1>1. log \in Seq(MemoryAnchor) /\ Len(log) \in Nat
    BY DEF TypeOK
<1>2. skip \in 0 .. Len(log)
    BY <1>1 DEF Skip
<1>3. SubSeq(log, skip + 1, Len(log)) = [i \in 1 .. Len(log) - skip |-> log[skip + i]]
    BY <1>1, <1>2, TailOfASequence
<1>4. CASE count >= Len(log)
    <2>1. GetRecentMemoryAnchors(id, count) = log /\ skip = 0
        BY <1>4 DEF GetRecentMemoryAnchors, Skip
    <2>2. log = [i \in 1 .. Len(log) - 0 |-> log[0 + i]]
        <3>1. Len(log) - 0 = Len(log) /\ \A i \in 1 .. Len(log) : 0 + i = i
            BY <1>1
        <3>2. log = [i \in 1 .. Len(log) |-> log[i]]
            BY <1>1
        <3>. QED
            BY <3>1, <3>2
    <2>. QED
        BY <1>2, <1>3, <2>1, <2>2
<1>5. CASE ~(count >= Len(log))
    <2>1. /\ GetRecentMemoryAnchors(id, count) =
                 [i \in 1 .. count |-> log[Len(log) - count + i]]
          /\ skip = Len(log) - count
        BY <1>5 DEF GetRecentMemoryAnchors, Skip
    <2>2. Len(log) - skip = count
        BY <1>1, <2>1
    <2>. QED
        BY <1>2, <1>3, <2>1, <2>2
<1>. QED
    BY <1>4, <1>5

\* The recent anchors of an identity are the last of its log, in the order of
\* their time stamps, and none is newer than the identity's last update.
THEOREM RecentAnchorsHold == Spec => []RecentAnchorsAreNewest
<1>1. TypeOK /\ Chronology => RecentAnchorsAreNewest
    <2>. SUFFICES ASSUME TypeOK, Chronology,
                         NEW id \in IdentityId, NEW count \in 1 .. MaxTransactions
                  PROVE  LET recent == GetRecentMemoryAnchors(id, count)
                             total == Len(memoryLog[id])
                         IN  /\ recent = SubSeq(memoryLog[id],
                                    (IF count >= total THEN 0 ELSE total - count) + 1, total)
                             /\ \A i, j \in DOMAIN recent :
                                    i <= j => /\ recent[i].timestamp <= recent[j].timestamp
                                              /\ recent[j].timestamp <= identities[id].lastUpdate
        BY DEF RecentAnchorsAreNewest
    <2>. DEFINE log == memoryLog[id]
                skip == Skip(id, count)
                recent == GetRecentMemoryAnchors(id, count)
    <2>1. count \in Nat /\ Len(log) \in Nat /\ DOMAIN log = 1 .. Len(log)
        BY DEF TypeOK
    <2>2. /\ skip \in 0 .. Len(log)
          /\ recent = SubSeq(log, skip + 1, Len(log))
          /\ recent = [i \in 1 .. Len(log) - skip |-> log[skip + i]]
        BY <2>1, RecentIsTheTail
    <2>3. ASSUME NEW i \in DOMAIN recent, NEW j \in DOMAIN recent, i <= j
          PROVE  /\ recent[i].timestamp <= recent[j].timestamp
                 /\ recent[j].timestamp <= identities[id].lastUpdate
        <3>1. /\ i \in 1 .. Len(log) - skip /\ recent[i] = log[skip + i]
              /\ j \in 1 .. Len(log) - skip /\ recent[j] = log[skip + j]
            BY <2>2
        <3>2. skip + j \in DOMAIN log /\ skip + i \in 1 .. skip + j
            <4>. HIDE DEF skip, recent
            <4>1. skip \in Nat /\ i \in Nat /\ j \in Nat /\ 1 <= i
                  /\ j <= Len(log) - skip
                BY <2>1, <2>2, <3>1
            <4>. QED
                BY <2>1, <2>3, <4>1
        <3>. QED
            BY <3>1, <3>2 DEF Chronology
    <2>. QED
        BY <2>2, <2>3 DEF Skip
<1>. QED
    BY <1>1, ChronologyInvariant, PTL

-----------------------------------------------------------------------------
(* The two logs implement AnchorLedger. *)

\* How a step of the contract looks through the refinement mapping.
LEMMA MappedTransaction ==
    ASSUME Ownership, NEW sender \in Address, NEW id \in IdentityId,
           Transaction(sender, id)
    PROVE  /\ Guardians' = Guardians
           /\ Guardians[id] # Nobody
           /\ Quiet => Frozen' = Frozen
           /\ Grows(id) => Frozen' = Frozen /\ ~Frozen[id]
           /\ Toggles(id) => Frozen' = [Frozen EXCEPT ![id] = ~@]
<1>1. OnlyGuardian(sender, id) /\ Stays(id)
    BY TransactionEffect DEF Ownership
<1>2. Guardians' = Guardians
    BY <1>1 DEF Guardians, Stays
<1>3. Guardians[id] # Nobody
    BY <1>1, ImmortalMindAssumption DEF Guardians, OnlyGuardian
<1>4. Quiet => Frozen' = Frozen
    BY DEF Frozen, Quiet
<1>5. Grows(id) => Frozen' = Frozen /\ ~Frozen[id]
    BY DEF Frozen, Grows
<1>6. Toggles(id) => Frozen' = [Frozen EXCEPT ![id] = ~@]
    BY DEF Frozen, Toggles
<1>. QED
    BY <1>2, <1>3, <1>4, <1>5, <1>6

LEMMA MappedRegistration ==
    ASSUME Ownership, NEW sender \in Address, NEW salt \in Salt, NEW model \in Model,
           RegisterIdentity(sender, salt, model)
    PROVE  \E id \in IdentityId :
               /\ Guardians[id] = Nobody
               /\ Guardians' = [Guardians EXCEPT ![id] = sender]
               /\ Frozen' = Frozen
               /\ UNCHANGED logs
<1>1. PICK id \in IdentityId :
          /\ ~identities[id].exists
          /\ identities'[id].guardian = sender
          /\ ~identities'[id].isFrozen
          /\ \A i \in IdentityId \ {id} : identities'[i] = identities[i]
          /\ UNCHANGED logs
    BY RegisterEffect DEF Ownership
<1>2. identities[id].guardian = Nobody /\ ~identities[id].isFrozen
    BY <1>1 DEF Ownership, UnwrittenIsZero, Unregistered
<1>3. Guardians[id] = Nobody /\ Guardians' = [Guardians EXCEPT ![id] = sender]
    BY <1>1, <1>2 DEF Guardians
<1>4. Frozen' = Frozen
    <2>1. \A i \in IdentityId : identities'[i].isFrozen \in BOOLEAN
                                /\ identities[i].isFrozen \in BOOLEAN
        BY RegisterType DEF Ownership, TypeOK, Identity
    <2>. QED
        BY <1>1, <1>2, <2>1 DEF Frozen
<1>. QED
    BY <1>1, <1>3, <1>4

\* The memory log belongs to one guardian, only grows, and not while frozen.
THEOREM MemoryLogRefines == Spec => MemoryLogIsALedger
<1>1. Init => Memories!Init
    BY DEF Init, Memories!Init, Guardians, Frozen, Unregistered
<1>2. Ownership /\ [Next]_vars => [Memories!Next]_(Memories!ledger)
    <2>. SUFFICES ASSUME Ownership, [Next]_vars
                  PROVE  [Memories!Next]_(Memories!ledger)
        OBVIOUS
    <2>. USE DEF Memories!Next, Memories!ledger
    <2>1. ASSUME NEW sender \in Address, NEW salt \in Salt, NEW model \in Model,
                 RegisterIdentity(sender, salt, model)
          PROVE  Memories!Next
        BY <2>1, MappedRegistration DEF Memories!Claim, logs
    <2>2. ASSUME NEW sender \in Address, NEW id \in IdentityId, Transaction(sender, id)
          PROVE  [Memories!Next]_(Memories!ledger)
        <3>1. CASE Quiet
            BY <2>2, <3>1, MappedTransaction DEF Quiet
        <3>2. CASE Grows(id)
            BY <2>2, <3>2, MappedTransaction DEF Grows, Memories!Add
        <3>3. CASE Toggles(id)
            BY <2>2, <3>3, MappedTransaction DEF Toggles, Memories!Seal
        <3>. QED
            BY <2>2, <3>1, <3>2, <3>3, TransactionEffect DEF Ownership
    <2>3. CASE NextBlock
        BY <2>3 DEF NextBlock, Guardians, Frozen, logs
    <2>4. CASE UNCHANGED vars
        BY <2>4 DEF vars, Guardians, Frozen, logs
    <2>. QED
        BY <2>1, <2>2, <2>3, <2>4 DEF Next
<1>. QED
    BY <1>1, <1>2, OwnershipInvariant, PTL DEF Spec, MemoryLogIsALedger, Memories!Spec

\* The batch log belongs to one guardian, only grows, and not while frozen.
THEOREM BatchLogRefines == Spec => BatchLogIsALedger
<1>1. Init => Batches!Init
    BY DEF Init, Batches!Init, Guardians, Frozen, Unregistered
<1>2. Ownership /\ [Next]_vars => [Batches!Next]_(Batches!ledger)
    <2>. SUFFICES ASSUME Ownership, [Next]_vars
                  PROVE  [Batches!Next]_(Batches!ledger)
        OBVIOUS
    <2>. USE DEF Batches!Next, Batches!ledger
    <2>1. ASSUME NEW sender \in Address, NEW salt \in Salt, NEW model \in Model,
                 RegisterIdentity(sender, salt, model)
          PROVE  Batches!Next
        BY <2>1, MappedRegistration DEF Batches!Claim, logs
    <2>2. ASSUME NEW sender \in Address, NEW id \in IdentityId, Transaction(sender, id)
          PROVE  [Batches!Next]_(Batches!ledger)
        <3>1. CASE Quiet
            BY <2>2, <3>1, MappedTransaction DEF Quiet
        <3>2. CASE Grows(id)
            BY <2>2, <3>2, MappedTransaction DEF Grows, Batches!Add
        <3>3. CASE Toggles(id)
            BY <2>2, <3>3, MappedTransaction DEF Toggles, Batches!Seal
        <3>. QED
            BY <2>2, <3>1, <3>2, <3>3, TransactionEffect DEF Ownership
    <2>3. CASE NextBlock
        BY <2>3 DEF NextBlock, Guardians, Frozen, logs
    <2>4. CASE UNCHANGED vars
        BY <2>4 DEF vars, Guardians, Frozen, logs
    <2>. QED
        BY <2>1, <2>2, <2>3, <2>4 DEF Next
<1>. QED
    BY <1>1, <1>2, OwnershipInvariant, PTL DEF Spec, BatchLogIsALedger, Batches!Spec

-----------------------------------------------------------------------------
(* The events tell the state *)

\* An event log that grows keeps the places it had, and a matching event adds its own.
LEMMA PlacesGrow ==
    ASSUME NEW es \in Seq(Event), NEW e \in Event, NEW id, NEW names
    PROVE  LET matches == e.id = id /\ e.name \in names
           IN  /\ Places(es, id, names) \subseteq 1 .. Len(es)
               /\ Places(Append(es, e), id, names) =
                      Places(es, id, names) \cup (IF matches THEN {Len(es) + 1} ELSE {})
               /\ \A k \in Places(es, id, names) : Append(es, e)[k] = es[k]
               /\ Append(es, e)[Len(es) + 1] = e
<1>1. /\ Len(es) \in Nat /\ DOMAIN es = 1 .. Len(es)
      /\ DOMAIN Append(es, e) = 1 .. (Len(es) + 1)
      /\ \A k \in 1 .. Len(es) : Append(es, e)[k] = es[k]
      /\ Append(es, e)[Len(es) + 1] = e
    OBVIOUS
<1>. QED
    BY <1>1 DEF Places

\* Places are finitely many, and each has a rank among them.
LEMMA RanksOfPlaces ==
    ASSUME NEW n \in Nat, NEW places \in SUBSET (1 .. n)
    PROVE  /\ IsFiniteSet(places) /\ Cardinality(places) \in Nat
           /\ \A k \in places : Cardinality({j \in places : j <= k}) \in 1 .. Cardinality(places)
<1>1. IsFiniteSet(places)
    <2>1. 1 \in Int /\ n \in Int
        OBVIOUS
    <2>2. IsFiniteSet(1 .. n)
        BY <2>1, FS_Interval
    <2>. QED
        BY <2>2, FS_Subset
<1>2. Cardinality(places) \in Nat
    BY <1>1, FS_CardinalityType
<1>3. ASSUME NEW k \in places
      PROVE  Cardinality({j \in places : j <= k}) \in 1 .. Cardinality(places)
    <2>. DEFINE below == {j \in places : j <= k}
    <2>1. k \in below /\ below \subseteq places
        OBVIOUS
    <2>. HIDE DEF below
    <2>2. IsFiniteSet(below) /\ Cardinality(below) <= Cardinality(places)
        BY <1>1, <2>1, FS_Subset
    <2>3. Cardinality(below) \in Nat /\ Cardinality(below) # 0
        BY <2>1, <2>2, FS_CardinalityType, FS_EmptySet
    <2>4. Cardinality(below) \in 1 .. Cardinality(places)
        BY <1>2, <2>2, <2>3
    <2>. QED
        BY <2>4 DEF below
<1>. QED
    BY <1>1, <1>2, <1>3

\* Events keep telling a sequence when it stays, or grows by what the new one tells.
LEMMA TellingGoesOn ==
    ASSUME NEW es \in Seq(Event), NEW e \in Event, NEW id, NEW name,
           NEW S, NEW seq \in Seq(S), NEW next,
           next = (IF e.id = id /\ e.name = name THEN Append(seq, e.what) ELSE seq),
           TellInOrder(es, id, name, seq)
    PROVE  TellInOrder(Append(es, e), id, name, next)
<1>. DEFINE places == Places(es, id, {name})
            more == Places(Append(es, e), id, {name})
            Rank(all, k) == Cardinality({j \in all : j <= k})
            new == Len(es) + 1
<1>1. /\ Len(es) \in Nat /\ places \in SUBSET (1 .. Len(es))
      /\ more = places \cup (IF e.id = id /\ e.name = name THEN {new} ELSE {})
      /\ \A k \in places : Append(es, e)[k] = es[k]
      /\ Append(es, e)[new] = e
    BY PlacesGrow
<1>2. /\ Cardinality(places) = Len(seq)
      /\ \A k \in places : es[k].what = seq[Rank(places, k)]
    BY DEF TellInOrder
<1>. SUFFICES /\ Cardinality(more) = Len(next)
              /\ \A k \in more : Append(es, e)[k].what = next[Rank(more, k)]
    BY DEF TellInOrder
<1>3. /\ IsFiniteSet(places)
      /\ \A k \in places : Rank(places, k) \in 1 .. Cardinality(places)
    BY <1>1, RanksOfPlaces
<1>. HIDE DEF places, more
<1>4. CASE e.id = id /\ e.name = name
    <2>1. more = places \cup {new} /\ new \notin places /\ next = Append(seq, e.what)
        BY <1>1, <1>4
    <2>2. Cardinality(more) = Len(seq) + 1
        BY <1>2, <1>3, <2>1, FS_AddElement
    <2>3. /\ Len(next) = Len(seq) + 1 /\ Len(seq) \in Nat /\ next[Len(seq) + 1] = e.what
          /\ \A i \in 1 .. Len(seq) : next[i] = seq[i]
        BY <2>1
    <2>4. ASSUME NEW k \in places
          PROVE  Append(es, e)[k].what = next[Rank(more, k)]
        <3>1. {j \in more : j <= k} = {j \in places : j <= k}
            BY <1>1, <2>1
        <3>2. Rank(more, k) = Rank(places, k)
            BY <3>1
        <3>3. Rank(places, k) \in 1 .. Len(seq)
            BY <1>2, <1>3
        <3>4. next[Rank(places, k)] = seq[Rank(places, k)]
            BY <2>3, <3>3
        <3>. QED
            BY <1>1, <1>2, <3>2, <3>4
    <2>5. Append(es, e)[new].what = next[Rank(more, new)]
        <3>0. \A j \in more : j <= new
            BY <1>1, <2>1
        <3>1. {j \in more : j <= new} = more
            BY <3>0
        <3>2. Rank(more, new) = Len(seq) + 1
            BY <2>2, <3>1
        <3>. QED
            BY <1>1, <2>3, <3>2
    <2>. QED
        BY <2>1, <2>2, <2>3, <2>4, <2>5
<1>5. CASE ~(e.id = id /\ e.name = name)
    <2>1. more = places /\ next = seq
        BY <1>1, <1>5
    <2>. QED
        BY <1>1, <1>2, <2>1
<1>. QED
    BY <1>4, <1>5

\* The newest event keeps telling a value when it stays, or is what the new one tells.
LEMMA NewestGoesOn ==
    ASSUME NEW es \in Seq(Event), NEW e \in Event, NEW id, NEW names, NEW none, NEW value,
           NEW next, next = (IF e.id = id /\ e.name \in names THEN e.what ELSE value),
           NewestTells(es, id, names, none, value)
    PROVE  NewestTells(Append(es, e), id, names, none, next)
<1>. DEFINE places == Places(es, id, names)
            more == Places(Append(es, e), id, names)
            new == Len(es) + 1
<1>1. /\ Len(es) \in Nat /\ places \in SUBSET (1 .. Len(es))
      /\ more = places \cup (IF e.id = id /\ e.name \in names THEN {new} ELSE {})
      /\ \A k \in places : Append(es, e)[k] = es[k]
      /\ Append(es, e)[new] = e
    BY PlacesGrow
<1>2. /\ places = {} => value = none
      /\ \A k \in Newest(places) : es[k].what = value
    BY DEF NewestTells
<1>. SUFFICES /\ more = {} => next = none
              /\ \A k \in Newest(more) : Append(es, e)[k].what = next
    BY DEF NewestTells
<1>. HIDE DEF places, more
<1>3. CASE e.id = id /\ e.name \in names
    <2>1. more = places \cup {new} /\ next = e.what
        BY <1>1, <1>3
    <2>2. \A k \in Newest(more) : k = new
        BY <1>1, <2>1 DEF Newest
    <2>. QED
        BY <1>1, <2>1, <2>2
<1>4. CASE ~(e.id = id /\ e.name \in names)
    <2>1. more = places /\ next = value
        BY <1>1, <1>4
    <2>2. \A k \in Newest(places) : k \in places
        BY DEF Newest
    <2>. QED
        BY <1>1, <1>2, <2>1, <2>2
<1>. QED
    BY <1>3, <1>4

NewestIs(es, id, names, name) ==
    \E k \in Newest(Places(es, id, names)) : es[k].name = name

\* The newest event of a freeze or an unfreeze says which of the two came last.
LEMMA FreezingGoesOn ==
    ASSUME NEW es \in Seq(Event), NEW e \in Event, NEW id, NEW names, NEW name
    PROVE  /\ e.id = id /\ e.name \in names =>
                  (NewestIs(Append(es, e), id, names, name) <=> e.name = name)
           /\ ~(e.id = id /\ e.name \in names) =>
                  (NewestIs(Append(es, e), id, names, name) <=> NewestIs(es, id, names, name))
<1>. DEFINE places == Places(es, id, names)
            more == Places(Append(es, e), id, names)
            new == Len(es) + 1
<1>1. /\ Len(es) \in Nat /\ places \in SUBSET (1 .. Len(es))
      /\ more = places \cup (IF e.id = id /\ e.name \in names THEN {new} ELSE {})
      /\ \A k \in places : Append(es, e)[k] = es[k]
      /\ Append(es, e)[new] = e
    BY PlacesGrow
<1>. HIDE DEF places, more
<1>2. CASE e.id = id /\ e.name \in names
    <2>1. more = places \cup {new}
        BY <1>1, <1>2
    <2>2. Newest(more) = {new}
        <3>1. \A j \in more : j <= new
            BY <1>1, <2>1
        <3>2. \A k \in places : ~(new <= k)
            BY <1>1
        <3>. QED
            BY <2>1, <3>1, <3>2 DEF Newest
    <2>. QED
        BY <1>1, <1>2, <2>2 DEF more, NewestIs
<1>3. CASE ~(e.id = id /\ e.name \in names)
    <2>1. more = places
        BY <1>1, <1>3
    <2>2. \A k \in Newest(places) : Append(es, e)[k] = es[k]
        BY <1>1 DEF Newest
    <2>. QED
        BY <1>3, <2>1, <2>2 DEF places, more, NewestIs
<1>. QED
    BY <1>2, <1>3

\* What an event has to come with for the events to go on telling an identity.
Matches(e, id) ==
    LET Is(name) == e.id = id /\ e.name = name
    IN  /\ MemoryHashes(id)' = (IF Is("MemoryUpdated") THEN Append(MemoryHashes(id), e.what)
                                ELSE MemoryHashes(id))
        /\ BatchRoots(id)' = (IF Is("BatchAnchored") THEN Append(BatchRoots(id), e.what)
                              ELSE BatchRoots(id))
        /\ CrisisKeys(id)' = (IF Is("BeliefCrisisResolved") THEN Append(CrisisKeys(id), e.what)
                              ELSE CrisisKeys(id))
        /\ identities'[id].modelFingerprint =
               (IF Is("IdentityRegistered") \/ Is("IdentityMigrated") THEN e.what
                ELSE identities[id].modelFingerprint)
        /\ identities'[id].latest =
               (IF Is("SnapshotAnchored") THEN e.what ELSE identities[id].latest)
        /\ identities'[id].genesisHash =
               (IF Is("IdentityFrozen") THEN e.what ELSE identities[id].genesisHash)
        /\ characterStrength'[id] =
               (IF Is("CharacterCrystallized") THEN e.what ELSE characterStrength[id])
        /\ identities'[id].isFrozen <=>
               (Is("IdentityFrozen") \/ (identities[id].isFrozen /\ ~Is("IdentityUnfrozen")))

LEMMA MappedSequence ==
    ASSUME NEW S, NEW T, NEW s \in Seq(S), NEW f \in [DOMAIN s -> T]
    PROVE  f \in Seq(T)
<1>1. DOMAIN s = 1 .. Len(s) /\ Len(s) \in Nat
    OBVIOUS
<1>. QED
    BY <1>1, SeqDef

\* The three logs, as the events tell them, are sequences.
LEMMA ToldSequences ==
    ASSUME TypeOK, NEW id \in IdentityId
    PROVE  MemoryHashes(id) \in Seq(Hash) /\ BatchRoots(id) \in Seq(Hash)
           /\ CrisisKeys(id) \in Seq(Hash)
<1>1. /\ memoryLog[id] \in Seq(MemoryAnchor) /\ batchLog[id] \in Seq(BatchAnchor)
      /\ crisisLog[id] \in Seq(CrisisLog)
    BY DEF TypeOK
<1>2. MemoryHashes(id) \in Seq(Hash)
    <2>0. \A i \in DOMAIN memoryLog[id] : memoryLog[id][i] \in MemoryAnchor
        BY <1>1
    <2>1. \A i \in DOMAIN memoryLog[id] : memoryLog[id][i].contentHash \in Hash
        BY <2>0 DEF MemoryAnchor
    <2>2. MemoryHashes(id) \in [DOMAIN memoryLog[id] -> Hash]
        BY <2>1 DEF MemoryHashes
    <2>. QED
        BY <1>1, <2>2, MappedSequence
<1>3. BatchRoots(id) \in Seq(Hash)
    <2>0. \A i \in DOMAIN batchLog[id] : batchLog[id][i] \in BatchAnchor
        BY <1>1
    <2>1. \A i \in DOMAIN batchLog[id] : batchLog[id][i].merkleRoot \in Hash
        BY <2>0 DEF BatchAnchor
    <2>2. BatchRoots(id) \in [DOMAIN batchLog[id] -> Hash]
        BY <2>1 DEF BatchRoots
    <2>. QED
        BY <1>1, <2>2, MappedSequence
<1>4. CrisisKeys(id) \in Seq(Hash)
    <2>0. \A i \in DOMAIN crisisLog[id] : crisisLog[id][i] \in CrisisLog
        BY <1>1
    <2>1. \A i \in DOMAIN crisisLog[id] : crisisLog[id][i].memoryKey \in Hash
        BY <2>0 DEF CrisisLog
    <2>2. CrisisKeys(id) \in [DOMAIN crisisLog[id] -> Hash]
        BY <2>1 DEF CrisisKeys
    <2>. QED
        BY <1>1, <2>2, MappedSequence
<1>. QED
    BY <1>2, <1>3, <1>4

\* One event that matches what it comes with keeps the events telling the identity.
LEMMA OneEvent ==
    ASSUME TypeOK, NEW id \in IdentityId, EventsTell(id), NEW e \in Event,
           events' = Append(events, e), Matches(e, id)
    PROVE  EventsTell(id)'
<1>1. events \in Seq(Event)
    BY DEF TypeOK
<1>2. /\ TellInOrder(events', id, "MemoryUpdated", MemoryHashes(id)')
      /\ TellInOrder(events', id, "BatchAnchored", BatchRoots(id)')
      /\ TellInOrder(events', id, "BeliefCrisisResolved", CrisisKeys(id)')
    BY <1>1, ToldSequences, TellingGoesOn DEF EventsTell, Matches
<1>3. NewestTells(events', id, {"IdentityRegistered", "IdentityMigrated"}, NoModel,
                  identities'[id].modelFingerprint)
    BY <1>1, NewestGoesOn DEF EventsTell, Matches
<1>4. NewestTells(events', id, {"SnapshotAnchored"}, NoHash, identities'[id].latest)
    BY <1>1, NewestGoesOn DEF EventsTell, Matches
<1>5. NewestTells(events', id, {"IdentityFrozen"}, NoHash, identities'[id].genesisHash)
    BY <1>1, NewestGoesOn DEF EventsTell, Matches
<1>6. NewestTells(events', id, {"CharacterCrystallized"}, 0, characterStrength'[id])
    BY <1>1, NewestGoesOn DEF EventsTell, Matches
<1>7. identities'[id].isFrozen <=>
          \E k \in Newest(Places(events', id, {"IdentityFrozen", "IdentityUnfrozen"})) :
              events'[k].name = "IdentityFrozen"
    <2>. DEFINE names == {"IdentityFrozen", "IdentityUnfrozen"}
    <2>. HIDE DEF names
    <2>1. /\ e.id = id /\ e.name \in names =>
                 (NewestIs(Append(events, e), id, names, "IdentityFrozen")
                  <=> e.name = "IdentityFrozen")
          /\ ~(e.id = id /\ e.name \in names) =>
                 (NewestIs(Append(events, e), id, names, "IdentityFrozen")
                  <=> NewestIs(events, id, names, "IdentityFrozen"))
        BY <1>1, FreezingGoesOn
    <2>2. identities[id].isFrozen <=> NewestIs(events, id, names, "IdentityFrozen")
        BY DEF EventsTell, NewestIs, names
    <2>3. identities'[id].isFrozen <=> NewestIs(events', id, names, "IdentityFrozen")
        BY <2>1, <2>2 DEF Matches, names
    <2>. QED
        BY <2>3 DEF NewestIs, names
<1>. QED
    BY <1>2, <1>3, <1>4, <1>5, <1>6, <1>7 DEF EventsTell

\* A log that stays, or grows by one record, does so in what the events tell of it.
LEMMA ToldLogs ==
    ASSUME TypeOK, NEW id \in IdentityId
    PROVE  /\ memoryLog'[id] = memoryLog[id] => MemoryHashes(id)' = MemoryHashes(id)
           /\ batchLog'[id] = batchLog[id] => BatchRoots(id)' = BatchRoots(id)
           /\ crisisLog'[id] = crisisLog[id] => CrisisKeys(id)' = CrisisKeys(id)
           /\ \A a : memoryLog'[id] = Append(memoryLog[id], a) =>
                         MemoryHashes(id)' = Append(MemoryHashes(id), a.contentHash)
           /\ \A a : batchLog'[id] = Append(batchLog[id], a) =>
                         BatchRoots(id)' = Append(BatchRoots(id), a.merkleRoot)
           /\ \A a : crisisLog'[id] = Append(crisisLog[id], a) =>
                         CrisisKeys(id)' = Append(CrisisKeys(id), a.memoryKey)
<1>1. /\ memoryLog[id] \in Seq(MemoryAnchor) /\ batchLog[id] \in Seq(BatchAnchor)
      /\ crisisLog[id] \in Seq(CrisisLog)
    BY DEF TypeOK
<1>2. /\ memoryLog'[id] = memoryLog[id] => MemoryHashes(id)' = MemoryHashes(id)
      /\ batchLog'[id] = batchLog[id] => BatchRoots(id)' = BatchRoots(id)
      /\ crisisLog'[id] = crisisLog[id] => CrisisKeys(id)' = CrisisKeys(id)
    BY DEF MemoryHashes, BatchRoots, CrisisKeys
<1>3. ASSUME NEW a, memoryLog'[id] = Append(memoryLog[id], a)
      PROVE  MemoryHashes(id)' = Append(MemoryHashes(id), a.contentHash)
    BY <1>1, <1>3 DEF MemoryHashes
<1>4. ASSUME NEW a, batchLog'[id] = Append(batchLog[id], a)
      PROVE  BatchRoots(id)' = Append(BatchRoots(id), a.merkleRoot)
    BY <1>1, <1>4 DEF BatchRoots
<1>5. ASSUME NEW a, crisisLog'[id] = Append(crisisLog[id], a)
      PROVE  CrisisKeys(id)' = Append(CrisisKeys(id), a.memoryKey)
    BY <1>1, <1>5 DEF CrisisKeys
<1>. QED
    BY <1>2, <1>3, <1>4, <1>5

\* Events of other identities, and all that comes with them, leave an identity as it is.
LEMMA OthersMatch ==
    ASSUME TypeOK, NEW id \in IdentityId, NEW e \in Event, e.id # id,
           identities'[id] = identities[id], memoryLog'[id] = memoryLog[id],
           crisisLog'[id] = crisisLog[id], batchLog'[id] = batchLog[id],
           characterStrength'[id] = characterStrength[id]
    PROVE  Matches(e, id)
BY ToldLogs DEF Matches

\* Every transaction emits the event of what it changes.
LEMMA TransactionMatches ==
    ASSUME TypeOK, NEW sender \in Address, NEW id \in IdentityId, Transaction(sender, id)
    PROVE  \E e \in Event : e.id = id /\ events' = Append(events, e) /\ Matches(e, id)
<1>. DEFINE Goal == \E e \in Event : e.id = id /\ events' = Append(events, e) /\ Matches(e, id)
            Ev(name, what) == [name |-> name, id |-> id, what |-> what]
<1>0. /\ identities \in [IdentityId -> Identity] /\ identities[id] \in Identity
      /\ memoryLog \in [IdentityId -> Seq(MemoryAnchor)]
      /\ crisisLog \in [IdentityId -> Seq(CrisisLog)]
      /\ batchLog \in [IdentityId -> Seq(BatchAnchor)]
      /\ characterStrength \in [IdentityId -> Number \cup {0}]
    BY DEF TypeOK
\* What is told of the logs that stay.
<1>m. memoryLog' = memoryLog => MemoryHashes(id)' = MemoryHashes(id)
    BY ToldLogs
<1>b. batchLog' = batchLog => BatchRoots(id)' = BatchRoots(id)
    BY ToldLogs
<1>c. crisisLog' = crisisLog => CrisisKeys(id)' = CrisisKeys(id)
    BY ToldLogs
<1>e. ASSUME NEW name \in EventName, NEW what \in Hash \cup {NoHash} \cup Model \cup Number,
             Emit(sender, name, id, what), Matches(Ev(name, what), id)
      PROVE  Goal
    <2>1. Ev(name, what) \in Event /\ Ev(name, what).id = id
        BY DEF Event
    <2>. QED
        BY <1>e, <2>1 DEF Emit
\* Only the fields a transaction names change in the identity it touches.
<1>t. ASSUME NEW r \in Identity, Touch(id, r)
      PROVE  /\ identities'[id].modelFingerprint = r.modelFingerprint
             /\ identities'[id].latest = r.latest
             /\ identities'[id].genesisHash = r.genesisHash
             /\ identities'[id].isFrozen = r.isFrozen
    BY <1>0, <1>t DEF Touch, Identity
<1>1. ASSUME NEW model \in Model, MigrateModel(sender, id, model)
      PROVE  Goal
    <2>. DEFINE r == [identities[id] EXCEPT !.modelFingerprint = model]
    <2>1. r \in Identity /\ r.modelFingerprint = model /\ r.latest = identities[id].latest
          /\ r.genesisHash = identities[id].genesisHash /\ r.isFrozen = identities[id].isFrozen
        BY <1>0 DEF Identity
    <2>. HIDE DEF r
    <2>2. Touch(id, r) /\ Emit(sender, "IdentityMigrated", id, model)
          /\ UNCHANGED <<memoryLog, crisisLog, batchLog, characterStrength>>
        BY <1>1 DEF MigrateModel, logs, r
    <2>3. Matches(Ev("IdentityMigrated", model), id)
        BY <1>m, <1>b, <1>c, <1>t, <2>1, <2>2 DEF Matches
    <2>. QED
        BY <1>e, <2>2, <2>3 DEF EventName
<1>2. ASSUME NEW h \in Hash, NEW salience \in Number, NEW entrenchment \in Number,
             AnchorMemory(sender, id, h, salience, entrenchment)
      PROVE  Goal
    <2>. DEFINE a == [contentHash |-> h, timestamp |-> now,
                      salienceScore |-> salience, entrenchmentLevel |-> entrenchment]
    <2>1. /\ Touch(id, identities[id]) /\ Emit(sender, "MemoryUpdated", id, h)
          /\ UNCHANGED <<crisisLog, batchLog, characterStrength>>
          /\ memoryLog'[id] = Append(memoryLog[id], a)
        BY <1>0, <1>2 DEF AnchorMemory
    <2>2. MemoryHashes(id)' = Append(MemoryHashes(id), h)
        <3>1. a.contentHash = h
            OBVIOUS
        <3>. HIDE DEF a
        <3>. QED
            BY <2>1, <3>1, ToldLogs
    <2>3. Matches(Ev("MemoryUpdated", h), id)
        BY <1>0, <1>b, <1>c, <1>t, <2>1, <2>2 DEF Matches
    <2>. QED
        BY <1>e, <2>1, <2>3 DEF EventName
<1>3. ASSUME NEW h \in Hash, NEW count \in Number, AnchorBatch(sender, id, h, count)
      PROVE  Goal
    <2>. DEFINE a == [merkleRoot |-> h, memoryCount |-> count, timestamp |-> now]
    <2>1. /\ Touch(id, identities[id]) /\ Emit(sender, "BatchAnchored", id, h)
          /\ UNCHANGED <<memoryLog, crisisLog, characterStrength>>
          /\ batchLog'[id] = Append(batchLog[id], a)
        BY <1>0, <1>3 DEF AnchorBatch
    <2>2. BatchRoots(id)' = Append(BatchRoots(id), h)
        <3>1. a.merkleRoot = h
            OBVIOUS
        <3>. HIDE DEF a
        <3>. QED
            BY <2>1, <3>1, ToldLogs
    <2>3. Matches(Ev("BatchAnchored", h), id)
        BY <1>0, <1>m, <1>c, <1>t, <2>1, <2>2 DEF Matches
    <2>. QED
        BY <1>e, <2>1, <2>3 DEF EventName
<1>4. ASSUME NEW h \in Hash, AnchorSnapshot(sender, id, h)
      PROVE  Goal
    <2>. DEFINE r == [identities[id] EXCEPT !.latest = h]
    <2>1. r \in Identity /\ r.modelFingerprint = identities[id].modelFingerprint /\ r.latest = h
          /\ r.genesisHash = identities[id].genesisHash /\ r.isFrozen = identities[id].isFrozen
        BY <1>0 DEF Identity
    <2>. HIDE DEF r
    <2>2. Touch(id, r) /\ Emit(sender, "SnapshotAnchored", id, h)
          /\ UNCHANGED <<memoryLog, crisisLog, batchLog, characterStrength>>
        BY <1>4 DEF AnchorSnapshot, logs, r
    <2>3. Matches(Ev("SnapshotAnchored", h), id)
        BY <1>m, <1>b, <1>c, <1>t, <2>1, <2>2 DEF Matches
    <2>. QED
        BY <1>e, <2>2, <2>3 DEF EventName
<1>5. ASSUME NEW h \in Hash, LogBeliefCrisis(sender, id, h)
      PROVE  Goal
    <2>1. Emit(sender, "BeliefCrisis", id, h)
          /\ UNCHANGED <<identities, memoryLog, crisisLog, batchLog, characterStrength>>
        BY <1>5 DEF LogBeliefCrisis, logs
    <2>2. Matches(Ev("BeliefCrisis", h), id)
        BY <1>m, <1>b, <1>c, <2>1 DEF Matches
    <2>. QED
        BY <1>e, <2>1, <2>2 DEF EventName
<1>6. ASSUME NEW h \in Hash, ResolveBeliefCrisis(sender, id, h)
      PROVE  Goal
    <2>. DEFINE a == [memoryKey |-> h, contradictionCount |-> 0, timestamp |-> now]
    <2>1. /\ Emit(sender, "BeliefCrisisResolved", id, h)
          /\ UNCHANGED <<identities, memoryLog, batchLog, characterStrength>>
          /\ crisisLog'[id] = Append(crisisLog[id], a)
        BY <1>0, <1>6 DEF ResolveBeliefCrisis
    <2>2. CrisisKeys(id)' = Append(CrisisKeys(id), h)
        <3>1. a.memoryKey = h
            OBVIOUS
        <3>. HIDE DEF a
        <3>. QED
            BY <2>1, <3>1, ToldLogs
    <2>3. Matches(Ev("BeliefCrisisResolved", h), id)
        BY <1>m, <1>b, <2>1, <2>2 DEF Matches
    <2>. QED
        BY <1>e, <2>1, <2>3 DEF EventName
<1>7. ASSUME NEW h \in Hash, FreezeIdentity(sender, id, h)
      PROVE  Goal
    <2>. DEFINE r == [identities[id] EXCEPT !.isFrozen = TRUE, !.genesisHash = h]
    <2>1. r \in Identity /\ r.modelFingerprint = identities[id].modelFingerprint
          /\ r.latest = identities[id].latest /\ r.genesisHash = h /\ r.isFrozen = TRUE
        BY <1>0 DEF Identity
    <2>. HIDE DEF r
    <2>2. Touch(id, r) /\ Emit(sender, "IdentityFrozen", id, h)
          /\ UNCHANGED <<memoryLog, crisisLog, batchLog, characterStrength>>
        BY <1>7 DEF FreezeIdentity, logs, r
    <2>3. Matches(Ev("IdentityFrozen", h), id)
        BY <1>m, <1>b, <1>c, <1>t, <2>1, <2>2 DEF Matches
    <2>. QED
        BY <1>e, <2>2, <2>3 DEF EventName
<1>8. ASSUME UnfreezeIdentity(sender, id)
      PROVE  Goal
    <2>. DEFINE r == [identities[id] EXCEPT !.isFrozen = FALSE]
    <2>1. r \in Identity /\ r.modelFingerprint = identities[id].modelFingerprint
          /\ r.latest = identities[id].latest
          /\ r.genesisHash = identities[id].genesisHash /\ r.isFrozen = FALSE
        BY <1>0 DEF Identity
    <2>. HIDE DEF r
    <2>2. Touch(id, r) /\ Emit(sender, "IdentityUnfrozen", id, NoHash)
          /\ UNCHANGED <<memoryLog, crisisLog, batchLog, characterStrength>>
        BY <1>8 DEF UnfreezeIdentity, logs, r
    <2>3. Matches(Ev("IdentityUnfrozen", NoHash), id)
        BY <1>m, <1>b, <1>c, <1>t, <2>1, <2>2 DEF Matches
    <2>. QED
        BY <1>e, <2>2, <2>3 DEF EventName
<1>9. ASSUME NEW n \in Number, UpdateCharacterStrength(sender, id, n)
      PROVE  Goal
    <2>1. /\ Emit(sender, "CharacterCrystallized", id, n) /\ characterStrength'[id] = n
          /\ UNCHANGED <<identities, memoryLog, crisisLog, batchLog>>
        BY <1>0, <1>9 DEF UpdateCharacterStrength, logs
    <2>2. Matches(Ev("CharacterCrystallized", n), id)
        BY <1>m, <1>b, <1>c, <2>1 DEF Matches
    <2>. QED
        BY <1>e, <2>1, <2>2 DEF EventName
<1>10. ASSUME NEW n \in Number, LogGarbageCollection(sender, id, n)
       PROVE  Goal
    <2>1. Emit(sender, "GarbageCollected", id, n)
          /\ UNCHANGED <<identities, memoryLog, crisisLog, batchLog, characterStrength>>
        BY <1>10 DEF LogGarbageCollection, logs
    <2>2. Matches(Ev("GarbageCollected", n), id)
        BY <1>m, <1>b, <1>c, <2>1 DEF Matches
    <2>. QED
        BY <1>e, <2>1, <2>2 DEF EventName
<1>. QED
    BY <1>1, <1>2, <1>3, <1>4, <1>5, <1>6, <1>7, <1>8, <1>9, <1>10 DEF Transaction

\* So does a registration, since what it writes over is zero in every field.
LEMMA RegistrationMatches ==
    ASSUME TypeOK, UnwrittenIsZero, NEW sender \in Address, NEW salt \in Salt,
           NEW model \in Model, RegisterIdentity(sender, salt, model)
    PROVE  \E e \in Event : /\ events' = Append(events, e) /\ Matches(e, e.id)
                            /\ \A i \in IdentityId \ {e.id} : identities'[i] = identities[i]
                            /\ UNCHANGED <<memoryLog, crisisLog, batchLog, characterStrength>>
<1>. DEFINE id == ComputeIdentityId(sender, salt)
            e == [name |-> "IdentityRegistered", id |-> id, what |-> model]
<1>1. id \in IdentityId
    BY DEF ComputeIdentityId, IdentityId
<1>2. e \in Event /\ e.id = id /\ events' = Append(events, e)
    BY <1>1 DEF Event, EventName, RegisterIdentity, Emit
<1>3. identities[id] = Unregistered
    BY <1>1 DEF UnwrittenIsZero, RegisterIdentity, Available
<1>4. UNCHANGED <<memoryLog, crisisLog, batchLog, characterStrength>>
    BY DEF RegisterIdentity, logs
<1>. HIDE DEF id
<1>5. /\ identities'[id].modelFingerprint = model /\ identities'[id].latest = NoHash
      /\ identities'[id].genesisHash = NoHash /\ identities'[id].isFrozen = FALSE
      /\ \A i \in IdentityId \ {id} : identities'[i] = identities[i]
    BY <1>1 DEF RegisterIdentity, Touch, TypeOK, id
<1>6. Matches(e, id)
    BY <1>1, <1>3, <1>4, <1>5, ToldLogs DEF Matches, Unregistered
<1>. QED
    BY <1>2, <1>4, <1>5, <1>6

\* The events are complete: the three logs in order, the model, the strength, the
\* snapshot, the genesis hash and the frozen flag can be read off them
\* (ImmortalMind.sol:294).
THEOREM EventsAreComplete == Spec => []EventsTellTheState
<1>1. Init => EventsTellTheState
    <2>. SUFFICES ASSUME Init, NEW id \in IdentityId PROVE EventsTell(id)
        BY DEF EventsTellTheState
    <2>1. \A names : Places(events, id, names) = {}
        <3>1. DOMAIN events = {}
            BY DEF Init
        <3>. QED
            BY <3>1 DEF Places
    <2>2. /\ Len(MemoryHashes(id)) = 0 /\ Len(BatchRoots(id)) = 0 /\ Len(CrisisKeys(id)) = 0
        <3>1. memoryLog[id] = <<>> /\ batchLog[id] = <<>> /\ crisisLog[id] = <<>>
            BY DEF Init
        <3>2. /\ MemoryHashes(id) \in [1 .. 0 -> {}] /\ BatchRoots(id) \in [1 .. 0 -> {}]
              /\ CrisisKeys(id) \in [1 .. 0 -> {}]
            BY <3>1 DEF MemoryHashes, BatchRoots, CrisisKeys
        <3>. QED
            BY <3>2
    <2>3. Cardinality({}) = 0
        BY FS_EmptySet
    <2>4. Newest({}) = {}
        BY DEF Newest
    <2>5. identities[id] = Unregistered /\ characterStrength[id] = 0
        BY DEF Init
    <2>6. \A name, seq : Len(seq) = 0 => TellInOrder(events, id, name, seq)
        BY <2>1, <2>3 DEF TellInOrder
    <2>7. \A names, none : NewestTells(events, id, names, none, none)
        BY <2>1, <2>4 DEF NewestTells
    <2>8. ~identities[id].isFrozen
        BY <2>5 DEF Unregistered
    <2>9. \A names : ~NewestIs(events, id, names, "IdentityFrozen")
        BY <2>1, <2>4 DEF NewestIs
    <2>10. identities[id].isFrozen <=>
               \E k \in Newest(Places(events, id, {"IdentityFrozen", "IdentityUnfrozen"})) :
                   events[k].name = "IdentityFrozen"
        BY <2>8, <2>9 DEF NewestIs
    <2>. QED
        BY <2>2, <2>5, <2>6, <2>7, <2>10 DEF EventsTell, Unregistered
<1>2. Ownership /\ EventsTellTheState /\ [Next]_vars => EventsTellTheState'
    <2>. SUFFICES ASSUME Ownership, EventsTellTheState, [Next]_vars,
                         NEW id \in IdentityId
                  PROVE  EventsTell(id)'
        BY DEF EventsTellTheState
    <2>0. TypeOK /\ UnwrittenIsZero /\ EventsTell(id)
        BY DEF Ownership, EventsTellTheState
    <2>1. ASSUME NEW sender \in Address, NEW salt \in Salt, NEW model \in Model,
                 RegisterIdentity(sender, salt, model)
          PROVE  EventsTell(id)'
        <3>1. PICK e \in Event : /\ events' = Append(events, e) /\ Matches(e, e.id)
                                 /\ \A i \in IdentityId \ {e.id} : identities'[i] = identities[i]
                                 /\ UNCHANGED <<memoryLog, crisisLog, batchLog, characterStrength>>
            BY <2>0, <2>1, RegistrationMatches
        <3>2. Matches(e, id)
            BY <2>0, <3>1, OthersMatch
        <3>. QED
            BY <2>0, <3>1, <3>2, OneEvent
    <2>2. ASSUME NEW sender \in Address, NEW other \in IdentityId, Transaction(sender, other)
          PROVE  EventsTell(id)'
        <3>1. PICK e \in Event : /\ e.id = other /\ events' = Append(events, e)
                                 /\ Matches(e, other)
            BY <2>0, <2>2, TransactionMatches
        <3>2. Stays(other)
            BY <2>0, <2>2, TransactionEffect
        <3>3. Matches(e, id)
            BY <2>0, <3>1, <3>2, OthersMatch DEF Stays
        <3>. QED
            BY <2>0, <3>1, <3>3, OneEvent
    <2>3. CASE NextBlock \/ UNCHANGED vars
        <3>1. UNCHANGED <<identities, memoryLog, crisisLog, batchLog, characterStrength, events>>
            BY <2>3 DEF NextBlock, vars, logs
        <3>. QED
            BY <2>0, <3>1 DEF EventsTell, MemoryHashes, BatchRoots, CrisisKeys
    <2>. QED
        BY <2>1, <2>2, <2>3 DEF Next
<1>. QED
    BY <1>1, <1>2, OwnershipInvariant, PTL DEF Spec

=============================================================================
