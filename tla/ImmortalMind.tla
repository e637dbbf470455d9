---------------------------- MODULE ImmortalMind ----------------------------
(***************************************************************************)
(* The contract contracts/ImmortalMind.sol.  A transaction is atomic, so   *)
(* an external function is one action; a require or a modifier is its      *)
(* guard, since a transaction that reverts changes nothing.  Any address   *)
(* may call any function at any time.                                      *)
(*                                                                         *)
(* Of the strings that are only carried along (storage URIs, the memory    *)
(* type) nothing is kept; the two URIs of a snapshot are one value.        *)
(***************************************************************************)
EXTENDS Naturals, Sequences, FiniteSets

CONSTANTS Address, Salt,
          Nobody,           \* address(0)
          Hash, NoHash,     \* bytes32 values: hashes, roots and keys; bytes32(0)
          Model, NoModel,   \* model fingerprints; the empty string
          Number,           \* uint256 arguments: scores, counts, strengths
          MaxTransactions, MaxTime   \* bounds of the model

ASSUME ImmortalMindAssumption ==
    /\ Nobody \notin Address
    /\ Number \subseteq Nat
    /\ MaxTransactions \in Nat
    /\ MaxTime \in Nat

VARIABLES
    identities, memoryLog, crisisLog, characterStrength, batchLog,
    registeredIdentities,
    events,       \* the event log of the contract
    msg_sender,   \* history: who sent the last transaction
    now           \* block.timestamp

logs == <<memoryLog, crisisLog, batchLog>>
vars == <<identities, logs, characterStrength, registeredIdentities, events,
          msg_sender, now>>

\* MUTANT of ComputeIdentityId: the id depends on the salt alone.
IdFromSalt(guardian, salt) == [guardian |-> CHOOSE a \in Address : TRUE, salt |-> salt]

\* keccak256(guardian, salt), which does not collide.
ComputeIdentityId(guardian, salt) == [guardian |-> guardian, salt |-> salt]
IdentityId == [guardian : Address, salt : Salt]

Time == 0 .. MaxTime

Identity == [modelFingerprint : Model \cup {NoModel}, creationTime : Time,
             lastUpdate : Time, guardian : Address \cup {Nobody},
             latest : Hash \cup {NoHash}, exists : BOOLEAN, isFrozen : BOOLEAN,
             genesisHash : Hash \cup {NoHash}]

\* What a mapping holds under a key that was never written.
Unregistered == [modelFingerprint |-> NoModel, creationTime |-> 0, lastUpdate |-> 0,
                 guardian |-> Nobody, latest |-> NoHash, exists |-> FALSE,
                 isFrozen |-> FALSE, genesisHash |-> NoHash]

Score == {n \in Number : n <= 100}

MemoryAnchor == [contentHash : Hash, timestamp : Time,
                 salienceScore : Score, entrenchmentLevel : Score]
CrisisLog == [memoryKey : Hash, contradictionCount : {0}, timestamp : Time]
BatchAnchor == [merkleRoot : Hash, memoryCount : Number \ {0}, timestamp : Time]

EventName == {"IdentityRegistered", "IdentityMigrated", "MemoryUpdated",
              "SnapshotAnchored", "BeliefCrisis", "BeliefCrisisResolved",
              "CharacterCrystallized", "GarbageCollected", "BatchAnchored",
              "IdentityFrozen", "IdentityUnfrozen"}
Event == [name : EventName, id : IdentityId, what : Hash \cup {NoHash} \cup Model \cup Number]

TypeOK ==
    /\ identities \in [IdentityId -> Identity]
    /\ memoryLog \in [IdentityId -> Seq(MemoryAnchor)]
    /\ crisisLog \in [IdentityId -> Seq(CrisisLog)]
    /\ batchLog \in [IdentityId -> Seq(BatchAnchor)]
    /\ characterStrength \in [IdentityId -> Number \cup {0}]
    /\ registeredIdentities \in Seq(IdentityId)
    /\ events \in Seq(Event)
    /\ msg_sender \in Address \cup {Nobody}
    /\ now \in Time

Init ==
    /\ identities = [id \in IdentityId |-> Unregistered]
    /\ memoryLog = [id \in IdentityId |-> <<>>]
    /\ crisisLog = [id \in IdentityId |-> <<>>]
    /\ batchLog = [id \in IdentityId |-> <<>>]
    /\ characterStrength = [id \in IdentityId |-> 0]
    /\ registeredIdentities = <<>>
    /\ events = <<>>
    /\ msg_sender = Nobody
    /\ now = 0

-----------------------------------------------------------------------------

\* MUTANT of OnlyGuardian: the identity need only exist.
AnybodyMay(sender, id) == identities[id].exists

OnlyGuardian(sender, id) == identities[id].exists /\ identities[id].guardian = sender

\* MUTANT of NotFrozen: the modifier is missing.
FrozenOrNot(id) == TRUE

NotFrozen(id) == ~identities[id].isFrozen

\* MUTANT of Available: a registration may be repeated.
AlwaysAvailable(id) == TRUE

Available(id) == ~identities[id].exists

ValidScore(n) == n <= 100

\* Every function emits exactly one event, so the event log counts transactions.
Emit(sender, name, id, what) ==
    /\ Len(events) < MaxTransactions
    /\ events' = Append(events, [name |-> name, id |-> id, what |-> what])
    /\ msg_sender' = sender
    /\ UNCHANGED now

\* Most functions end by writing block.timestamp into what they changed.
Touch(id, identity) ==
    identities' = [identities EXCEPT ![id] = [identity EXCEPT !.lastUpdate = now]]

RegisterIdentity(sender, salt, model) ==
    LET id == ComputeIdentityId(sender, salt)
    IN  /\ Available(id)
        /\ Touch(id, [modelFingerprint |-> model, creationTime |-> now, lastUpdate |-> now,
                      guardian |-> sender, latest |-> NoHash, exists |-> TRUE,
                      isFrozen |-> FALSE, genesisHash |-> NoHash])
        /\ registeredIdentities' = Append(registeredIdentities, id)
        /\ Emit(sender, "IdentityRegistered", id, model)
        /\ UNCHANGED <<logs, characterStrength>>

MigrateModel(sender, id, model) ==
    /\ OnlyGuardian(sender, id)
    /\ Touch(id, [identities[id] EXCEPT !.modelFingerprint = model])
    /\ Emit(sender, "IdentityMigrated", id, model)
    /\ UNCHANGED <<logs, characterStrength, registeredIdentities>>

AnchorMemory(sender, id, contentHash, salienceScore, entrenchmentLevel) ==
    /\ OnlyGuardian(sender, id)
    /\ NotFrozen(id)
    /\ ValidScore(salienceScore)
    /\ ValidScore(entrenchmentLevel)
    /\ memoryLog' = [memoryLog EXCEPT ![id] = Append(@,
           [contentHash |-> contentHash, timestamp |-> now,
            salienceScore |-> salienceScore, entrenchmentLevel |-> entrenchmentLevel])]
    /\ Touch(id, identities[id])
    /\ Emit(sender, "MemoryUpdated", id, contentHash)
    /\ UNCHANGED <<crisisLog, batchLog, characterStrength, registeredIdentities>>

\* Open to a frozen identity on purpose: its last state is recorded this way.
AnchorSnapshot(sender, id, state) ==
    /\ OnlyGuardian(sender, id)
    /\ Touch(id, [identities[id] EXCEPT !.latest = state])
    /\ Emit(sender, "SnapshotAnchored", id, state)
    /\ UNCHANGED <<logs, characterStrength, registeredIdentities>>

LogBeliefCrisis(sender, id, memoryKey) ==
    /\ OnlyGuardian(sender, id)
    /\ Emit(sender, "BeliefCrisis", id, memoryKey)
    /\ UNCHANGED <<identities, logs, characterStrength, registeredIdentities>>

ResolveBeliefCrisis(sender, id, memoryKey) ==
    /\ OnlyGuardian(sender, id)
    /\ crisisLog' = [crisisLog EXCEPT ![id] = Append(@,
           [memoryKey |-> memoryKey, contradictionCount |-> 0, timestamp |-> now])]
    /\ Emit(sender, "BeliefCrisisResolved", id, memoryKey)
    /\ UNCHANGED <<identities, memoryLog, batchLog, characterStrength, registeredIdentities>>

UpdateCharacterStrength(sender, id, newStrength) ==
    /\ OnlyGuardian(sender, id)
    /\ characterStrength' = [characterStrength EXCEPT ![id] = newStrength]
    /\ Emit(sender, "CharacterCrystallized", id, newStrength)
    /\ UNCHANGED <<identities, logs, registeredIdentities>>

LogGarbageCollection(sender, id, prunedCount) ==
    /\ OnlyGuardian(sender, id)
    /\ Emit(sender, "GarbageCollected", id, prunedCount)
    /\ UNCHANGED <<identities, logs, characterStrength, registeredIdentities>>

AnchorBatch(sender, id, merkleRoot, memoryCount) ==
    /\ OnlyGuardian(sender, id)
    /\ NotFrozen(id)
    /\ memoryCount > 0
    /\ batchLog' = [batchLog EXCEPT ![id] = Append(@,
           [merkleRoot |-> merkleRoot, memoryCount |-> memoryCount, timestamp |-> now])]
    /\ Touch(id, identities[id])
    /\ Emit(sender, "BatchAnchored", id, merkleRoot)
    /\ UNCHANGED <<memoryLog, crisisLog, characterStrength, registeredIdentities>>

FreezeIdentity(sender, id, genesisHash) ==
    /\ OnlyGuardian(sender, id)
    /\ ~identities[id].isFrozen
    /\ Touch(id, [identities[id] EXCEPT !.isFrozen = TRUE, !.genesisHash = genesisHash])
    /\ Emit(sender, "IdentityFrozen", id, genesisHash)
    /\ UNCHANGED <<logs, characterStrength, registeredIdentities>>

UnfreezeIdentity(sender, id) ==
    /\ OnlyGuardian(sender, id)
    /\ identities[id].isFrozen
    /\ Touch(id, [identities[id] EXCEPT !.isFrozen = FALSE])
    /\ Emit(sender, "IdentityUnfrozen", id, NoHash)
    /\ UNCHANGED <<logs, characterStrength, registeredIdentities>>

\* A later block; blocks need not be apart in time, nor transactions in block.
NextBlock ==
    /\ now < MaxTime
    /\ now' = now + 1
    /\ UNCHANGED <<identities, logs, characterStrength, registeredIdentities, events,
                   msg_sender>>

\* MUTANT of GetRecentMemoryAnchors: copies the head of the log.
FirstMemoryAnchors(id, count) ==
    IF count >= Len(memoryLog[id]) THEN memoryLog[id] ELSE [i \in 1 .. count |-> memoryLog[id][i]]

\* getRecentMemoryAnchors, which copies the tail index by index.
GetRecentMemoryAnchors(id, count) ==
    LET log == memoryLog[id]
        total == Len(log)
    IN  IF count >= total THEN log ELSE [i \in 1 .. count |-> log[total - count + i]]

-----------------------------------------------------------------------------

Transaction(sender, id) ==
    \/ \E model \in Model : MigrateModel(sender, id, model)
    \/ \E h \in Hash :
           \/ \E salience, entrenchment \in Number :
                  AnchorMemory(sender, id, h, salience, entrenchment)
           \/ \E count \in Number : AnchorBatch(sender, id, h, count)
           \/ AnchorSnapshot(sender, id, h) \/ LogBeliefCrisis(sender, id, h)
           \/ ResolveBeliefCrisis(sender, id, h) \/ FreezeIdentity(sender, id, h)
    \/ \E n \in Number :
           UpdateCharacterStrength(sender, id, n) \/ LogGarbageCollection(sender, id, n)
    \/ UnfreezeIdentity(sender, id)

Next ==
    \/ \E sender \in Address :
           \/ \E salt \in Salt, model \in Model : RegisterIdentity(sender, salt, model)
           \/ \E id \in IdentityId : Transaction(sender, id)
    \/ NextBlock

Spec == Init /\ [][Next]_vars

-----------------------------------------------------------------------------
(* Properties *)

\* ImmortalMind.sol:163-166.  An identity is registered by the address its id
\* was derived from, and stays with it: nobody takes another's id.
NobodyTakesAnothersId ==
    \A id \in IdentityId :
        identities[id].exists => identities[id].guardian = id.guardian

\* The list of identities names each identity that exists exactly once.
RegisteredOnce ==
    /\ \A id \in IdentityId :
           identities[id].exists <=> \E i \in DOMAIN registeredIdentities :
                                         registeredIdentities[i] = id
    /\ \A i, j \in DOMAIN registeredIdentities :
           registeredIdentities[i] = registeredIdentities[j] => i = j

\* ImmortalMind.sol:141-148.  Whatever changes for an identity changes in a
\* transaction of its guardian.
OnlyTheGuardianWrites ==
    [][\A id \in IdentityId :
           <<identities[id], memoryLog[id], crisisLog[id], batchLog[id],
             characterStrength[id]>>' #
           <<identities[id], memoryLog[id], crisisLog[id], batchLog[id],
             characterStrength[id]>>
           => msg_sender' = identities'[id].guardian]_vars

\* Where the events of an identity with one of some names are in the event log.
Places(es, id, names) == {k \in DOMAIN es : es[k].id = id /\ es[k].name \in names}
Newest(places) == {k \in places : \A j \in places : j <= k}

\* As many events have the name as the sequence has elements, and each of them tells
\* the element of its rank.
TellInOrder(es, id, name, seq) ==
    LET places == Places(es, id, {name})
    IN  /\ Cardinality(places) = Len(seq)
        /\ \A k \in places : es[k].what = seq[Cardinality({j \in places : j <= k})]

\* The newest event with one of the names tells the value; without one it is none.
NewestTells(es, id, names, none, value) ==
    LET places == Places(es, id, names)
    IN  /\ places = {} => value = none
        /\ \A k \in Newest(places) : es[k].what = value

MemoryHashes(id) == [i \in DOMAIN memoryLog[id] |-> memoryLog[id][i].contentHash]
BatchRoots(id) == [i \in DOMAIN batchLog[id] |-> batchLog[id][i].merkleRoot]
CrisisKeys(id) == [i \in DOMAIN crisisLog[id] |-> crisisLog[id][i].memoryKey]

EventsTell(id) ==
    /\ TellInOrder(events, id, "MemoryUpdated", MemoryHashes(id))
    /\ TellInOrder(events, id, "BatchAnchored", BatchRoots(id))
    /\ TellInOrder(events, id, "BeliefCrisisResolved", CrisisKeys(id))
    /\ NewestTells(events, id, {"IdentityRegistered", "IdentityMigrated"}, NoModel,
                   identities[id].modelFingerprint)
    /\ NewestTells(events, id, {"SnapshotAnchored"}, NoHash, identities[id].latest)
    /\ NewestTells(events, id, {"IdentityFrozen"}, NoHash, identities[id].genesisHash)
    /\ NewestTells(events, id, {"CharacterCrystallized"}, 0, characterStrength[id])
    /\ identities[id].isFrozen <=>
           \E k \in Newest(Places(events, id, {"IdentityFrozen", "IdentityUnfrozen"})) :
               events[k].name = "IdentityFrozen"

\* The events are complete: whoever replays them knows the logs in order, the
\* model, the strength, the snapshot, the genesis hash and the frozen flag.
EventsTellTheState == \A id \in IdentityId : EventsTell(id)

\* The recent anchors are the newest ones, in the order they were anchored, and
\* none is newer than the identity's last update.
RecentAnchorsAreNewest ==
    \A id \in IdentityId : \A count \in 1 .. MaxTransactions :
        LET recent == GetRecentMemoryAnchors(id, count)
            total == Len(memoryLog[id])
        IN  /\ recent = SubSeq(memoryLog[id], (IF count >= total THEN 0 ELSE total - count) + 1, total)
            /\ \A i, j \in DOMAIN recent :
                   i <= j => /\ recent[i].timestamp <= recent[j].timestamp
                             /\ recent[j].timestamp <= identities[id].lastUpdate

Guardians == [id \in IdentityId |-> identities[id].guardian]
Frozen == [id \in IdentityId |-> identities[id].isFrozen]

Memories == INSTANCE AnchorLedger
    WITH Identity <- IdentityId, Guardian <- Address, Anchor <- MemoryAnchor,
         guardian <- Guardians, sealed <- Frozen, anchors <- memoryLog
Batches == INSTANCE AnchorLedger
    WITH Identity <- IdentityId, Guardian <- Address, Anchor <- BatchAnchor,
         guardian <- Guardians, sealed <- Frozen, anchors <- batchLog

\* ImmortalMind.sol:418-421 and WHITEPAPER.md:726.  The memory log is a ledger:
\* it belongs to one guardian, only grows, and stands still while frozen.
MemoryLogIsALedger == Memories!Spec

\* The same of the batch log.
BatchLogIsALedger == Batches!Spec

=============================================================================
