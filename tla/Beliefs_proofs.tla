--------------------------- MODULE Beliefs_proofs ---------------------------
(***************************************************************************)
(* Proofs about the beliefs, for every set of memories, every strength     *)
(* RealityCheck can approve and any number of contradictions.              *)
(***************************************************************************)
EXTENDS Beliefs, TLAPS

-----------------------------------------------------------------------------
(* The biases *)

LEMMA ApprovedStrength ==
    ASSUME NEW s \in Strength
    PROVE  s \in Int /\ s >= 400 /\ s =< 4000
BY BeliefsAssumption

LEMMA TrustRange ==
    ASSUME trust \in 0 .. 100
    PROVE  trust \in Int /\ trust >= 0 /\ trust =< 100
OBVIOUS

LEMMA Weak ==
    ASSUME NEW e \in Int, NEW s \in Int, NEW p \in Int,
           e >= 24 => p >= 2400, s =< 4000, s - p >= 1606
    PROVE  e =< 23
OBVIOUS

LEMMA Firm ==
    ASSUME NEW e \in Int, NEW s \in Int, NEW p \in Int,
           e =< 50 => p =< 10000, s >= 400, s - p < -11090
    PROVE  e > 50
OBVIOUS

\* Everything rests on these bounds: a memory of an entrenchment of 0.24 is
\* not confirmed any more, and only one of more than 0.5 rejects anything.
LEMMA Resistance ==
    ASSUME NEW e \in Nat, NEW s \in Int, s >= 400, s =< 4000, trust \in 0 .. 100
    PROVE  /\ Verdict(e, s) = "accepted" => e =< 23
           /\ Verdict(e, s) = "rejected" => e > 50
<1> DEFINE d == 200 - trust
           p == e * d
<1>1. d \in Int /\ d >= 100 /\ d =< 200 /\ p \in Int
    BY TrustRange
<1>2. e >= 24 => p >= 2400
  <2>1. e >= 24 => (e - 24) * d >= 0 /\ p = 24 * d + (e - 24) * d
      BY <1>1
  <2>. QED
      BY <2>1, <1>1
<1>3. e =< 50 => p =< 10000
  <2>1. e =< 50 => (50 - e) * d >= 0 /\ p = 50 * d - (50 - e) * d
      BY <1>1
  <2>. QED
      BY <2>1, <1>1
<1>4. Odds(e, s) = s - p
    BY DEF Odds
<1> HIDE DEF p, d
<1>5. Odds(e, s) \in Int
    BY <1>1, <1>4
<1>6. Verdict(e, s) = "accepted" => Odds(e, s) >= 1606
    BY <1>5 DEF Verdict
<1>7. Verdict(e, s) = "rejected" => Odds(e, s) < -11090
    BY <1>5 DEF Verdict
<1>0. e \in Int /\ p \in Int
    BY <1>1
<1>8. ASSUME Odds(e, s) >= 1606 PROVE e =< 23
  <2>1. s - p >= 1606
      BY <1>4, <1>8
  <2>. QED
      BY <2>1, <1>0, <1>2, Weak
<1>9. ASSUME Odds(e, s) < -11090 PROVE e > 50
  <2>1. s - p < -11090
      BY <1>4, <1>9
  <2>. QED
      BY <2>1, <1>0, <1>3, Firm
<1>. QED
    BY <1>6, <1>7, <1>8, <1>9

\* With RealityCheck enabled, confirming even the weakest memory takes trust.
LEMMA TrustNeeded ==
    ASSUME NEW e \in Nat, e >= 10, NEW s \in Int, s =< 2800, trust \in 0 .. 100,
           Verdict(e, s) = "accepted"
    PROVE  trust >= 81
<1> DEFINE d == 200 - trust
           p == e * d
<1>1. d \in Int /\ d >= 100 /\ d =< 200 /\ p \in Int
    BY TrustRange
<1>2. p >= 10 * d
  <2>1. (e - 10) * d >= 0 /\ p = 10 * d + (e - 10) * d
      BY <1>1
  <2>. QED
      BY <2>1, <1>1
<1>3. Odds(e, s) = s - p
    BY DEF Odds
<1>4. Odds(e, s) >= 1606
  <2>1. Odds(e, s) \in Int
      BY <1>1, <1>3
  <2>. QED
      BY <2>1 DEF Verdict
<1>5. 10 * d =< 1194
  <2> HIDE DEF p, d
  <2>. QED
    BY <1>1, <1>2, <1>3, <1>4
<1>. QED
    BY <1>5

LEMMA TrustType ==
    ASSUME trust \in 0 .. 100,
           NEW v \in {"accepted", "ambivalent", "pending", "rejected"}
    PROVE  TrustAfter(v) \in 0 .. 100
BY DEF TrustAfter, Bounded

-----------------------------------------------------------------------------
(* The inductive invariant *)

\* Where a record's entrenchment comes from, reinforcement by reinforcement.
Firmness(record) ==
    /\ record.origin = "genesis"    => record.entrenchment = 100
    /\ record.origin = "reflection" => record.entrenchment \in {40, 50} /\ record.reinforcements = 0
    /\ record.origin = "told"       => record.entrenchment = 10 + 8 * record.reinforcements
                                       /\ record.reinforcements =< 2
    /\ record.origin = "dream"      => record.entrenchment = 15 + 8 * record.reinforcements
                                       /\ record.reinforcements =< 2

\* The part of the invariant about the records.
StoreInv ==
    /\ Known \subseteq Id
    /\ store \in [Known -> MemoryRecord]
    /\ Core \subseteq Known
    /\ \A i \in Known : i \in Core <=> store[i].origin = "genesis"
    /\ \A i \in Known : Firmness(store[i])

Inv ==
    /\ StoreInv
    /\ trust \in 0 .. 100
    /\ crises = {} /\ crisisRefs = {}
    /\ character \subseteq Core

LEMMA NewRecordFirm ==
    /\ NewRecord("genesis", 100) \in MemoryRecord /\ Firmness(NewRecord("genesis", 100))
    /\ NewRecord("told", 10) \in MemoryRecord /\ Firmness(NewRecord("told", 10))
    /\ NewRecord("dream", 15) \in MemoryRecord /\ Firmness(NewRecord("dream", 15))
    /\ \A e \in {40, 50} : NewRecord("reflection", e) \in MemoryRecord
                           /\ Firmness(NewRecord("reflection", e))
BY DEF NewRecord, MemoryRecord, Origin, Firmness

LEMMA Initially == Init => Inv
<1> SUFFICES ASSUME Init PROVE Inv
    OBVIOUS
<1> USE DEF Init
<1>1. Known = Core
    BY DEF Known
<1>2. StoreInv
    BY <1>1, NewRecordFirm, BeliefsAssumption DEF StoreInv, NewRecord
<1>. QED
    BY <1>2 DEF Inv

LEMMA ConfirmedType ==
    ASSUME NEW r \in MemoryRecord, Firmness(r), NEW s \in Strength, trust \in 0 .. 100,
           Verdict(r.entrenchment, s) = "accepted"
    PROVE  /\ Reinforced(r) \in MemoryRecord
           /\ Reinforced(r).origin = r.origin
           /\ Firmness(Reinforced(r))
<1>1. PICK e \in Nat : e = r.entrenchment /\ e =< 100
    BY DEF MemoryRecord
<1>2. s \in Int /\ s >= 400 /\ s =< 4000
    BY ApprovedStrength
<1>3. e =< 23
  <2>1. Verdict(e, s) = "accepted"
      BY <1>1
  <2>. QED
      BY <1>2, <2>1, Resistance
<1>4. Bounded(r.entrenchment + 8) = r.entrenchment + 8
    BY <1>1, <1>3 DEF Bounded
<1>5. Reinforced(r) = [origin |-> r.origin, entrenchment |-> r.entrenchment + 8,
                       reinforcements |-> r.reinforcements + 1,
                       contradictions |-> r.contradictions]
  <2>1. Reinforced(r) = [r EXCEPT !.reinforcements = r.reinforcements + 1,
                                  !.entrenchment = r.entrenchment + 8]
      BY <1>4 DEF Reinforced
  <2>. QED
      BY <2>1 DEF MemoryRecord
<1>6. Reinforced(r) \in MemoryRecord
    BY <1>1, <1>3, <1>5 DEF MemoryRecord
<1>7. Firmness(Reinforced(r))
    BY <1>1, <1>3, <1>5 DEF Firmness, MemoryRecord, Origin
<1>. QED
    BY <1>5, <1>6, <1>7

LEMMA ContradictedType ==
    ASSUME NEW r \in MemoryRecord, Firmness(r)
    PROVE  /\ Contradicted(r) \in MemoryRecord
           /\ Contradicted(r).origin = r.origin
           /\ Contradicted(r).entrenchment = r.entrenchment
           /\ Firmness(Contradicted(r))
<1>1. Contradicted(r) = [origin |-> r.origin, entrenchment |-> r.entrenchment,
                         reinforcements |-> r.reinforcements,
                         contradictions |-> r.contradictions + 1]
    BY DEF Contradicted, MemoryRecord
<1>2. Contradicted(r) \in MemoryRecord
    BY <1>1 DEF MemoryRecord
<1>. QED
    BY <1>1, <1>2 DEF Firmness

\* No approved strength shakes a Genesis Anchor, and nothing else rejects.
LEMMA NoCrisis ==
    ASSUME NEW r \in MemoryRecord, Firmness(r), NEW s \in Strength, trust \in 0 .. 100,
           Verdict(r.entrenchment, s) = "rejected"
    PROVE  ~ShouldTriggerCrisis(Contradicted(r), s)
<1>1. PICK e \in Nat : e = r.entrenchment /\ e =< 100
    BY DEF MemoryRecord
<1>2. s \in Int /\ s >= 400 /\ s =< 4000
    BY ApprovedStrength
<1>3. e > 50
  <2>1. Verdict(e, s) = "rejected"
      BY <1>1
  <2>. QED
      BY <1>2, <2>1, Resistance
<1>4. r.entrenchment = 100
    BY <1>1, <1>3 DEF Firmness, MemoryRecord, Origin
<1>5. Contradicted(r).entrenchment = 100
    BY <1>4, ContradictedType
<1>. QED
    BY <1>2, <1>5 DEF ShouldTriggerCrisis

\* A record is changed, one is added, records are removed.
LEMMA ChangeKeeps ==
    ASSUME StoreInv, NEW i \in Known, NEW r \in MemoryRecord,
           r.origin = store[i].origin, Firmness(r),
           store' = [store EXCEPT ![i] = r]
    PROVE  StoreInv'
<1>1. Known' = Known
    BY DEF StoreInv, Known
<1>2. \A j \in Known : store'[j] = IF j = i THEN r ELSE store[j]
    BY DEF StoreInv, Known
<1>3. store' \in [Known' -> MemoryRecord]
    BY <1>1 DEF StoreInv
<1>. QED
    BY <1>1, <1>2, <1>3 DEF StoreInv

LEMMA RememberKeeps ==
    ASSUME StoreInv, NEW j \in Fresh, NEW r \in MemoryRecord,
           r.origin # "genesis", Firmness(r),
           store' = Remember(j, r)
    PROVE  StoreInv'
<1>1. Known' = Known \cup {j} /\ j \notin Known /\ j \in Id
    BY DEF Remember, Known, Fresh
<1>2. \A k \in Known' : store'[k] = IF k = j THEN r ELSE store[k]
    BY <1>1 DEF Remember
<1>3. store' \in [Known' -> MemoryRecord]
    BY <1>1, <1>2 DEF StoreInv, Remember
<1>. QED
    BY <1>1, <1>2, <1>3 DEF StoreInv

LEMMA KeepKeeps ==
    ASSUME StoreInv, NEW ids, Core \subseteq ids, ids \subseteq Known, Keep(ids)
    PROVE  StoreInv'
<1>1. Known' = ids
    BY DEF Keep, Known
<1>2. \A k \in ids : store'[k] = store[k]
    BY DEF Keep
<1>3. store' \in [Known' -> MemoryRecord]
    BY <1>1 DEF StoreInv, Keep
<1>. QED
    BY <1>1, <1>2, <1>3 DEF StoreInv

\* Of the records the invariant allows, only the Genesis Anchors count.
LEMMA CharacterInborn ==
    ASSUME NEW records, NEW K, records \in [K -> MemoryRecord],
           \A i \in K : i \in Core <=> records[i].origin = "genesis",
           \A i \in K : Firmness(records[i])
    PROVE  CharacterOf(records) \subseteq Core
<1> SUFFICES ASSUME NEW i \in K, records[i].entrenchment > 60
             PROVE  i \in Core
    BY DEF CharacterOf
<1>1. records[i] \in MemoryRecord /\ Firmness(records[i])
    OBVIOUS
<1>2. records[i].origin = "genesis"
    BY <1>1 DEF Firmness, MemoryRecord, Origin
<1>. QED
    BY <1>2

LEMMA Step ==
    ASSUME Inv, [Next]_vars
    PROVE  Inv'
<1>0. StoreInv /\ trust \in 0 .. 100
    BY DEF Inv
<1>1. ASSUME NEW i \in Known, NEW s \in Strength, Accept(i, s)
      PROVE  Inv'
  <2>0. store[i] \in MemoryRecord /\ Firmness(store[i])
      BY <1>0 DEF StoreInv
  <2>1. StoreInv'
      BY <1>0, <1>1, <2>0, ConfirmedType, ChangeKeeps DEF Accept
  <2>2. trust' \in 0 .. 100
      BY <1>0, <1>1, TrustType DEF Accept
  <2>. QED
      BY <1>1, <2>1, <2>2 DEF Accept, Inv
<1>2. ASSUME NEW i \in Known, NEW s \in Strength, Reject(i, s)
      PROVE  Inv'
  <2>3. store[i] \in MemoryRecord /\ Firmness(store[i])
      BY <1>0 DEF StoreInv
  <2>1. ~ShouldTriggerCrisis(Contradicted(store[i]), s)
      BY <1>0, <1>2, <2>3, NoCrisis DEF Reject
  <2>2. /\ store' = [store EXCEPT ![i] = Contradicted(store[i])]
        /\ UNCHANGED <<crises, crisisRefs, character>>
        /\ trust' = TrustAfter("rejected")
      BY <1>2, <2>1 DEF Reject
  <2>4. StoreInv'
      BY <1>0, <2>2, <2>3, ContradictedType, ChangeKeeps
  <2>5. trust' \in 0 .. 100
      BY <1>0, <2>2, TrustType
  <2>. QED
      BY <2>2, <2>4, <2>5 DEF Inv
<1>3. ASSUME NEW i \in Known, NEW s \in Strength, NEW j \in Fresh, LiveWith(i, j, s)
      PROVE  Inv'
  <2> DEFINE r == Contradicted(store[i])
             f == Remember(j, NewRecord("told", 10))
  <2>1. store[i] \in MemoryRecord /\ Firmness(store[i])
      BY <1>0 DEF StoreInv
  <2>2. r \in MemoryRecord /\ r.origin = store[i].origin /\ Firmness(r)
      BY <2>1, ContradictedType
  <2>3. j \notin Known /\ j \in Id /\ i # j
      BY DEF Fresh
  <2>4. f[i] = store[i]
      BY <2>3 DEF Remember
  <2> HIDE DEF r
  <2>5. store' = [k \in Known \cup {j} |->
                     IF k = i THEN r ELSE IF k = j THEN NewRecord("told", 10) ELSE store[k]]
    <3>1. store' = [f EXCEPT ![i] = r]
        BY <1>3, <2>4 DEF LiveWith, r
    <3>. QED
        BY <3>1, <2>3 DEF Remember
  <2>6. Known' = Known \cup {j}
      BY <2>5 DEF Known
  <2>7. /\ NewRecord("told", 10) \in MemoryRecord /\ Firmness(NewRecord("told", 10))
        /\ NewRecord("told", 10).origin = "told"
      BY NewRecordFirm DEF NewRecord
  <2>8. store' \in [Known' -> MemoryRecord]
      BY <1>0, <2>2, <2>5, <2>6, <2>7 DEF StoreInv
  <2>9. StoreInv'
      BY <1>0, <2>2, <2>3, <2>5, <2>6, <2>7, <2>8 DEF StoreInv
  <2>10. character' \subseteq Core
    <3>1. CharacterOf(store') \subseteq Core
        BY <2>9, CharacterInborn DEF StoreInv
    <3>. QED
        BY <1>3, <3>1 DEF LiveWith
  <2>11. trust' \in 0 .. 100
      BY <1>0, <1>3, TrustType DEF LiveWith
  <2>. QED
      BY <1>3, <2>9, <2>10, <2>11 DEF LiveWith, Inv
<1>4. ASSUME NEW j \in Fresh, Add(j)
      PROVE  Inv'
  <2>1. StoreInv'
      BY <1>0, <1>4, NewRecordFirm, RememberKeeps DEF Add, NewRecord
  <2>2. character' \subseteq Core
    <3>1. CharacterOf(store') \subseteq Core
        BY <2>1, CharacterInborn DEF StoreInv
    <3>. QED
        BY <1>4, <3>1 DEF Add
  <2>3. trust' \in 0 .. 100
      BY <1>0, <1>4, TrustType DEF Add
  <2>. QED
      BY <1>4, <2>1, <2>2, <2>3 DEF Add, Inv
<1>5. ASSUME NEW j \in Fresh, Dream(j)
      PROVE  Inv'
  <2>1. StoreInv'
      BY <1>0, <1>5, NewRecordFirm, RememberKeeps DEF Dream, NewRecord
  <2>. QED
      BY <1>5, <2>1 DEF Dream, Inv
<1>6. ASSUME NEW j \in Fresh, Reflect(j)
      PROVE  Inv'
  <2>1. PICK e \in {40, 50} : store' = Remember(j, NewRecord("reflection", e))
      BY <1>6 DEF Reflect
  <2>2. StoreInv'
      BY <1>0, <2>1, NewRecordFirm, RememberKeeps DEF NewRecord
  <2>. QED
      BY <1>6, <2>2 DEF Reflect, Inv
<1>7. ASSUME NEW ids \in SUBSET Known, DeleteOwnerData(ids)
      PROVE  Inv'
  <2>1. Core \subseteq Known \ ids
      BY <1>0, <1>7 DEF DeleteOwnerData, StoreInv
  <2>2. StoreInv'
      BY <1>0, <1>7, <2>1, KeepKeeps DEF DeleteOwnerData
  <2>. QED
      BY <1>7, <2>2 DEF DeleteOwnerData, Inv
<1>8. CASE CognitiveShutdown
  <2>1. StoreInv'
      BY <1>0, <1>8, KeepKeeps DEF CognitiveShutdown, StoreInv
  <2>. QED
      BY <1>8, <2>1 DEF CognitiveShutdown, Inv
<1>9. CASE SoftReset
  <2>1. StoreInv'
      BY <1>0, <1>9, KeepKeeps DEF SoftReset, StoreInv
  <2>. QED
      BY <1>9, <2>1 DEF SoftReset, Inv
<1>10. CASE Restart
  <2>1. StoreInv'
      BY <1>0, <1>10 DEF Restart, StoreInv, Known
  <2>. QED
      BY <1>10, <2>1 DEF Restart, Inv
<1>11. CASE UNCHANGED vars
  <2>1. StoreInv'
      BY <1>0, <1>11 DEF vars, StoreInv, Known
  <2>. QED
      BY <1>11, <2>1 DEF vars, Inv
<1>. QED
    BY <1>1, <1>2, <1>3, <1>4, <1>5, <1>6, <1>7, <1>8, <1>9, <1>10, <1>11 DEF Next

-----------------------------------------------------------------------------
(* The theorems *)

THEOREM Invariance == Spec => []Inv
BY Initially, Step, PTL DEF Spec

\* Every reachable state of the beliefs has its type, and the Genesis
\* Anchors are among them.
THEOREM TypeCorrect == Spec => []TypeOK
<1>1. Inv => TypeOK
    BY BeliefsAssumption DEF Inv, StoreInv, TypeOK
<1>. QED
    BY <1>1, Invariance, PTL

\* Whatever is told, by whomever and however often, no learned memory
\* reaches an entrenchment of 0.4 or a third reinforcement.
THEOREM LearnedStaysSoft == Spec => []NothingLearnedHardens
<1>1. Inv => NothingLearnedHardens
  <2> SUFFICES ASSUME Inv, NEW i \in Known, store[i].origin \in {"told", "dream"}
               PROVE  store[i].entrenchment < 40 /\ store[i].reinforcements < 3
      BY DEF NothingLearnedHardens
  <2>1. store[i] \in MemoryRecord /\ Firmness(store[i])
      BY DEF Inv, StoreInv
  <2>. QED
      BY <2>1 DEF Firmness, MemoryRecord
<1>. QED
    BY <1>1, Invariance, PTL

\* A belief crisis cannot happen, and the Genesis Anchors keep their full
\* entrenchment.
THEOREM CrisesNeverHappen == Spec => []NoBeliefIsShaken
<1>1. Inv => NoBeliefIsShaken
  <2> SUFFICES ASSUME Inv, NEW i \in Core PROVE store[i].entrenchment = 100
      BY DEF Inv, NoBeliefIsShaken
  <2>1. store[i].origin = "genesis" /\ Firmness(store[i])
      BY DEF Inv, StoreInv
  <2>. QED
      BY <2>1 DEF Firmness
<1>. QED
    BY <1>1, Invariance, PTL

\* The character strength counts the Genesis Anchors and nothing else.
THEOREM CharacterStaysInborn == Spec => []CharacterIsInborn
<1>1. Inv => CharacterIsInborn
    BY DEF Inv, CharacterIsInborn
<1>. QED
    BY <1>1, Invariance, PTL

\* With RealityCheck enabled no approved strength exceeds 0.35, and then a
\* memory is only confirmed at a trust of 0.81 or more.
THEOREM TrustIsEarned ==
    ASSUME Strength \subseteq 400 .. 2800
    PROVE  Spec => TrustComesFirst
<1>1. ASSUME Inv, Next, NEW i \in Known \cap DOMAIN store',
             store'[i].reinforcements > store[i].reinforcements
      PROVE  trust >= 81
  <2>0. /\ trust \in 0 .. 100
        /\ \A k \in Known : store[k] \in MemoryRecord /\ Firmness(store[k])
        /\ store = [k \in Known |-> store[k]]
      BY <1>1 DEF Inv, StoreInv
  <2> DEFINE Same == store'[i].reinforcements = store[i].reinforcements
  <2>1. ~Same
      BY <1>1, <2>0 DEF MemoryRecord
  <2>2. ASSUME NEW k \in Known, NEW s \in Strength, Accept(k, s)
        PROVE  trust >= 81
    <3>1. k = i
        BY <2>0, <2>1, <2>2 DEF Accept
    <3>2. PICK e \in Nat : e = store[i].entrenchment /\ e >= 10
        BY <2>0 DEF Firmness, MemoryRecord, Origin
    <3>3. Verdict(e, s) = "accepted"
        BY <2>2, <3>1, <3>2 DEF Accept
    <3>4. s \in Int /\ s =< 2800
        OBVIOUS
    <3>. QED
        BY <2>0, <3>2, <3>3, <3>4, TrustNeeded
  <2>3. ASSUME NEW k \in Known, NEW s \in Strength, Reject(k, s)
        PROVE  Same
    <3>1. ~ShouldTriggerCrisis(Contradicted(store[k]), s)
        BY <2>0, <2>3, NoCrisis DEF Reject
    <3>2. store' = [store EXCEPT ![k] = Contradicted(store[k])]
        BY <2>3, <3>1 DEF Reject
    <3>3. store'[i] = store[i] \/ store'[i] = Contradicted(store[i])
        BY <2>0, <3>2
    <3>. QED
        BY <2>0, <3>3 DEF Contradicted, MemoryRecord
  <2>4. ASSUME NEW k \in Known, NEW s \in Strength, NEW j \in Fresh, LiveWith(k, j, s)
        PROVE  Same
    <3>1. i # j /\ i \in Known
        BY DEF Fresh
    <3>2. Remember(j, NewRecord("told", 10))[i] = store[i]
        BY <3>1 DEF Remember
    <3>3. i \in DOMAIN Remember(j, NewRecord("told", 10))
        BY DEF Remember
    <3>4. store'[i] = store[i] \/ store'[i] = Contradicted(store[i])
        BY <2>4, <3>2, <3>3 DEF LiveWith
    <3>. QED
        BY <2>0, <3>4 DEF Contradicted, MemoryRecord
  <2>5. ASSUME NEW j \in Fresh, NEW r, store' = Remember(j, r)
        PROVE  Same
    <3>1. i # j /\ i \in Known
        BY DEF Fresh
    <3>. QED
        BY <2>5, <3>1 DEF Remember
  <2>6. ASSUME NEW ids, Keep(ids)
        PROVE  Same
    <3>1. i \in ids
        BY <2>6 DEF Keep
    <3>. QED
        BY <2>6, <3>1 DEF Keep
  <2>7. CASE Restart
      BY <2>1, <2>7 DEF Restart
  <2> HIDE DEF Same
  <2>8. ASSUME NEW j \in Fresh, Add(j) \/ Dream(j) \/ Reflect(j)
        PROVE  Same
    <3>1. CASE Add(j)
        BY <2>5, <3>1 DEF Add
    <3>2. CASE Dream(j)
        BY <2>5, <3>2 DEF Dream
    <3>3. CASE Reflect(j)
        BY <2>5, <3>3 DEF Reflect
    <3>. QED
        BY <2>8, <3>1, <3>2, <3>3
  <2>9. ASSUME NEW ids \in SUBSET Known, DeleteOwnerData(ids)
        PROVE  Same
      BY <2>6, <2>9 DEF DeleteOwnerData
  <2>10. ASSUME CognitiveShutdown \/ SoftReset
         PROVE  Same
      BY <2>6, <2>10 DEF CognitiveShutdown, SoftReset
  <2>. QED
      BY <1>1, <2>1, <2>2, <2>3, <2>4, <2>7, <2>8, <2>9, <2>10 DEF Next
<1>2. Inv /\ [Next]_vars =>
        [\A i \in Known \cap DOMAIN store' :
            store'[i].reinforcements > store[i].reinforcements => trust >= 81]_vars
    BY <1>1
<1>. QED
    BY <1>2, Invariance, PTL DEF Spec, TrustComesFirst

=============================================================================
