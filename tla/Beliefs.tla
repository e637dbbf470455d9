------------------------------ MODULE Beliefs ------------------------------
(***************************************************************************)
(* What the mind believes, and how firmly: the entrenchment of its         *)
(* memories, the trust it has in the people it talks with, and the belief  *)
(* crises (_add_memory_from_pending of cognitio/engine.py, with biases.py, *)
(* character.py and reality_check.py).                                     *)
(*                                                                         *)
(* Entrenchment and trust are floats between 0 and 1 that only move by     *)
(* hundredths, and are counted in hundredths here.  The strength of new    *)
(* information is its adjusted confidence, counted in 1/8000: in this unit *)
(* the argument of the logistic function in update_probability is the      *)
(* integer Odds, and its thresholds are rounded up to the next integer.    *)
(*                                                                         *)
(* _save_lock makes one call of _add_memory_from_pending one step.  Which  *)
(* memories the vector index finds similar to the new one is left open.    *)
(* A crash takes the mind to where an orderly restart after its last save  *)
(* would have: it adds a step here, and no state.                          *)
(***************************************************************************)
EXTENDS Integers, FiniteSets

CONSTANTS Id,                 \* of memory records
          Core,               \* of the Genesis Anchors
          Strength,           \* the adjusted confidences RealityCheck approves
          MaxContradictions   \* bound of this model

\* validate() is given a confidence of 0.5, multiplies it by factors up to 1
\* and refuses less than 0.05.
ASSUME BeliefsAssumption ==
    /\ Core \subseteq Id
    /\ Strength \subseteq 400 .. 4000
    /\ MaxContradictions \in Nat

VARIABLES
    store,        \* the active records of memory_store
    trust,        \* halo._trust_store["default"]: one figure for everyone
    crises,       \* character.active_crises
    crisisRefs,   \* garbage_collector._crisis_memory_ids
    character     \* the records state.character_strength was computed from

vars == <<store, trust, crises, crisisRefs, character>>

Origin == {"genesis", "told", "dream", "reflection"}

MemoryRecord == [origin : Origin, entrenchment : 0 .. 100,
                 reinforcements : Nat, contradictions : Nat]

NewRecord(origin, entrenchment) ==
    [origin |-> origin, entrenchment |-> entrenchment,
     reinforcements |-> 0, contradictions |-> 0]

Known == DOMAIN store
Fresh == Id \ Known
Remember(i, record) == [j \in Known \cup {i} |-> IF j = i THEN record ELSE store[j]]

TypeOK ==
    /\ Known \subseteq Id
    /\ store \in [Known -> MemoryRecord]
    /\ Core \subseteq Known
    /\ \A i \in Known : i \in Core <=> store[i].origin = "genesis"
    /\ trust \in 0 .. 100
    /\ crises \subseteq Id /\ crisisRefs \subseteq Id /\ character \subseteq Id

Init ==
    /\ store = [i \in Core |-> NewRecord("genesis", 100)]
    /\ trust = 50
    /\ crises = {} /\ crisisRefs = {} /\ character = {}

-----------------------------------------------------------------------------
(* The biases *)

\* 8000 * (new_strength - existing_entrenchment * effective_resistance), for
\* a resistance of 2.5 * (1 - trust / 2).
\* MUTANT of Odds: a trusted source takes all of the resistance away.
OddsTrusting(entrenchment, strength) == strength - 2 * entrenchment * (100 - trust)

Odds(entrenchment, strength) == strength - entrenchment * (200 - trust)

\* The logistic function reaches 0.55, 0.35 and 0.2 at 0.20067, -0.61904 and
\* -1.38629.
\* MUTANT of Verdict: the threshold of an ambivalent verdict accepts.
VerdictLenient(entrenchment, strength) ==
    LET odds == Odds(entrenchment, strength)
    IN  CASE odds >= -4952                    -> "accepted"
          [] odds >= -11090 /\ odds < -4952   -> "pending"
          [] odds < -11090                    -> "rejected"

Verdict(entrenchment, strength) ==
    LET odds == Odds(entrenchment, strength)
    IN  CASE odds >= 1606                     -> "accepted"
          [] odds >= -4952  /\ odds < 1606    -> "ambivalent"
          [] odds >= -11090 /\ odds < -4952   -> "pending"
          [] odds < -11090                    -> "rejected"

Bounded(n) == IF n < 0 THEN 0 ELSE IF n > 100 THEN 100 ELSE n

\* An ambivalent verdict counts as accepted, a pending one changes nothing.
TrustAfter(verdict) ==
    Bounded(CASE verdict \in {"accepted", "ambivalent"} -> trust + 1
              [] verdict = "rejected"                   -> trust - 2
              [] verdict = "pending"                    -> trust)

Reinforced(record) ==
    [record EXCEPT !.reinforcements = @ + 1, !.entrenchment = Bounded(@ + 8)]

Contradicted(record) == [record EXCEPT !.contradictions = @ + 1]

\* A crisis takes five contradictions, by information of more than 0.6 of
\* the belief's entrenchment.
\* MUTANT of ShouldTriggerCrisis: contradictions are counted, not weighed.
ShouldTriggerCrisisAlways(record, strength) == record.contradictions >= 5

ShouldTriggerCrisis(record, strength) ==
    record.contradictions >= 5 /\ strength > 48 * record.entrenchment

\* trigger_belief_crisis.
Shaken(record) == [record EXCEPT !.entrenchment = 50]

\* The records of an entrenchment above 0.6, which make up the character.
\* MUTANT of CharacterOf: the threshold of update_personality is used.
CharacterOfFirm(records) == {i \in DOMAIN records : records[i].entrenchment > 30}

CharacterOf(records) == {i \in DOMAIN records : records[i].entrenchment > 60}

-----------------------------------------------------------------------------
(* New information *)

\* The first similar memory whose verdict is not "pending" decides.  It is
\* reinforced,
Accept(i, strength) ==
    /\ Verdict(store[i].entrenchment, strength) = "accepted"
    /\ store' = [store EXCEPT ![i] = Reinforced(@)]
    /\ trust' = TrustAfter("accepted")
    /\ UNCHANGED <<crises, crisisRefs, character>>

\* or both are kept side by side,
LiveWith(i, j, strength) ==
    /\ Verdict(store[i].entrenchment, strength) = "ambivalent"
    /\ store[i].contradictions < MaxContradictions
    /\ store' = [Remember(j, NewRecord("told", 10)) EXCEPT ![i] = Contradicted(@)]
    /\ trust' = TrustAfter("ambivalent")
    /\ character' = CharacterOf(store')
    /\ UNCHANGED <<crises, crisisRefs>>

\* or the new information is refused, which may shake the belief.
Reject(i, strength) ==
    LET record == Contradicted(store[i])
        crisis == ShouldTriggerCrisis(record, strength)
    IN  /\ Verdict(store[i].entrenchment, strength) = "rejected"
        /\ store[i].contradictions < MaxContradictions
        /\ store' = [store EXCEPT ![i] =
                        IF crisis THEN Shaken(record) ELSE record]
        /\ crises' = IF crisis THEN crises \cup {i} ELSE crises
        /\ crisisRefs' = IF crisis THEN crisisRefs \cup {i} ELSE crisisRefs
        /\ trust' = TrustAfter("rejected")
        /\ UNCHANGED character

\* Nothing similar, or nothing but "pending" verdicts, which hold nothing up:
\* the new memory is added.
Add(j) ==
    /\ store' = Remember(j, NewRecord("told", 10))
    /\ trust' = TrustAfter("pending")
    /\ character' = CharacterOf(store')
    /\ UNCHANGED <<crises, crisisRefs>>

\* An insight of the dream cycle, a differential and a narrative reflection
\* are stored as they are.
Dream(j) ==
    /\ store' = Remember(j, NewRecord("dream", 15))
    /\ UNCHANGED <<trust, crises, crisisRefs, character>>

Reflect(j) ==
    /\ \E entrenchment \in {40, 50} : store' = Remember(j, NewRecord("reflection", entrenchment))
    /\ UNCHANGED <<trust, crises, crisisRefs, character>>

-----------------------------------------------------------------------------
(* Forgetting *)

Keep(ids) == store' = [i \in ids |-> store[i]]

\* A person's records are erased; reflections belong to nobody.
DeleteOwnerData(ids) ==
    /\ \A i \in ids : store[i].origin \in {"told", "dream"}
    /\ Keep(Known \ ids)
    /\ UNCHANGED <<trust, crises, crisisRefs, character>>

\* The kill switch leaves the crises alone, and a soft reset the trust.
CognitiveShutdown ==
    /\ Keep(Core)
    /\ character' = {}
    /\ UNCHANGED <<trust, crises, crisisRefs>>

SoftReset ==
    /\ Keep(Core)
    /\ character' = {} /\ crises' = {}
    /\ UNCHANGED <<trust, crisisRefs>>

\* Trust and crises live in memory only.
Restart ==
    /\ trust' = 50
    /\ crises' = {} /\ crisisRefs' = {}
    /\ UNCHANGED <<store, character>>

-----------------------------------------------------------------------------
Next ==
    \/ \E i \in Known, strength \in Strength :
          \/ Accept(i, strength)
          \/ Reject(i, strength)
          \/ \E j \in Fresh : LiveWith(i, j, strength)
    \/ \E j \in Fresh : Add(j) \/ Dream(j) \/ Reflect(j)
    \/ \E ids \in SUBSET Known \ {{}} : DeleteOwnerData(ids)
    \/ CognitiveShutdown
    \/ SoftReset
    \/ Restart

Spec == Init /\ [][Next]_vars

-----------------------------------------------------------------------------
(* Properties *)

\* However often a memory is confirmed, and whoever confirms it, it never
\* reaches the entrenchment of 0.4 that protects from the garbage collector:
\* the resistance of the biases outgrows every strength RealityCheck can
\* approve first.  Only the reflections are born with more.
NothingLearnedHardens ==
    \A i \in Known : store[i].origin \in {"told", "dream"} =>
        store[i].entrenchment < 40 /\ store[i].reinforcements < 3

\* No belief is ever in crisis.  A Genesis Anchor, the only memory firm
\* enough to reject anything, keeps its full entrenchment however often it is
\* contradicted: no approved strength exceeds 0.6 of it.
NoBeliefIsShaken ==
    /\ crises = {} /\ crisisRefs = {}
    /\ \A i \in Core : store[i].entrenchment = 100

\* character_strength counts the Genesis Anchors and nothing the mind has
\* lived through.
CharacterIsInborn == character \subseteq Core

\* With RealityCheck enabled a memory is only confirmed once the one figure
\* of trust has climbed from 0.5 to 0.81: in a run of the program this takes
\* 31 statements the mind found ambivalent.
TrustComesFirst ==
    [][\A i \in Known \cap DOMAIN store' :
          store'[i].reinforcements > store[i].reinforcements => trust >= 81]_vars

=============================================================================
