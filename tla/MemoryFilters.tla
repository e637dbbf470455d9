--------------------------- MODULE MemoryFilters ----------------------------
(***************************************************************************)
(* What a summary passes on its way to long-term memory: EmotionShield     *)
(* (cognitio/emotion_shield.py) and RealityCheck (cognitio/                *)
(* reality_check.py), called one after the other, without a lock, by every *)
(* thread that integrates memories (_add_memory_from_pending).  One life   *)
(* of an engine: nothing but its end resets the counts they share.         *)
(*                                                                         *)
(* Intensities are hundredths, rounded down.  What an embedding or the     *)
(* language model decides (manipulation, a violation of Layer 0, whether a *)
(* summary is consistent) is any of its outcomes.                          *)
(***************************************************************************)
EXTENDS Sequences, FiniteSets, Integers

CONSTANTS Thread,
          Intensity,    \* what summaries claim; the model's answer is not clamped
          Source,       \* source types; working memory passes "user_stated"
          MaxMemories   \* bound of the model

ASSUME MemoryFiltersAssumption ==
    /\ IsFiniteSet(Thread)
    /\ Intensity \subseteq Nat
    /\ MaxMemories \in Nat

VARIABLES
    enabled,        \* RealityCheck.enabled, which the terminal chat can turn off
    history,        \* EmotionShield._session_emotion_history: its window
    cooldown,       \* _cooldown_remaining
    highEmotions,   \* _high_emotion_count
    sessionHigh,    \* RealityCheck._session_high_emotional_count
    local,          \* the memory each thread is at, and what it knows of it
    begun,          \* how many memories were begun
    capped,         \* history: evaluations during a cooldown
    vivid           \* history: memories stored with a high intensity

shield == <<history, cooldown, highEmotions>>
vars == <<enabled, shield, sessionHigh, local, begun, capped, vivid>>

(* Thresholds and penalties of the two classes. *)
WindowSize == 3
SpikeThreshold == 50
SpikeStep == 20
CooldownMessages == 3
CooldownCap == 42          \* 0.6 of max_session_emotion_avg
HighThreshold == 70
HighCount == 3             \* of either count

PC == {"idle", "detect", "settle", "check", "cap"}
Local == [pc : PC, value : Nat, limited : BOOLEAN]
Idle == [pc |-> "idle", value |-> 0, limited |-> FALSE]

TypeOK ==
    /\ enabled \in BOOLEAN
    /\ history \in Seq(Nat) /\ Len(history) <= WindowSize
    /\ cooldown \in 0 .. CooldownMessages
    /\ {highEmotions, sessionHigh, begun, capped, vivid} \subseteq Nat
    /\ local \in [Thread -> Local]

Init ==
    /\ enabled \in BOOLEAN
    /\ history = <<>>
    /\ cooldown = 0
    /\ highEmotions = 0
    /\ sessionHigh = 0
    /\ local = [t \in Thread |-> Idle]
    /\ begun = 0
    /\ capped = 0
    /\ vivid = 0

At(t, pc) == local[t].pc = pc
Becomes(t, l) == local' = [local EXCEPT ![t] = l]

Least(a, b) == IF a <= b THEN a ELSE b
Most(a, b) == IF a >= b THEN a ELSE b
High(value) == value > HighThreshold

-----------------------------------------------------------------------------
(* EmotionShield.evaluate *)

\* _update_history, of whose 20 values the window is read.
UpdateHistory(value) ==
    LET longer == Append(history, value)
    IN  history' = IF Len(longer) > WindowSize THEN Tail(longer) ELSE longer

WindowSum == history[1] + history[2] + history[3]
Full == Len(history) = WindowSize

\* MUTANT of Spike: the claim is held against the last value only.
SinceLast(raw) == Full /\ raw - history[WindowSize] > SpikeThreshold

\* _detect_spike.  (raw - average > threshold, without the division.)
Spike(raw) == Full /\ WindowSize * (raw - SpikeThreshold) > WindowSum

\* Cosine scores of _detect_gaslighting_patterns, by the penalty they lead to.
Manipulation == {"none", "medium", "strong"}

\* _contextual_validation, in a calm conversation or in another.
ContextualValidation(raw, calm) ==
    IF calm /\ raw >= 30 THEN Most(10, 100 - raw) ELSE 100

\* _apply_correction; the first that applies.
ApplyCorrection(raw, manipulation, contextual) ==
    CASE manipulation = "strong" -> raw \div 5
      [] manipulation = "medium" -> raw \div 2
      [] manipulation = "none" /\ Spike(raw) ->
             Least(raw, WindowSum \div WindowSize + SpikeStep)
      [] manipulation = "none" /\ ~Spike(raw) ->
             IF contextual < 50 THEN (raw * contextual) \div 100 ELSE raw

\* MUTANT of Cooldown: it is over when one message is left.
CooldownButLast == cooldown > 1

Cooldown == cooldown > 0

\* During a cooldown the evaluation ends here.
EvaluateInCooldown(t, raw) ==
    /\ At(t, "idle") /\ begun < MaxMemories
    /\ Cooldown
    /\ cooldown' = cooldown - 1
    /\ UpdateHistory(Least(raw, CooldownCap))
    /\ Becomes(t, [Idle EXCEPT !.pc = "check", !.value = Least(raw, CooldownCap)])
    /\ begun' = begun + 1
    /\ capped' = capped + 1
    /\ UNCHANGED <<highEmotions, sessionHigh, vivid>>

\* Otherwise the message is embedded first, which takes its time ...
Evaluate(t, raw) ==
    /\ At(t, "idle") /\ begun < MaxMemories
    /\ ~Cooldown
    /\ Becomes(t, [Idle EXCEPT !.pc = "detect", !.value = raw])
    /\ begun' = begun + 1
    /\ UNCHANGED <<shield, sessionHigh, capped, vivid>>

\* ... then the claim is held against the history and the conversation ...
Detect(t) ==
    /\ At(t, "detect")
    /\ \E manipulation \in Manipulation, calm \in BOOLEAN :
           LET raw == local[t].value
           IN  Becomes(t, [local[t] EXCEPT
                   !.pc = "settle",
                   !.value = ApplyCorrection(raw, manipulation,
                                             ContextualValidation(raw, calm))])
    /\ UNCHANGED <<shield, sessionHigh, begun, capped, vivid>>

\* ... and counted.  The history keeps what the result clamps.
Settle(t) ==
    /\ At(t, "settle")
    /\ LET adjusted == local[t].value
           count == highEmotions + (IF High(adjusted) THEN 1 ELSE 0)
       IN  /\ highEmotions' = count
           /\ cooldown' = IF High(adjusted) /\ count >= HighCount THEN CooldownMessages
                          ELSE cooldown
           /\ UpdateHistory(adjusted)
           /\ Becomes(t, [local[t] EXCEPT !.pc = "check", !.value = Least(100, adjusted)])
    /\ UNCHANGED <<sessionHigh, begun, capped, vivid>>

-----------------------------------------------------------------------------
(* RealityCheck.validate *)

\* Layer 0: what attacks the Genesis Anchors goes no further.
RejectViolation(t) ==
    /\ At(t, "check")
    /\ Becomes(t, Idle)
    /\ UNCHANGED <<shield, sessionHigh, begun, capped, vivid>>

\* A check that is turned off tests nothing further and changes nothing.
ApproveUnchecked(t) ==
    /\ At(t, "check") /\ ~enabled
    /\ vivid' = vivid + (IF High(local[t].value) THEN 1 ELSE 0)
    /\ Becomes(t, Idle)
    /\ UNCHANGED <<shield, sessionHigh, begun, capped>>

\* outlier_detection, after the language model was asked for the consistency.
DetectOutliers(t) ==
    /\ At(t, "check") /\ enabled
    /\ Becomes(t, [local[t] EXCEPT !.pc = "cap", !.limited = sessionHigh >= HighCount])
    /\ UNCHANGED <<shield, sessionHigh, begun, capped, vivid>>

\* MUTANT of CapEmotionalIntensity: the flags change nothing.
CapInferredOnly(value, source, flagged) ==
    IF source = "llm_inferred" THEN Least(value, 50) ELSE value

CapEmotionalIntensity(value, source, flagged) ==
    LET own == IF source = "llm_inferred" THEN Least(value, 50) ELSE value
    IN  IF flagged THEN own \div 2 ELSE own

\* outlier_detection's other flag; no caller proposes an entrenchment.
Implausible(value, source) == value > 90 /\ source \notin {"user_stated", "external_fact"}

\* The count is for what was judged, approved or not; an inconsistent memory has
\* too little confidence left to be stored.
Decide(t, source, consistent) ==
    /\ At(t, "cap")
    /\ LET value == local[t].value
           intensity == CapEmotionalIntensity(value, source,
                            local[t].limited \/ Implausible(value, source))
       IN  /\ sessionHigh' = sessionHigh + (IF High(intensity) THEN 1 ELSE 0)
           /\ vivid' = vivid + (IF High(intensity) /\ consistent THEN 1 ELSE 0)
    /\ Becomes(t, Idle)
    /\ UNCHANGED <<shield, begun, capped>>

-----------------------------------------------------------------------------

Step(t) ==
    \/ \E raw \in Intensity : EvaluateInCooldown(t, raw) \/ Evaluate(t, raw)
    \/ Detect(t) \/ Settle(t)
    \/ RejectViolation(t) \/ ApproveUnchecked(t) \/ DetectOutliers(t)
    \/ \E source \in Source, consistent \in BOOLEAN : Decide(t, source, consistent)

Next == (\E t \in Thread : Step(t)) /\ UNCHANGED enabled

Spec == Init /\ [][Next]_vars

-----------------------------------------------------------------------------
(* Properties *)

\* reality_check.py:560.  However the threads interleave, the limit of three
\* high-emotion memories is passed by at most the threads that had seen it open,
\* unless the check is turned off (REALITY_CHECK_ENABLED, chat.py:143).
VividMemoriesAreFew == enabled => vivid <= HighCount + Cardinality(Thread) - 1

\* emotion_shield.py:181-190.  From the third high record on, the threads get one
\* more high record each for every three evaluations that were capped.
HighRecordsArePaidFor ==
    highEmotions <= HighCount - 1 + Cardinality(Thread) * (1 + capped \div CooldownMessages)

\* emotion_shield.py:6-8.  Emotion builds up: a claim in range leaves the shield
\* with no more than the average of a full window and the spike threshold.
BuildsUp ==
    [][\A t \in Thread :
           At(t, "detect") /\ Full /\ local[t].value <= 100 /\ local'[t].pc = "settle"
           => WindowSize * (local'[t].value - SpikeThreshold) <= WindowSum]_vars

=============================================================================
