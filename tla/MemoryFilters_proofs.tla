------------------------ MODULE MemoryFilters_proofs ------------------------
(***************************************************************************)
(* Proofs about MemoryFilters, for any number of threads, any intensities  *)
(* and memories without end: what the two counts admit, and that a claim   *)
(* leaves the shield close to what it had seen.                            *)
(***************************************************************************)
EXTENDS MemoryFilters, FiniteSetTheorems, TLAPS

-----------------------------------------------------------------------------
(* Every variable keeps its type.                                          *)

\* The window holds numbers, at most three.
LEMMA HistoryType ==
    ASSUME history \in Seq(Nat), Len(history) <= WindowSize, NEW value \in Nat,
           UpdateHistory(value)
    PROVE  history' \in Seq(Nat) /\ Len(history') <= WindowSize
  BY DEF UpdateHistory, WindowSize

\* The sum of a full window is a number.
LEMMA WindowSumType ==
    ASSUME history \in Seq(Nat), Full
    PROVE  WindowSum \in Nat
<1>1. 1 \in DOMAIN history /\ 2 \in DOMAIN history /\ 3 \in DOMAIN history
      BY DEF Full, WindowSize
<1>2. history[1] \in Nat /\ history[2] \in Nat /\ history[3] \in Nat
      BY <1>1
<1> QED BY <1>2 DEF WindowSum

\* A percentage of a number below 50 is no more than the number.
LEMMA Percentage ==
    ASSUME NEW raw \in Nat, NEW percent \in Nat, percent < 50
    PROVE  (raw * percent) \div 100 \in Nat /\ (raw * percent) \div 100 <= raw
<1>1. raw * percent \in Nat /\ raw * percent <= raw * 100
      OBVIOUS
<1>2. \A n \in Nat : n <= raw * 100 => n \div 100 \in Nat /\ n \div 100 <= raw
      OBVIOUS
<1> QED BY <1>1, <1>2

\* A correction is a number no greater than the claim, and one in range leaves it
\* within the spike threshold of the window's average.
LEMMA CorrectionBounds ==
    ASSUME history \in Seq(Nat), NEW raw \in Nat, NEW manipulation \in Manipulation,
           NEW contextual \in Nat
    PROVE  LET value == ApplyCorrection(raw, manipulation, contextual)
           IN  /\ value \in Nat
               /\ value <= raw
               /\ Full /\ raw <= 100 => WindowSize * (value - SpikeThreshold) <= WindowSum
<1> DEFINE value == ApplyCorrection(raw, manipulation, contextual)
<1> HIDE DEF value
<1> USE WindowSumType DEF WindowSize, SpikeThreshold
<1>1. CASE manipulation = "strong"
  <2>1. value = raw \div 5
        BY <1>1 DEF value, ApplyCorrection
  <2> QED BY <2>1 DEF value
<1>2. CASE manipulation = "medium"
  <2>1. value = raw \div 2
        BY <1>2 DEF value, ApplyCorrection
  <2> QED BY <2>1 DEF value
<1>3. CASE manipulation = "none" /\ Spike(raw)
  <2>1. value = Least(raw, WindowSum \div WindowSize + SpikeStep)
        BY <1>3 DEF value, ApplyCorrection
  <2>2. WindowSum \in Nat
        BY <1>3 DEF Spike
  <2>3. WindowSum \div 3 \in Nat /\ 3 * (WindowSum \div 3) <= WindowSum
        BY <2>2
  <2> QED BY <2>1, <2>2, <2>3 DEF value, Least, SpikeStep
<1>4. CASE manipulation = "none" /\ ~Spike(raw)
  <2>1. value = IF contextual < 50 THEN (raw * contextual) \div 100 ELSE raw
        BY <1>4 DEF value, ApplyCorrection
  <2>2. value \in Nat /\ value <= raw
        BY <2>1, Percentage
  <2>3. Full => 3 * (raw - 50) <= WindowSum
        BY <1>4 DEF Spike
  <2> QED BY <2>2, <2>3 DEF value
<1> QED BY <1>1, <1>2, <1>3, <1>4 DEF Manipulation

\* What validation makes of a claim is a number.
LEMMA ContextualType ==
    ASSUME NEW raw \in Nat, NEW calm \in BOOLEAN
    PROVE  ContextualValidation(raw, calm) \in Nat
  BY DEF ContextualValidation, Most

\* The initial state is well formed.
LEMMA InitType == Init => TypeOK
  BY DEF Init, TypeOK, Idle, Local, PC, WindowSize, CooldownMessages

\* What a claim is during a cooldown.
LEMMA CappedClaim ==
    ASSUME NEW raw \in Nat
    PROVE  Least(raw, CooldownCap) \in Nat /\ Least(raw, CooldownCap) <= CooldownCap
  BY DEF Least, CooldownCap

\* The step of a thread leaves the threads' states well formed.
LEMMA BecomesType ==
    ASSUME local \in [Thread -> Local], NEW t \in Thread, NEW l \in Local, Becomes(t, l)
    PROVE  /\ local' \in [Thread -> Local]
           /\ local'[t] = l
           /\ \A u \in Thread : u # t => local'[u] = local[u]
  BY DEF Becomes

\* Every step keeps the types.
LEMMA TypeInductive == TypeOK /\ [Next]_vars => TypeOK'
<1> SUFFICES ASSUME TypeOK, [Next]_vars
             PROVE  TypeOK'
    OBVIOUS
<1>e. enabled' = enabled
      BY DEF Next, vars
<1> USE <1>e DEF TypeOK
<1>1. CASE UNCHANGED vars
      BY <1>1 DEF vars, shield
<1>2. ASSUME NEW t \in Thread, NEW raw \in Intensity, EvaluateInCooldown(t, raw)
      PROVE  TypeOK'
  <2>1. Least(raw, CooldownCap) \in Nat
        BY MemoryFiltersAssumption, CappedClaim
  <2>2. [Idle EXCEPT !.pc = "check", !.value = Least(raw, CooldownCap)] \in Local
        BY <2>1 DEF Idle, Local, PC
  <2>3. local' \in [Thread -> Local]
        BY <1>2, <2>2, BecomesType DEF EvaluateInCooldown
  <2>4. history' \in Seq(Nat) /\ Len(history') <= WindowSize
        BY <1>2, <2>1, HistoryType DEF EvaluateInCooldown
  <2> QED BY <1>2, <2>3, <2>4 DEF EvaluateInCooldown, Cooldown, CooldownMessages
<1>3. ASSUME NEW t \in Thread, NEW raw \in Intensity, Evaluate(t, raw)
      PROVE  TypeOK'
  <2>1. [Idle EXCEPT !.pc = "detect", !.value = raw] \in Local
        BY MemoryFiltersAssumption DEF Idle, Local, PC
  <2>2. local' \in [Thread -> Local]
        BY <1>3, <2>1, BecomesType DEF Evaluate
  <2> QED BY <1>3, <2>2 DEF Evaluate, shield
<1>4. ASSUME NEW t \in Thread, Detect(t)
      PROVE  TypeOK'
  <2>1. PICK manipulation \in Manipulation, calm \in BOOLEAN :
            Becomes(t, [local[t] EXCEPT
                !.pc = "settle",
                !.value = ApplyCorrection(local[t].value, manipulation,
                              ContextualValidation(local[t].value, calm))])
        BY <1>4 DEF Detect
  <2>2. local[t].value \in Nat
        BY DEF Local
  <2>3. ApplyCorrection(local[t].value, manipulation,
                        ContextualValidation(local[t].value, calm)) \in Nat
        BY <2>2, ContextualType, CorrectionBounds
  <2>4. local' \in [Thread -> Local]
        BY <2>1, <2>3, BecomesType DEF Local, PC
  <2> QED BY <1>4, <2>4 DEF Detect, shield
<1>5. ASSUME NEW t \in Thread, Settle(t)
      PROVE  TypeOK'
  <2>1. local[t].value \in Nat /\ Least(100, local[t].value) \in Nat
        BY DEF Local, Least
  <2>2. local' \in [Thread -> Local]
        BY <1>5, <2>1, BecomesType DEF Settle, Local, PC
  <2>3. history' \in Seq(Nat) /\ Len(history') <= WindowSize
        BY <1>5, <2>1, HistoryType DEF Settle
  <2>4. cooldown' \in 0 .. CooldownMessages /\ highEmotions' \in Nat
        BY <1>5 DEF Settle, CooldownMessages
  <2> QED BY <1>5, <2>2, <2>3, <2>4 DEF Settle
<1>6. ASSUME NEW t \in Thread, RejectViolation(t) \/ DetectOutliers(t)
      PROVE  TypeOK'
  <2>1. CASE RejectViolation(t)
    <3>1. local' \in [Thread -> Local]
          BY <2>1, BecomesType DEF RejectViolation, Idle, Local, PC
    <3> QED BY <2>1, <3>1 DEF RejectViolation, shield
  <2>2. CASE DetectOutliers(t)
    <3>1. [local[t] EXCEPT !.pc = "cap", !.limited = sessionHigh >= HighCount] \in Local
      <4>1. \A limited \in BOOLEAN :
                [local[t] EXCEPT !.pc = "cap", !.limited = limited] \in Local
            BY DEF Local, PC
      <4>2. (sessionHigh >= HighCount) \in BOOLEAN
            OBVIOUS
      <4> QED BY <4>1, <4>2
    <3>2. local' \in [Thread -> Local]
          BY <2>2, <3>1, BecomesType DEF DetectOutliers
    <3> QED BY <2>2, <3>2 DEF DetectOutliers, shield
  <2> QED BY <1>6, <2>1, <2>2
<1>7. ASSUME NEW t \in Thread, NEW source \in Source, NEW consistent \in BOOLEAN,
             Decide(t, source, consistent)
      PROVE  TypeOK'
  <2>1. local' \in [Thread -> Local]
        BY <1>7, BecomesType DEF Decide, Idle, Local, PC
  <2> QED BY <1>7, <2>1 DEF Decide, shield
<1>8. ASSUME NEW t \in Thread, ApproveUnchecked(t)
      PROVE  TypeOK'
  <2>1. local' \in [Thread -> Local]
        BY <1>8, BecomesType DEF ApproveUnchecked, Idle, Local, PC
  <2> QED BY <1>8, <2>1 DEF ApproveUnchecked, shield
<1> QED BY <1>1, <1>2, <1>3, <1>4, <1>5, <1>6, <1>7, <1>8 DEF Next, Step

\* Type correctness: the window never grows beyond three and no count goes below
\* zero (emotion_shield.py:138-152, 348-352).
THEOREM TypeCorrect == Spec => []TypeOK
  BY InitType, TypeInductive, PTL DEF Spec

-----------------------------------------------------------------------------
(* High-emotion memories.                                                  *)

\* The threads that saw the limit open and have not counted their memory yet.
Admitted == {t \in Thread : local[t].pc = "cap" /\ ~local[t].limited}

\* Each admitted thread holds a place: a limited memory cannot be high, for it is
\* a claim in range, halved.
PlacesAreHeld ==
    /\ enabled => vivid <= sessionHigh
    /\ \A t \in Thread : local[t].pc \in {"check", "cap"} => local[t].value <= 100
    /\ sessionHigh + Cardinality(Admitted) <= HighCount - 1 + Cardinality(Thread)

VividInvariant == TypeOK /\ PlacesAreHeld

\* A set of threads is finite and no larger than the threads.
LEMMA Threads ==
    /\ Cardinality(Thread) \in Nat
    /\ \A T \in SUBSET Thread : /\ IsFiniteSet(T)
                                /\ Cardinality(T) \in Nat
                                /\ Cardinality(T) <= Cardinality(Thread)
  BY MemoryFiltersAssumption, FS_Subset, FS_CardinalityType

\* A thread that leaves a set of threads leaves one less, if it was there.
LEMMA Leaves ==
    ASSUME NEW T \in SUBSET Thread, NEW t
    PROVE  Cardinality(T \ {t}) = IF t \in T THEN Cardinality(T) - 1 ELSE Cardinality(T)
  BY Threads, FS_RemoveElement

\* At first no place is held.
LEMMA VividInit == Init => VividInvariant
<1> SUFFICES ASSUME Init PROVE VividInvariant
    OBVIOUS
<1>1. Admitted = {}
      BY DEF Init, Admitted, Idle
<1>2. Cardinality({}) = 0
      BY FS_EmptySet
<1> QED BY InitType, Threads, <1>1, <1>2
        DEF Init, VividInvariant, PlacesAreHeld, HighCount, Idle

\* A claim in range that is halved is not high.
LEMMA HalvedIsNotHigh ==
    ASSUME NEW value \in Nat, value <= 100, NEW source
    PROVE  /\ CapEmotionalIntensity(value, source, TRUE) \in Nat
           /\ ~High(CapEmotionalIntensity(value, source, TRUE))
<1>1. Least(value, 50) \in Nat /\ Least(value, 50) <= 100
      BY DEF Least
<1>2. \A own \in Nat : own <= 100 => own \div 2 \in Nat /\ own \div 2 <= 50
      OBVIOUS
<1> QED BY <1>1, <1>2 DEF CapEmotionalIntensity, High, HighThreshold

\* Every step leaves each place to one thread.
LEMMA VividInductive == VividInvariant /\ [Next]_vars => VividInvariant'
<1> SUFFICES ASSUME VividInvariant, [Next]_vars
             PROVE  PlacesAreHeld'
    BY TypeInductive DEF VividInvariant
<1>e. enabled' = enabled
      BY DEF Next, vars
<1> USE <1>e DEF VividInvariant, PlacesAreHeld
<1>0. local \in [Thread -> Local] /\ sessionHigh \in Nat /\ vivid \in Nat
      BY DEF TypeOK
<1>m. \A T, U \in SUBSET Thread : T \subseteq U => Cardinality(T) <= Cardinality(U)
      BY Threads, FS_Subset
<1>1. CASE UNCHANGED vars
      BY <1>1 DEF vars, shield, Admitted
\* A thread that is neither at "cap" nor gets there with an open limit leaves the
\* places as they are.
<1>n. ASSUME NEW t \in Thread, NEW l \in Local, Becomes(t, l),
             l.pc = "cap" => l.limited, l.pc \in {"check", "cap"} => l.value <= 100,
             UNCHANGED <<sessionHigh, vivid>>
      PROVE  PlacesAreHeld'
  <2>1. Admitted' \subseteq Admitted
        BY <1>n, <1>0, BecomesType DEF Admitted
  <2>2. Cardinality(Admitted') <= Cardinality(Admitted)
        BY <2>1, <1>m DEF Admitted
  <2>3. \A u \in Thread : local'[u].pc \in {"check", "cap"} => local'[u].value <= 100
        BY <1>n, <1>0, BecomesType
  <2> QED BY <2>2, <2>3, <1>0, <1>n, Threads DEF Admitted, HighCount
<1>2. ASSUME NEW t \in Thread, NEW raw \in Intensity,
             EvaluateInCooldown(t, raw) \/ Evaluate(t, raw)
      PROVE  PlacesAreHeld'
  <2>1. CASE EvaluateInCooldown(t, raw)
    <3>1. Least(raw, CooldownCap) \in Nat /\ Least(raw, CooldownCap) <= 100
          BY MemoryFiltersAssumption, CappedClaim DEF CooldownCap
    <3>2. Becomes(t, [Idle EXCEPT !.pc = "check", !.value = Least(raw, CooldownCap)])
          BY <2>1 DEF EvaluateInCooldown
    <3> QED BY <2>1, <3>1, <3>2, <1>n DEF EvaluateInCooldown, Idle, Local, PC
  <2>2. CASE Evaluate(t, raw)
        BY <2>2, <1>n, MemoryFiltersAssumption DEF Evaluate, Idle, Local, PC
  <2> QED BY <1>2, <2>1, <2>2
<1>3. ASSUME NEW t \in Thread, Detect(t)
      PROVE  PlacesAreHeld'
  <2>1. Admitted' = Admitted
        BY <1>3, <1>0 DEF Detect, At, Becomes, Admitted, Local
  <2>2. \A u \in Thread : local'[u].pc \in {"check", "cap"} => local'[u].value <= 100
        BY <1>3, <1>0 DEF Detect, At, Becomes, Local
  <2> QED BY <1>3, <2>1, <2>2 DEF Detect
<1>4. ASSUME NEW t \in Thread, Settle(t)
      PROVE  PlacesAreHeld'
  <2>1. Least(100, local[t].value) \in Nat /\ Least(100, local[t].value) <= 100
        BY <1>0 DEF Least, Local
  <2> QED BY <1>4, <2>1, <1>0, <1>n DEF Settle, Local, PC
<1>5. ASSUME NEW t \in Thread, RejectViolation(t)
      PROVE  PlacesAreHeld'
      BY <1>5, <1>n DEF RejectViolation, Idle, Local, PC
<1>6. ASSUME NEW t \in Thread, DetectOutliers(t)
      PROVE  PlacesAreHeld'
  <2>1. local[t].value <= 100
        BY <1>6 DEF DetectOutliers, At
  <2>2. \A u \in Thread : local'[u].pc \in {"check", "cap"} => local'[u].value <= 100
        BY <1>6, <2>1, <1>0 DEF DetectOutliers, At, Becomes, Local
  <2>3. CASE sessionHigh >= HighCount
    <3>1. Admitted' = Admitted
          BY <1>6, <2>3, <1>0 DEF DetectOutliers, At, Becomes, Admitted, Local
    <3> QED BY <1>6, <2>2, <3>1 DEF DetectOutliers
  <2>4. CASE sessionHigh < HighCount
    <3>1. Cardinality(Admitted') \in Nat /\ Cardinality(Admitted') <= Cardinality(Thread)
          BY Threads DEF Admitted
    <3> QED BY <1>6, <2>2, <2>4, <3>1, <1>0, Threads DEF DetectOutliers, HighCount
  <2> QED BY <2>3, <2>4, <1>0 DEF HighCount
<1>7. ASSUME NEW t \in Thread, NEW source \in Source, NEW consistent \in BOOLEAN,
             Decide(t, source, consistent)
      PROVE  PlacesAreHeld'
  <2> DEFINE intensity == CapEmotionalIntensity(local[t].value, source,
                              local[t].limited \/ Implausible(local[t].value, source))
  <2>1. local[t].value \in Nat /\ local[t].value <= 100 /\ local[t].pc = "cap"
        BY <1>7, <1>0 DEF Decide, At, Local
  <2>2. Admitted' = Admitted \ {t}
        BY <1>7, <1>0 DEF Decide, Becomes, Admitted, Idle
  <2>3. \A u \in Thread : local'[u].pc \in {"check", "cap"} => local'[u].value <= 100
        BY <1>7, <1>0 DEF Decide, Becomes, Idle
  <2>4. /\ sessionHigh' = sessionHigh + (IF High(intensity) THEN 1 ELSE 0)
        /\ vivid' = vivid + (IF High(intensity) /\ consistent THEN 1 ELSE 0)
        BY <1>7 DEF Decide
  <2>5. High(intensity) => t \in Admitted
    <3>1. SUFFICES ASSUME local[t].limited PROVE ~High(intensity)
          BY <2>1 DEF Admitted
    <3>2. intensity = CapEmotionalIntensity(local[t].value, source, TRUE)
          BY <3>1
    <3> QED BY <3>2, <2>1, HalvedIsNotHigh
  <2>6. Cardinality(Admitted') = IF t \in Admitted THEN Cardinality(Admitted) - 1
                                 ELSE Cardinality(Admitted)
        BY <2>2, Leaves DEF Admitted
  <2>7. Cardinality(Admitted) \in Nat
        BY Threads DEF Admitted
  <2> HIDE DEF intensity
  <2>8. (enabled => vivid <= sessionHigh)'
        BY <2>4, <1>0
  <2>9. sessionHigh' + Cardinality(Admitted') <= HighCount - 1 + Cardinality(Thread)
        BY <2>4, <2>5, <2>6, <2>7, <1>0, Threads DEF HighCount
  <2> QED BY <2>3, <2>8, <2>9
<1>8. ASSUME NEW t \in Thread, ApproveUnchecked(t)
      PROVE  PlacesAreHeld'
  <2>1. Admitted' = Admitted
        BY <1>8, <1>0 DEF ApproveUnchecked, At, Becomes, Admitted, Idle, Local
  <2>2. \A u \in Thread : local'[u].pc \in {"check", "cap"} => local'[u].value <= 100
        BY <1>8, <1>0 DEF ApproveUnchecked, At, Becomes, Idle, Local
  <2> QED BY <1>8, <2>1, <2>2 DEF ApproveUnchecked
<1> QED BY <1>1, <1>2, <1>3, <1>4, <1>5, <1>6, <1>7, <1>8 DEF Next, Step

\* However many threads integrate memories, and however many memories there are,
\* at most two and one for each thread are stored with a high intensity, unless
\* the check is turned off (reality_check.py:402-410, 560, 614-644).
THEOREM VividMemoriesStayFew == Spec => []VividMemoriesAreFew
<1>1. VividInvariant => VividMemoriesAreFew
  <2>1. Cardinality(Admitted) \in Nat
        BY Threads DEF Admitted
  <2> QED BY <2>1, Threads
          DEF VividInvariant, PlacesAreHeld, VividMemoriesAreFew, TypeOK, HighCount
<1> QED BY <1>1, VividInit, VividInductive, PTL DEF Spec

-----------------------------------------------------------------------------
(* High records and cooldowns.                                             *)

\* The threads whose claim is past the cooldown and not in the history yet.
Uncapped == {t \in Thread : local[t].pc \in {"detect", "settle"}}

\* What a number of capped evaluations paid for.
PaidBy(evaluations) == Cardinality(Thread) * (evaluations \div CooldownMessages)

\* A cooldown of which some messages are left was begun with the uncapped threads
\* on their way; those are all who may still add a high record before it ends.
CooldownsPay ==
    /\ cooldown = 0 => highEmotions <= HighCount - 1 + PaidBy(capped)
    /\ cooldown > 0 =>
        /\ capped >= CooldownMessages - cooldown
        /\ highEmotions + Cardinality(Uncapped)
               <= HighCount - 1 + PaidBy(capped + cooldown)

CooldownInvariant == TypeOK /\ CooldownsPay

\* Three more evaluations pay for one more record of each thread, and what was paid
\* for stays so.
LEMMA Payments ==
    ASSUME NEW m \in Nat, NEW n \in Nat, m <= n
    PROVE  /\ PaidBy(m) \in Nat
           /\ PaidBy(m) <= PaidBy(n)
           /\ PaidBy(n + CooldownMessages) = PaidBy(n) + Cardinality(Thread)
<1>1. \A a, b, k \in Nat : a <= b => k * a \in Nat /\ k * b \in Nat /\ k * a <= k * b
      OBVIOUS
<1>2. \A a, k \in Nat : k * (a + 1) = k * a + k
      OBVIOUS
<1>3. m \div 3 \in Nat /\ n \div 3 \in Nat /\ m \div 3 <= n \div 3
      OBVIOUS
<1>4. (n + 3) \div 3 = n \div 3 + 1
      OBVIOUS
<1> QED BY <1>1, <1>2, <1>3, <1>4, Threads DEF PaidBy, CooldownMessages

\* Every step leaves the records paid for.
LEMMA CooldownInductive == CooldownInvariant /\ [Next]_vars => CooldownInvariant'
<1> SUFFICES ASSUME CooldownInvariant, [Next]_vars
             PROVE  CooldownsPay'
    BY TypeInductive DEF CooldownInvariant
<1> USE DEF CooldownInvariant, CooldownsPay
<1>0. /\ local \in [Thread -> Local] /\ cooldown \in 0 .. 3
      /\ highEmotions \in Nat /\ capped \in Nat
      BY DEF TypeOK, CooldownMessages
<1>u. /\ Cardinality(Uncapped) \in Nat /\ Cardinality(Uncapped) <= Cardinality(Thread)
      /\ Cardinality(Thread) \in Nat
      BY Threads DEF Uncapped
<1>p. PaidBy(capped) \in Nat /\ PaidBy(capped) <= PaidBy(capped + cooldown)
      /\ PaidBy(capped + 3) = PaidBy(capped) + Cardinality(Thread)
      /\ PaidBy(capped + cooldown) <= PaidBy(capped + 3)
      /\ PaidBy(capped + cooldown) \in Nat
  <2>1. capped + cooldown \in Nat /\ capped + 3 \in Nat
        BY <1>0
  <2> QED BY <2>1, <1>0, Payments DEF CooldownMessages
\* A step of a thread that is uncapped neither before nor after it, or both.
<1>n. ASSUME NEW t \in Thread, NEW l \in Local, Becomes(t, l),
             l.pc \in {"detect", "settle"} <=> local[t].pc \in {"detect", "settle"}
      PROVE  Uncapped' = Uncapped
      BY <1>n, <1>0, BecomesType DEF Uncapped
<1>1. CASE UNCHANGED vars
      BY <1>1 DEF vars, shield, Uncapped, PaidBy
<1>2. ASSUME NEW t \in Thread, NEW raw \in Intensity, EvaluateInCooldown(t, raw)
      PROVE  CooldownsPay'
  <2>1. Uncapped' = Uncapped
    <3>1. Least(raw, CooldownCap) \in Nat
          BY MemoryFiltersAssumption, CappedClaim
    <3>2. Becomes(t, [Idle EXCEPT !.pc = "check", !.value = Least(raw, CooldownCap)])
          BY <1>2 DEF EvaluateInCooldown
    <3> QED BY <1>2, <3>1, <3>2, <1>n DEF EvaluateInCooldown, At, Idle, Local, PC
  <2>2. /\ cooldown > 0 /\ cooldown' = cooldown - 1 /\ capped' = capped + 1
        /\ highEmotions' = highEmotions
        BY <1>2 DEF EvaluateInCooldown, Cooldown
  <2>3. capped' + cooldown' = capped + cooldown
        BY <2>2, <1>0
  <2>4. highEmotions + Cardinality(Uncapped) <= HighCount - 1 + PaidBy(capped' + cooldown')
        BY <2>2, <2>3
  <2>5. PaidBy(capped' + cooldown') \in Nat
        BY <2>3, <1>p
  <2>6. cooldown' = 0 => capped' + cooldown' = capped'
        BY <2>2, <1>0
  <2>7. cooldown' = 0 => highEmotions' <= HighCount - 1 + PaidBy(capped')
        BY <2>2, <2>4, <2>5, <2>6, <1>0, <1>u DEF HighCount
  <2>8. cooldown' > 0 => capped' >= CooldownMessages - cooldown'
        BY <2>2, <1>0 DEF CooldownMessages
  <2> QED BY <2>1, <2>2, <2>4, <2>7, <2>8 DEF PaidBy
<1>3. ASSUME NEW t \in Thread, NEW raw \in Intensity, Evaluate(t, raw)
      PROVE  CooldownsPay'
      BY <1>3, <1>0 DEF Evaluate, Cooldown, shield, PaidBy
<1>4. ASSUME NEW t \in Thread, Detect(t)
      PROVE  CooldownsPay'
  <2>1. Uncapped' = Uncapped
        BY <1>4, <1>0 DEF Detect, At, Becomes, Uncapped, Local
  <2> QED BY <1>4, <2>1 DEF Detect, shield, PaidBy
<1>5. ASSUME NEW t \in Thread, Settle(t)
      PROVE  CooldownsPay'
  <2> DEFINE count == highEmotions + (IF High(local[t].value) THEN 1 ELSE 0)
  <2>1. Uncapped' = Uncapped \ {t} /\ t \in Uncapped
        BY <1>5, <1>0 DEF Settle, At, Becomes, Uncapped, Local
  <2>2. Cardinality(Uncapped') = Cardinality(Uncapped) - 1
        BY <2>1, Leaves DEF Uncapped
  <2>3. /\ highEmotions' = count /\ capped' = capped
        /\ cooldown' = IF High(local[t].value) /\ count >= HighCount THEN CooldownMessages
                       ELSE cooldown
        BY <1>5 DEF Settle
  <2>4. count \in Nat /\ count <= highEmotions + 1
        BY <1>0
  <2>5. High(local[t].value) \/ count = highEmotions
        BY <1>0
  <2> HIDE DEF count
  <2>6. CASE ~High(local[t].value)
    <3>1. count = highEmotions /\ cooldown' = cooldown
          BY <2>6, <2>5, <2>3
    <3> QED BY <3>1, <2>2, <2>3, <1>0, <1>u, <1>p DEF HighCount, PaidBy
  <2>7. CASE High(local[t].value) /\ count < HighCount
    <3>1. cooldown' = cooldown
          BY <2>7, <2>3, <2>4 DEF HighCount
    <3>2. highEmotions' + Cardinality(Uncapped') <= highEmotions + Cardinality(Uncapped)
          BY <2>2, <2>3, <2>4, <1>0, <1>u
    <3>3. cooldown = 0 => highEmotions' <= HighCount - 1 + PaidBy(capped)
          BY <2>7, <2>3, <2>4, <1>p DEF HighCount
    <3>4. cooldown > 0 => highEmotions' + Cardinality(Uncapped')
                              <= HighCount - 1 + PaidBy(capped + cooldown)
          BY <3>2, <2>2, <2>3, <2>4, <1>0, <1>u, <1>p DEF HighCount
    <3> QED BY <3>1, <3>3, <3>4, <2>3 DEF PaidBy
  <2>8. CASE High(local[t].value) /\ count >= HighCount
    <3>1. cooldown' = 3 /\ capped' >= CooldownMessages - cooldown'
          BY <2>8, <2>3, <1>0 DEF CooldownMessages
    <3>2. highEmotions' + Cardinality(Uncapped') <= highEmotions + Cardinality(Uncapped)
          BY <2>2, <2>3, <2>4, <1>0, <1>u
    <3>3. highEmotions + Cardinality(Uncapped) <= HighCount - 1 + PaidBy(capped + 3)
          BY <1>0, <1>u, <1>p DEF HighCount
    <3>4. highEmotions' + Cardinality(Uncapped') <= HighCount - 1 + PaidBy(capped + 3)
          BY <3>2, <3>3, <2>2, <2>3, <2>4, <1>0, <1>u, <1>p DEF HighCount
    <3> QED BY <3>1, <3>4, <2>3 DEF PaidBy
  <2> QED BY <2>4, <2>6, <2>7, <2>8 DEF HighCount
<1>6. ASSUME NEW t \in Thread, RejectViolation(t) \/ DetectOutliers(t)
      PROVE  CooldownsPay'
  <2>1. CASE RejectViolation(t)
    <3>1. Uncapped' = Uncapped
          BY <2>1, <1>0 DEF RejectViolation, At, Becomes, Uncapped, Local, Idle
    <3> QED BY <2>1, <3>1 DEF RejectViolation, shield, PaidBy
  <2>2. CASE DetectOutliers(t)
    <3>1. local[t].pc = "check" /\ local'[t].pc = "cap"
          BY <2>2, <1>0 DEF DetectOutliers, At, Becomes, Local
    <3>2. \A u \in Thread : u # t => local'[u] = local[u]
          BY <2>2, <1>0 DEF DetectOutliers, Becomes
    <3>3. Uncapped' = Uncapped
          BY <3>1, <3>2 DEF Uncapped
    <3> QED BY <2>2, <3>3 DEF DetectOutliers, shield, PaidBy
  <2> QED BY <1>6, <2>1, <2>2
<1>7. ASSUME NEW t \in Thread, NEW source \in Source, NEW consistent \in BOOLEAN,
             Decide(t, source, consistent)
      PROVE  CooldownsPay'
  <2>1. Uncapped' = Uncapped
        BY <1>7, <1>0 DEF Decide, At, Becomes, Uncapped, Local, Idle
  <2> QED BY <1>7, <2>1 DEF Decide, shield, PaidBy
<1>8. ASSUME NEW t \in Thread, ApproveUnchecked(t)
      PROVE  CooldownsPay'
  <2>1. Uncapped' = Uncapped
        BY <1>8, <1>0 DEF ApproveUnchecked, At, Becomes, Uncapped, Local, Idle
  <2> QED BY <1>8, <2>1 DEF ApproveUnchecked, shield, PaidBy
<1> QED BY <1>1, <1>2, <1>3, <1>4, <1>5, <1>6, <1>7, <1>8 DEF Next, Step

\* At first there is nothing to pay.
LEMMA CooldownInit == Init => CooldownInvariant
<1>1. PaidBy(0) \in Nat
      BY Payments
<1> QED BY <1>1, InitType DEF Init, CooldownInvariant, CooldownsPay, HighCount

\* From the third high record on, each thread gets at most one more for every three
\* capped evaluations (emotion_shield.py:138-152, 181-190).
THEOREM CooldownsArePaidFor == Spec => []HighRecordsArePaidFor
<1>1. CooldownInvariant => HighRecordsArePaidFor
  <2>1. SUFFICES ASSUME CooldownInvariant PROVE HighRecordsArePaidFor
        OBVIOUS
  <2> USE <2>1 DEF CooldownInvariant, CooldownsPay
  <2>2. /\ cooldown \in 0 .. 3 /\ highEmotions \in Nat /\ capped \in Nat
        /\ capped + cooldown \in Nat /\ capped + 3 \in Nat
        BY DEF TypeOK, CooldownMessages
  <2>3. /\ PaidBy(capped + 3) = PaidBy(capped) + Cardinality(Thread) /\ PaidBy(capped) \in Nat
        /\ PaidBy(capped + cooldown) <= PaidBy(capped + 3) /\ PaidBy(capped + cooldown) \in Nat
        BY <2>2, Payments DEF CooldownMessages
  <2>4. Cardinality(Uncapped) \in Nat /\ Cardinality(Thread) \in Nat
        BY Threads DEF Uncapped
  <2>5. highEmotions <= HighCount - 1 + PaidBy(capped) + Cardinality(Thread)
        BY <2>2, <2>3, <2>4 DEF HighCount
  <2>6. \A k, q \in Nat : k * (1 + q) = k * q + k
        OBVIOUS
  <2>7. capped \div 3 \in Nat
        BY <2>2
  <2>8. Cardinality(Thread) * (1 + capped \div CooldownMessages)
            = PaidBy(capped) + Cardinality(Thread)
        BY <2>4, <2>6, <2>7 DEF PaidBy, CooldownMessages
  <2> QED BY <2>2, <2>3, <2>4, <2>5, <2>8 DEF HighRecordsArePaidFor, HighCount
<1> QED BY <1>1, CooldownInit, CooldownInductive, PTL DEF Spec

-----------------------------------------------------------------------------
(* One evaluation.                                                         *)

\* A claim in range leaves the shield at most the spike threshold above the average
\* of a full window, whatever the language model and the embeddings say of it
\* (emotion_shield.py:160-179).
THEOREM EmotionBuildsUp == Spec => BuildsUp
<1> DEFINE A == \A t \in Thread :
           At(t, "detect") /\ Full /\ local[t].value <= 100 /\ local'[t].pc = "settle"
           => WindowSize * (local'[t].value - SpikeThreshold) <= WindowSum
<1>1. TypeOK /\ [Next]_vars => [A]_vars
  <2> SUFFICES ASSUME TypeOK, Next, NEW t \in Thread,
                      At(t, "detect"), Full, local[t].value <= 100, local'[t].pc = "settle"
               PROVE  WindowSize * (local'[t].value - SpikeThreshold) <= WindowSum
      OBVIOUS
  <2>0. local \in [Thread -> Local] /\ local[t].value \in Nat /\ history \in Seq(Nat)
        BY DEF TypeOK, Local
  <2>1. PICK u \in Thread : Step(u)
        BY DEF Next
  <2>2. u = t
        BY <2>0, <2>1 DEF Step, EvaluateInCooldown, Evaluate, Detect, Settle, RejectViolation,
                          ApproveUnchecked, DetectOutliers, Decide, Becomes, At
  <2>3. Detect(t)
        BY <2>0, <2>1, <2>2 DEF Step, EvaluateInCooldown, Evaluate, Detect, Settle,
                          RejectViolation, ApproveUnchecked, DetectOutliers, Decide, At
  <2>4. PICK manipulation \in Manipulation, calm \in BOOLEAN :
            local'[t].value = ApplyCorrection(local[t].value, manipulation,
                                  ContextualValidation(local[t].value, calm))
        BY <2>0, <2>3 DEF Detect, Becomes, Local
  <2> QED BY <2>0, <2>4, ContextualType, CorrectionBounds
<1> QED BY <1>1, TypeCorrect, PTL DEF Spec, BuildsUp

=============================================================================
