--------------------------- MODULE Accounts_proofs ---------------------------
(***************************************************************************)
(* Proofs about Accounts: type correctness, the limit of each person, how  *)
(* far the number of accounts can exceed its limit, and how many wrong     *)
(* passwords an account can see.  The site's total is the number of its    *)
(* counted messages, so that its limit needs no induction over a sum.      *)
(*                                                                         *)
(* The last two parts are about WebMind, the scripts that forget what was  *)
(* told under an account, and delete everything.                           *)
(***************************************************************************)
EXTENDS Accounts, WebMind, FiniteSetTheorems, TLAPS

-----------------------------------------------------------------------------
(* Every variable keeps its type.                                          *)

\* A step that moves one session leaves every session's state well formed.
LEMMA GoesType ==
    ASSUME TypeOK, NEW s \in Session, NEW step \in Step, NEW u \in Username \cup {NoUser},
           Goes(s, step, u)
    PROVE  session' \in [Session -> SessionState]
  BY DEF Goes, TypeOK, SessionState

\* A row that is cleared is a well-formed row.
LEMMA ClearRowType ==
    ASSUME TypeOK, NEW u \in Username, ClearRow(u)
    PROVE  /\ failed' \in [Username -> 0 .. MaxFailedLogins - 1]
           /\ lockedUntil' \in [Username -> Nat]
           /\ wrongGuesses' \in [Username -> Nat]
           /\ lockouts' \in [Username -> Nat]
<1>1. 0 \in 0 .. MaxFailedLogins - 1
      BY AccountsAssumption
<1> QED BY <1>1 DEF ClearRow, TypeOK

\* The initial state is well formed.
LEMMA InitType == Init => TypeOK
  BY AccountsAssumption DEF Init, TypeOK, SessionState, Away, Step

\* A session that has left the login page has a user: the name it gave.
Named == \A s \in Session : session[s].step # "away" => session[s].user \in Username

TypedState == TypeOK /\ Named

LEMMA TypedInductive == TypedState /\ [Next]_vars => TypedState'
<1> SUFFICES ASSUME TypedState, [Next]_vars
             PROVE  TypedState'
    OBVIOUS
<1> USE AccountsAssumption
<1>n. ASSUME NEW s \in Session, NEW step \in Step, NEW u \in Username \cup {NoUser},
             Goes(s, step, u), step # "away" => u \in Username
      PROVE  session' \in [Session -> SessionState] /\ Named'
      BY <1>n, GoesType DEF Goes, TypedState, TypeOK, Named, SessionState
<1>1. CASE UNCHANGED vars
      BY <1>1 DEF TypedState, TypeOK, Named, vars, account, history
<1>2. CASE Tick
      BY <1>2 DEF TypedState, TypeOK, Named, Tick, account, history
<1>3. ASSUME NEW s \in Session, NEW u \in Username, SubmitLogin(s, u)
      PROVE  TypedState'
      BY <1>3, <1>n DEF TypedState, TypeOK, SubmitLogin, Step, account, history
<1>4. ASSUME NEW s \in Session, NEW u \in Username, SubmitRegistration(s, u)
      PROVE  TypedState'
      BY <1>4, <1>n DEF TypedState, TypeOK, SubmitRegistration, Step, account, history
<1>5. ASSUME NEW s \in Session, Refuse(s) \/ NameTaken(s) \/ LogOut(s) \/ Abandon(s)
      PROVE  TypedState'
      BY <1>5, <1>n DEF TypedState, TypeOK, Refuse, NameTaken, LogOut, Abandon, Step, account, history
<1>6. ASSUME NEW s \in Session, Say(s) \/ TurnAway(s) \/ Leave(s) \/ Fail(s)
      PROVE  TypedState'
  <2>1. session[s].user \in Username
        BY <1>6 DEF TypedState, Named, Say, TurnAway, Leave, Fail
  <2> QED BY <1>6, <1>n, <2>1 DEF TypedState, TypeOK, Say, TurnAway, Leave, Fail, Step, account, history
<1>7. ASSUME NEW s \in Session, AcceptPassword(s) \/ Register(s)
      PROVE  TypedState'
  <2>1. session[s].user \in Username
        BY <1>7 DEF TypedState, Named, AcceptPassword, Register
  <2>2. Goes(s, "chat", session[s].user) /\ ClearRow(session[s].user)
        BY <1>7 DEF AcceptPassword, Register
  <2>3. session' \in [Session -> SessionState] /\ Named'
        BY <1>n, <2>1, <2>2 DEF Step
  <2>4. registered' \subseteq Username /\ UNCHANGED <<clock, usage, spoken, departures>>
        BY <1>7, <2>1 DEF AcceptPassword, Register, TypedState, TypeOK
  <2> QED BY <2>1, <2>2, <2>3, <2>4, ClearRowType DEF TypedState, TypeOK
<1>8. ASSUME NEW s \in Session, RejectPassword(s)
      PROVE  TypedState'
  <2>1. session' \in [Session -> SessionState] /\ Named'
        BY <1>8, <1>n DEF RejectPassword, Step
  <2>2. session[s].at \in Nat
        BY DEF TypedState, TypeOK, SessionState
  <2>3. failed' \in [Username -> 0 .. MaxFailedLogins - 1]
        BY <1>8 DEF RejectPassword, Locks, TypedState, TypeOK
  <2>4. lockedUntil' \in [Username -> Nat]
        BY <1>8, <2>2 DEF RejectPassword, TypedState, TypeOK
  <2>5. wrongGuesses' \in [Username -> Nat] /\ lockouts' \in [Username -> Nat]
        BY <1>8 DEF RejectPassword, Locks, TypedState, TypeOK
  <2> QED BY <1>8, <2>1, <2>3, <2>4, <2>5 DEF RejectPassword, TypedState, TypeOK
<1>9. ASSUME NEW s \in Session, LetThrough(s)
      PROVE  TypedState'
  <2>1. session[s].user \in Username
        BY <1>9 DEF TypedState, Named, LetThrough
  <2>2. session' \in [Session -> SessionState] /\ Named'
        BY <1>9, <1>n, <2>1 DEF LetThrough, Step
  <2>3. usage' \in [Day -> [Username -> Nat]]
    <3> DEFINE day == DayOf(s)
               f == [usage[day] EXCEPT ![session[s].user] = @ + 1]
    <3>1. usage' = [usage EXCEPT ![day] = f]
          BY <1>9 DEF LetThrough
    <3>2. usage \in [Day -> [Username -> Nat]]
          BY DEF TypedState, TypeOK
    <3>3. day \in Day => f \in [Username -> Nat]
          BY <3>2, <2>1
    <3> HIDE DEF f, day
    <3> QED BY <3>1, <3>2, <3>3
  <2>4. spoken' \in [Day -> Nat]
    <3> DEFINE day == DayOf(s)
               n == spoken[day] + 1
    <3>1. spoken' = [spoken EXCEPT ![day] = n]
          BY <1>9 DEF LetThrough
    <3>2. spoken \in [Day -> Nat]
          BY DEF TypedState, TypeOK
    <3>3. day \in Day => n \in Nat
          BY <3>2
    <3> HIDE DEF day, n
    <3> QED BY <3>1, <3>2, <3>3
  <2> QED BY <1>9, <2>2, <2>3, <2>4 DEF LetThrough, TypedState, TypeOK, account
<1>10. ASSUME NEW s \in Session, DeleteAccount(s)
       PROVE  TypedState'
  <2>1. session' \in [Session -> SessionState] /\ Named'
        BY <1>10, <1>n DEF DeleteAccount, Step
  <2>2. usage' \in [Day -> [Username -> Nat]]
    <3>1. \A d \in Day : usage[d] \in [Username -> Nat]
          BY DEF TypedState, TypeOK
    <3>2. \A d \in Day : [usage[d] EXCEPT ![session[s].user] = 0] \in [Username -> Nat]
          BY <3>1
    <3> QED BY <1>10, <3>2 DEF DeleteAccount
  <2>3. session[s].user \in Username
        BY <1>10 DEF TypedState, Named, DeleteAccount
  <2>4. ClearRow(session[s].user)
        BY <1>10 DEF DeleteAccount
  <2> QED BY <1>10, <2>1, <2>2, <2>3, <2>4, ClearRowType DEF DeleteAccount, TypedState, TypeOK
<1> QED
    BY <1>1, <1>2, <1>3, <1>4, <1>5, <1>6, <1>7, <1>8, <1>9, <1>10 DEF Next

\* Every variable keeps its type in every behaviour of the specification.
THEOREM TypeCorrect == Spec => []TypeOK
<1>1. Init => TypedState
      BY InitType DEF TypedState, Named, Init, Away
<1>2. TypedState => TypeOK
      BY DEF TypedState
<1> QED BY <1>1, <1>2, TypedInductive, PTL DEF Spec

-----------------------------------------------------------------------------
(* No day's row exceeds a person's limit.                                  *)

LimitInv == TypedState /\ PersonalLimit

LEMMA InitLimit == Init => LimitInv
  BY InitType, AccountsAssumption
  DEF LimitInv, TypedState, Named, PersonalLimit, Init, Away

LEMMA LimitInductive == LimitInv /\ [Next]_vars => LimitInv'
<1> SUFFICES ASSUME LimitInv, [Next]_vars, TypedState'
             PROVE  PersonalLimit'
    BY TypedInductive DEF LimitInv
<1>1. CASE UNCHANGED usage
      BY <1>1 DEF LimitInv, PersonalLimit
<1>2. ASSUME NEW s \in Session, LetThrough(s)
      PROVE  PersonalLimit'
  <2> DEFINE u == session[s].user
             day == DayOf(s)
  <2>1. \A d \in Day, v \in Username : usage[d][v] \in Nat
        BY DEF LimitInv, TypedState, TypeOK
  <2>2. \A d \in Day, v \in Username :
            usage'[d][v] = IF d = day /\ v = u THEN usage[d][v] + 1 ELSE usage[d][v]
        BY <1>2 DEF LetThrough, LimitInv, TypedState, TypeOK
  <2>3. DailyLimit > 0 => ~(usage[day][u] >= DailyLimit)
        BY <1>2 DEF LetThrough, AtLimit
  <2> QED BY <2>1, <2>2, <2>3, AccountsAssumption DEF LimitInv, PersonalLimit
<1>3. ASSUME NEW s \in Session, DeleteAccount(s)
      PROVE  PersonalLimit'
  <2>1. \A d \in Day, v \in Username : usage'[d][v] \in {0, usage[d][v]}
        BY <1>3 DEF DeleteAccount, LimitInv, TypedState, TypeOK
  <2> QED BY <2>1, AccountsAssumption DEF LimitInv, PersonalLimit
<1>4. CASE UNCHANGED vars
      BY <1>1, <1>4 DEF vars
<1> QED
    BY <1>1, <1>2, <1>3, <1>4
    DEF Next, Tick, SubmitLogin, SubmitRegistration, Refuse, AcceptPassword,
        RejectPassword, Register, NameTaken, LogOut, Say, TurnAway, Leave,
        Abandon, Fail

\* Whatever the order of the sessions, no person is let through more often
\* than the limit allows on any day that is counted.
THEOREM PersonalLimitHolds == Spec => []PersonalLimit
<1>1. LimitInv => PersonalLimit
      BY DEF LimitInv
<1> QED BY <1>1, InitLimit, LimitInductive, PTL DEF Spec

-----------------------------------------------------------------------------
(* The site's limit, and how far departures let the bill exceed it.        *)

\* A total is a number, once the counted messages are known to be finitely many.
CountsAreFinite == \A d \in Day : IsFiniteSet(Counted(d))

\* Every message let through is counted, or was, for somebody who left.
BillInv ==
    /\ LimitInv
    /\ CountsAreFinite
    /\ SiteLimit
    /\ DailyLimit > 0 => \A d \in Day : spoken[d] =< Total(d) + DailyLimit * departures

\* One more message counted for u is one more in the total of its day.
LEMMA CountOne ==
    ASSUME TypedState, CountsAreFinite, NEW day \in Day, NEW u \in Username,
           usage' = [usage EXCEPT ![day][u] = @ + 1]
    PROVE  \A d \in Day : /\ IsFiniteSet(Counted(d))'
                          /\ Total(d)' = IF d = day THEN Total(d) + 1 ELSE Total(d)
<1> SUFFICES ASSUME NEW d \in Day
             PROVE  /\ IsFiniteSet(Counted(d)')
                    /\ Total(d)' = IF d = day THEN Total(d) + 1 ELSE Total(d)
    OBVIOUS
<1> DEFINE n == usage[day][u]
<1>1. /\ \A e \in Day, v \in Username : usage[e][v] \in Nat
      /\ \A v \in Username :
             usage'[d][v] = IF d = day /\ v = u THEN n + 1 ELSE usage[d][v]
      BY DEF TypedState, TypeOK
<1>2. CASE d # day
  <2>1. Counted(d)' = Counted(d)
        BY <1>1, <1>2 DEF Counted
  <2> QED BY <1>2, <2>1 DEF CountsAreFinite, Total
<1>3. CASE d = day
  <2>1. n \in Nat /\ 1 .. n + 1 = (1 .. n) \cup {n + 1}
        BY <1>1
  <2>2. Counted(d)' = Counted(d) \cup {<<u, n + 1>>}
    <3>1. ASSUME NEW x \in Counted(d)'
          PROVE  x \in Counted(d) \cup {<<u, n + 1>>}
      <4>1. PICK v \in Username : x \in {v} \X (1 .. usage'[d][v])
            BY <3>1 DEF Counted
      <4>2. CASE v = u
            BY <1>1, <1>3, <2>1, <4>1, <4>2 DEF Counted
      <4>3. CASE v # u
            BY <1>1, <4>1, <4>3 DEF Counted
      <4> QED BY <4>2, <4>3
    <3>2. ASSUME NEW x \in Counted(d)
          PROVE  x \in Counted(d)'
      <4>1. PICK v \in Username : x \in {v} \X (1 .. usage[d][v])
            BY <3>2 DEF Counted
      <4>2. x \in {v} \X (1 .. usage'[d][v])
            BY <1>1, <1>3, <2>1, <4>1
      <4> QED BY <4>2 DEF Counted
    <3>3. <<u, n + 1>> \in Counted(d)'
      <4>1. <<u, n + 1>> \in {u} \X (1 .. usage'[d][u])
            BY <1>1, <1>3, <2>1
      <4> QED BY <4>1 DEF Counted
    <3> QED BY <3>1, <3>2, <3>3
  <2>3. <<u, n + 1>> \notin Counted(d)
    <3> SUFFICES ASSUME NEW v \in Username, <<u, n + 1>> \in {v} \X (1 .. usage[d][v])
                 PROVE  FALSE
        BY DEF Counted
    <3> QED BY <1>3, <2>1
  <2>4. IsFiniteSet(Counted(d))
        BY DEF CountsAreFinite
  <2>5. /\ IsFiniteSet(Counted(d) \cup {<<u, n + 1>>})
        /\ Cardinality(Counted(d) \cup {<<u, n + 1>>}) = Cardinality(Counted(d)) + 1
    <3> DEFINE mark == <<u, n + 1>>
               counted == Counted(d)
    <3>1. IsFiniteSet(counted) /\ mark \notin counted
          BY <2>3, <2>4
    <3> HIDE DEF mark, counted
    <3>2. /\ IsFiniteSet(counted \cup {mark})
          /\ Cardinality(counted \cup {mark}) = Cardinality(counted) + 1
          BY <3>1, FS_AddElement
    <3> QED BY <3>2 DEF mark, counted
  <2> HIDE DEF n
  <2>6. Total(d)' = Cardinality(Counted(d)')
        BY DEF Total
  <2> QED BY <1>3, <2>2, <2>5, <2>6 DEF Total
<1> QED BY <1>2, <1>3

\* Deleting u's rows takes from each day's total what was counted for u.
LEMMA UncountAll ==
    ASSUME TypedState, CountsAreFinite, NEW u \in Username,
           usage' = [d \in Day |-> [usage[d] EXCEPT ![u] = 0]]
    PROVE  \A d \in Day : /\ IsFiniteSet(Counted(d))'
                          /\ Total(d)' =< Total(d)
                          /\ Total(d) = Total(d)' + usage[d][u]
<1> SUFFICES ASSUME NEW d \in Day
             PROVE  /\ IsFiniteSet(Counted(d)')
                    /\ Total(d)' =< Total(d)
                    /\ Total(d) = Total(d)' + usage[d][u]
    OBVIOUS
<1> DEFINE n == usage[d][u]
           own == {u} \X (1 .. n)
<1>1. /\ \A v \in Username : usage[d][v] \in Nat
      /\ \A v \in Username : usage'[d][v] = IF v = u THEN 0 ELSE usage[d][v]
      BY DEF TypedState, TypeOK
<1>2. own \subseteq Counted(d)
      BY DEF Counted
<1>3. Counted(d)' = Counted(d) \ own
  <2>1. ASSUME NEW x \in Counted(d)'
        PROVE  x \in Counted(d) \ own
    <3>1. PICK v \in Username : x \in {v} \X (1 .. usage'[d][v])
          BY <2>1 DEF Counted
    <3>2. v # u
          BY <1>1, <3>1
    <3> QED BY <1>1, <3>1, <3>2 DEF Counted
  <2>2. ASSUME NEW x \in Counted(d), x \notin own
        PROVE  x \in Counted(d)'
    <3>1. PICK v \in Username : x \in {v} \X (1 .. usage[d][v])
          BY <2>2 DEF Counted
    <3>2. v # u
          BY <2>2, <3>1
    <3>3. x \in {v} \X (1 .. usage'[d][v])
          BY <1>1, <3>1, <3>2
    <3> QED BY <3>3 DEF Counted
  <2> QED BY <2>1, <2>2
<1>4. Cardinality(own) = n /\ n \in Nat
  <2>1. IsFiniteSet({u}) /\ Cardinality({u}) = 1
        BY FS_Singleton
  <2>2. IsFiniteSet(1 .. n) /\ Cardinality(1 .. n) = n /\ n \in Nat
    <3>1. n \in Nat
          BY <1>1
    <3> HIDE DEF n
    <3> QED BY <3>1, FS_Interval
  <2> HIDE DEF n
  <2>3. Cardinality(own) = Cardinality({u}) * Cardinality(1 .. n)
        BY <2>1, <2>2, FS_Product, Zenon
  <2>4. 1 * n = n
        BY <2>2
  <2> HIDE DEF own
  <2> QED BY <2>1, <2>2, <2>3, <2>4
<1>5. IsFiniteSet(Counted(d)) /\ Counted(d) \cap own = own
      BY <1>2 DEF CountsAreFinite
<1>6. Cardinality(Counted(d)) \in Nat
      BY <1>5, FS_CardinalityType
<1> HIDE DEF own, n
<1>7. /\ IsFiniteSet(Counted(d) \ own)
      /\ Cardinality(Counted(d) \ own) = Cardinality(Counted(d)) - n
      BY <1>4, <1>5, FS_Difference
<1> QED BY <1>3, <1>4, <1>6, <1>7 DEF Total, n

LEMMA BillInductive == BillInv /\ [Next]_vars => BillInv'
<1> SUFFICES ASSUME BillInv, [Next]_vars, TypedState', LimitInv'
             PROVE  BillInv'
    BY LimitInductive DEF BillInv, LimitInv
<1>t. /\ \A d \in Day : Total(d) \in Nat /\ spoken[d] \in Nat
      /\ departures \in Nat /\ DailyLimit * departures \in Nat
  <2>1. \A d \in Day : Total(d) \in Nat
        BY FS_CardinalityType DEF BillInv, CountsAreFinite, Total
  <2> QED BY <2>1, AccountsAssumption DEF BillInv, LimitInv, TypedState, TypeOK
<1>1. CASE UNCHANGED <<usage, spoken, departures>>
      BY <1>1 DEF BillInv, CountsAreFinite, SiteLimit, Total, Counted
<1>2. ASSUME NEW s \in Session, LetThrough(s)
      PROVE  BillInv'
  <2> DEFINE u == session[s].user
             day == DayOf(s)
  <2>1. /\ ~AtLimit(day, u) /\ UNCHANGED departures
        /\ usage' = [usage EXCEPT ![day][u] = @ + 1]
        /\ spoken' = [spoken EXCEPT ![day] = @ + 1]
        /\ u \in Username
        BY <1>2 DEF LetThrough, BillInv, LimitInv, TypedState, Named
  <2>2. CASE day \notin Day
    <3>1. UNCHANGED <<usage, spoken, departures>>
          BY <2>1, <2>2 DEF BillInv, LimitInv, TypedState, TypeOK
    <3> QED BY <1>1, <3>1
  <2>3. CASE day \in Day
    <3>1. \A d \in Day : /\ IsFiniteSet(Counted(d))'
                         /\ Total(d)' = IF d = day THEN Total(d) + 1 ELSE Total(d)
          BY <2>1, <2>3, CountOne DEF BillInv, LimitInv
    <3>2. \A d \in Day : spoken'[d] = IF d = day THEN spoken[d] + 1 ELSE spoken[d]
          BY <2>1 DEF BillInv, LimitInv, TypedState, TypeOK
    <3>3. GlobalLimit > 0 => ~(Total(day) >= GlobalLimit)
          BY <2>1 DEF AtLimit
    <3> HIDE DEF day, u
    <3>4. SiteLimit'
          BY <1>t, <2>3, <3>1, <3>3, AccountsAssumption DEF BillInv, SiteLimit
    <3>5. DailyLimit > 0 => \A d \in Day : spoken'[d] =< Total(d)' + DailyLimit * departures'
          BY <1>t, <2>1, <2>3, <3>1, <3>2 DEF BillInv
    <3>6. CountsAreFinite'
          BY <3>1 DEF CountsAreFinite
    <3> QED BY <3>4, <3>5, <3>6 DEF BillInv
  <2> QED BY <2>2, <2>3
<1>3. ASSUME NEW s \in Session, DeleteAccount(s)
      PROVE  BillInv'
  <2> DEFINE u == session[s].user
  <2>1. /\ UNCHANGED spoken /\ departures' = departures + 1 /\ u \in Username
        /\ usage' = [d \in Day |-> [usage[d] EXCEPT ![u] = 0]]
        BY <1>3 DEF DeleteAccount, BillInv, LimitInv, TypedState, Named
  <2>2. \A d \in Day : /\ IsFiniteSet(Counted(d))'
                       /\ Total(d)' =< Total(d)
                       /\ Total(d) = Total(d)' + usage[d][u]
        BY <2>1, UncountAll DEF BillInv, LimitInv
  <2>3. CountsAreFinite'
        BY <2>2 DEF CountsAreFinite
  <2>4. \A d \in Day : Total(d)' \in Nat
        BY <2>3, FS_CardinalityType DEF CountsAreFinite, Total
  <2>5. SiteLimit'
        BY <1>t, <2>2, <2>4, AccountsAssumption DEF BillInv, SiteLimit
  <2>6. ASSUME DailyLimit > 0, NEW d \in Day
        PROVE  spoken'[d] =< Total(d)' + DailyLimit * departures'
    <3>1. usage[d][u] =< DailyLimit /\ usage[d][u] \in Nat
          BY <2>1, <2>6 DEF BillInv, LimitInv, PersonalLimit, TypedState, TypeOK
    <3>2. DailyLimit * departures' = DailyLimit * departures + DailyLimit
          BY <1>t, <2>1, AccountsAssumption
    <3>3. spoken[d] =< Total(d) + DailyLimit * departures
          BY <2>6 DEF BillInv
    <3> HIDE DEF u
    <3> QED BY <1>t, <2>1, <2>2, <2>4, <3>1, <3>2, <3>3, AccountsAssumption
  <2> QED BY <2>3, <2>5, <2>6 DEF BillInv
<1>4. CASE UNCHANGED vars
      BY <1>1, <1>4 DEF vars, history
<1> QED
    BY <1>1, <1>2, <1>3, <1>4
    DEF Next, Tick, SubmitLogin, SubmitRegistration, Refuse, AcceptPassword,
        RejectPassword, Register, NameTaken, LogOut, Say, TurnAway, Leave,
        Abandon, Fail, history

LEMMA InitBill == Init => BillInv
<1> SUFFICES ASSUME Init PROVE BillInv
    OBVIOUS
<1>1. LimitInv
      BY InitLimit
<1>2. ASSUME NEW d \in Day
      PROVE  Counted(d) = {}
      BY DEF Counted, Init
<1>3. IsFiniteSet({}) /\ Cardinality({}) = 0
      BY FS_EmptySet
<1>4. \A d \in Day : IsFiniteSet(Counted(d)) /\ Total(d) = 0
      BY <1>2, <1>3 DEF Total
<1>5. DailyLimit * 0 = 0
      BY AccountsAssumption
<1> QED BY <1>1, <1>4, <1>5, AccountsAssumption DEF BillInv, CountsAreFinite, SiteLimit, Init

\* Whatever the order of sessions, waits and midnights, neither a person's rows
\* nor the site's exceed their limit on any day.
THEOREM DailyLimitsHold == Spec => []WithinDailyLimits
<1>1. BillInv => WithinDailyLimits
      BY DEF BillInv, LimitInv, WithinDailyLimits
<1> QED BY <1>1, InitBill, BillInductive, PTL DEF Spec

\* What is let through on a day, the messages of those who left included, stays
\* within the site's limit and one personal allowance for each departure.
THEOREM BillStaysBounded == Spec => []BillIsBounded
<1>1. BillInv => BillIsBounded
  <2> SUFFICES ASSUME BillInv, DailyLimit > 0, GlobalLimit > 0, NEW d \in Day
               PROVE  spoken[d] =< GlobalLimit + DailyLimit * departures
      BY DEF BillIsBounded
  <2>1. Total(d) \in Nat
        BY FS_CardinalityType DEF BillInv, CountsAreFinite, Total
  <2>2. Total(d) =< GlobalLimit /\ spoken[d] =< Total(d) + DailyLimit * departures
        BY DEF BillInv, SiteLimit
  <2>3. spoken[d] \in Nat /\ DailyLimit * departures \in Nat
        BY AccountsAssumption DEF BillInv, LimitInv, TypedState, TypeOK
  <2> QED BY <2>1, <2>2, <2>3, AccountsAssumption
<1> QED BY <1>1, InitBill, BillInductive, PTL DEF Spec

-----------------------------------------------------------------------------
(* How far the number of accounts can exceed its limit.                    *)

Registering == {s \in Session : session[s].step = "register"}

\* Every session that has passed the count may still insert a row.
RoomInv ==
    /\ TypedState
    /\ MaxAccounts > 0 =>
           Cardinality(registered) + Cardinality(Registering) < MaxAccounts + Cardinality(Session)

\* The counts that RoomInv compares are numbers.
LEMMA Counts ==
    ASSUME TypedState
    PROVE  /\ IsFiniteSet(registered) /\ IsFiniteSet(Registering)
           /\ Cardinality(registered) \in Nat
           /\ Cardinality(Registering) \in Nat
           /\ Cardinality(Session) \in Nat
           /\ Cardinality(Registering) =< Cardinality(Session)
<1>1. registered \subseteq Username /\ Registering \subseteq Session
      BY DEF TypedState, TypeOK, Registering
<1> QED BY <1>1, AccountsAssumption, FS_Subset, FS_CardinalityType

\* A step after which no more sessions are registering, and no more accounts
\* registered, keeps the bound.
LEMMA RoomMonotone ==
    ASSUME RoomInv, TypedState', registered' \subseteq registered,
           Registering' \subseteq Registering
    PROVE  RoomInv'
<1>1. Cardinality(registered') =< Cardinality(registered)
      BY Counts, FS_Subset DEF RoomInv
<1>2. Cardinality(Registering') =< Cardinality(Registering)
      BY Counts, FS_Subset DEF RoomInv
<1>3. Cardinality(registered') \in Nat /\ Cardinality(Registering') \in Nat
      BY Counts, FS_Subset, FS_CardinalityType DEF RoomInv
<1>4. Cardinality(registered) \in Nat /\ Cardinality(Registering) \in Nat
      /\ Cardinality(Session) \in Nat
      BY Counts DEF RoomInv
<1> QED BY <1>1, <1>2, <1>3, <1>4, AccountsAssumption DEF RoomInv

LEMMA RoomInductive == RoomInv /\ [Next]_vars => RoomInv'
<1> SUFFICES ASSUME RoomInv, [Next]_vars, TypedState'
             PROVE  RoomInv'
    BY TypedInductive DEF RoomInv
<1>c. /\ Cardinality(registered) \in Nat /\ Cardinality(Registering) \in Nat
      /\ Cardinality(Session) \in Nat /\ IsFiniteSet(registered) /\ IsFiniteSet(Registering)
      BY Counts DEF RoomInv
<1>m. ASSUME NEW s \in Session, NEW step \in Step \ {"register"}, NEW u, Goes(s, step, u)
      PROVE  Registering' \subseteq Registering \ {s}
      BY <1>m DEF Goes, Registering, RoomInv, TypedState, TypeOK
<1>1. CASE UNCHANGED <<registered, session>>
      BY <1>1, RoomMonotone DEF Registering
<1>2. ASSUME NEW s \in Session, NEW u \in Username, SubmitRegistration(s, u)
      PROVE  RoomInv'
  <2>1. UNCHANGED registered /\ RoomForAccount
        BY <1>2 DEF SubmitRegistration, account
  <2>2. /\ Cardinality(Registering)' \in Nat
        /\ Cardinality(Registering)' =< Cardinality(Session)
    <3>1. Registering' \subseteq Session
          BY DEF Registering
    <3> QED BY <3>1, AccountsAssumption, FS_Subset, FS_CardinalityType
  <2> QED BY <1>c, <2>1, <2>2, AccountsAssumption DEF RoomForAccount, RoomInv
<1>3. ASSUME NEW s \in Session, Register(s)
      PROVE  RoomInv'
  <2> DEFINE u == session[s].user
  <2>1. s \in Registering /\ u \notin registered /\ registered' = registered \cup {u}
        BY <1>3 DEF Register, Registering
  <2>2. Cardinality(registered') = Cardinality(registered) + 1
        BY <1>c, <2>1, FS_AddElement
  <2>3. Registering' \subseteq Registering \ {s}
        BY <1>3, <1>m DEF Register, Step
  <2>4. /\ IsFiniteSet(Registering \ {s})
        /\ Cardinality(Registering \ {s}) = Cardinality(Registering) - 1
        BY <1>c, <2>1, FS_RemoveElement
  <2>5. /\ Cardinality(Registering') \in Nat
        /\ Cardinality(Registering') =< Cardinality(Registering) - 1
        BY <2>3, <2>4, FS_Subset, FS_CardinalityType
  <2> QED BY <1>c, <2>2, <2>5, AccountsAssumption DEF RoomInv
<1>4. ASSUME NEW s \in Session, NEW u \in Username, SubmitLogin(s, u)
      PROVE  RoomInv'
  <2>1. Registering' \subseteq Registering
        BY <1>4, <1>m DEF SubmitLogin, Step
  <2> QED BY <1>4, <2>1, RoomMonotone DEF SubmitLogin, account
<1>5. ASSUME NEW s \in Session, \/ Refuse(s) \/ AcceptPassword(s) \/ RejectPassword(s)
                                 \/ NameTaken(s) \/ LogOut(s) \/ Abandon(s)
      PROVE  RoomInv'
  <2>1. CASE Refuse(s)
    <3>1. Registering' \subseteq Registering
          BY <2>1, <1>m DEF Refuse, Step
    <3> QED BY <2>1, <3>1, RoomMonotone DEF Refuse, account
  <2>2. CASE RejectPassword(s)
    <3>1. Registering' \subseteq Registering
          BY <2>2, <1>m DEF RejectPassword, Step
    <3> QED BY <2>2, <3>1, RoomMonotone DEF RejectPassword, account
  <2>3. CASE NameTaken(s)
    <3>1. Registering' \subseteq Registering
          BY <2>3, <1>m DEF NameTaken, Step
    <3> QED BY <2>3, <3>1, RoomMonotone DEF NameTaken, account
  <2>4. CASE LogOut(s)
    <3>1. Registering' \subseteq Registering
          BY <2>4, <1>m DEF LogOut, Step
    <3> QED BY <2>4, <3>1, RoomMonotone DEF LogOut, account
  <2>5. CASE AcceptPassword(s)
    <3>1. Registering' \subseteq Registering
          BY <2>5, <1>m DEF AcceptPassword, Step
    <3> QED BY <2>5, <3>1, RoomMonotone DEF AcceptPassword, account
  <2>6. CASE Abandon(s)
    <3>1. Registering' \subseteq Registering
          BY <2>6, <1>m DEF Abandon, Step
    <3> QED BY <2>6, <3>1, RoomMonotone DEF Abandon, account
  <2> QED BY <1>5, <2>1, <2>2, <2>3, <2>4, <2>5, <2>6
<1>6. ASSUME NEW s \in Session, \/ Say(s) \/ LetThrough(s) \/ TurnAway(s)
                                 \/ Leave(s) \/ DeleteAccount(s) \/ Fail(s)
      PROVE  RoomInv'
  <2>1. CASE Say(s)
    <3>1. Registering' \subseteq Registering
          BY <2>1, <1>m DEF Say, Step
    <3> QED BY <2>1, <3>1, RoomMonotone DEF Say, account
  <2>2. CASE LetThrough(s)
    <3>1. Registering' \subseteq Registering
          BY <2>2, <1>m DEF LetThrough, Step
    <3> QED BY <2>2, <3>1, RoomMonotone DEF LetThrough, account
  <2>3. CASE TurnAway(s)
    <3>1. Registering' \subseteq Registering
          BY <2>3, <1>m DEF TurnAway, Step
    <3> QED BY <2>3, <3>1, RoomMonotone DEF TurnAway, account
  <2>4. CASE Leave(s)
    <3>1. Registering' \subseteq Registering
          BY <2>4, <1>m DEF Leave, Step
    <3> QED BY <2>4, <3>1, RoomMonotone DEF Leave, account
  <2>5. CASE DeleteAccount(s)
    <3>1. Registering' \subseteq Registering
          BY <2>5, <1>m DEF DeleteAccount, Step
    <3> QED BY <2>5, <3>1, RoomMonotone DEF DeleteAccount, account
  <2>6. CASE Fail(s)
    <3>1. Registering' \subseteq Registering
          BY <2>6, <1>m DEF Fail, Step
    <3> QED BY <2>6, <3>1, RoomMonotone DEF Fail, account
  <2> QED BY <1>6, <2>1, <2>2, <2>3, <2>4, <2>5, <2>6
<1>7. CASE UNCHANGED vars
      BY <1>1, <1>7 DEF vars, account
<1>8. CASE Tick
      BY <1>1, <1>8 DEF Tick, account
<1> QED BY <1>2, <1>3, <1>4, <1>5, <1>6, <1>7, <1>8 DEF Next

\* Sessions that register at the same time exceed the limit on accounts by
\* at most one account for every session but one, whatever their number.
THEOREM AccountsStayBounded == Spec => []AccountsAreBounded
<1>1. Init => RoomInv
  <2> SUFFICES ASSUME Init PROVE RoomInv
      OBVIOUS
  <2>1. TypedState
        BY InitType DEF TypedState, Named, Init, Away
  <2>2. registered = {} /\ Registering = {}
        BY DEF Init, Registering, Away
  <2>3. Cardinality({}) = 0
        BY FS_EmptySet
  <2>4. Cardinality(Session) \in Nat
        BY AccountsAssumption, FS_CardinalityType
  <2> QED BY <2>1, <2>2, <2>3, <2>4, AccountsAssumption DEF RoomInv
<1>2. RoomInv => AccountsAreBounded
      BY Counts, AccountsAssumption DEF RoomInv, AccountsAreBounded
<1> QED BY <1>1, <1>2, RoomInductive, PTL DEF Spec

-----------------------------------------------------------------------------
(* How many wrong passwords an account can see.                            *)

\* The time from one lockout of an account to the next, at least.
Gap == Lockout - MaxWait

\* No script that waits for the store read the clock longer than MaxWait ago.
FreshClocks ==
    \A s \in Session : session[s].step \in Timed =>
        /\ session[s].at =< clock
        /\ clock - session[s].at =< MaxWait

\* The lockouts of one account.  The last one that an attempt saw run out
\* lies in the past; one that still holds leaves the whole gap behind it.
Spaced(u) ==
    /\ wrongGuesses[u] = MaxFailedLogins * lockouts[u] + failed[u]
    /\ lockouts[u] > 0 => (lockouts[u] - 1) * Gap =< clock
    /\ lockouts[u] * Gap =< (IF lockedUntil[u] > 0 THEN lockedUntil[u] ELSE clock)

GuessInv == TypedState /\ FreshClocks /\ \A u \in Username : Spaced(u)

LEMMA GapType == Gap \in Nat \ {0}
  BY AccountsAssumption DEF Gap

\* The clocks of the scripts stay fresh: a script reads the clock as it
\* begins to wait, and time passes only while no wait has reached its limit.
LEMMA ClocksStayFresh ==
    ASSUME TypedState, FreshClocks, [Next]_vars
    PROVE  FreshClocks'
<1>n. ASSUME NEW s \in Session, NEW step, NEW u, Goes(s, step, u), UNCHANGED clock
      PROVE  FreshClocks'
      BY <1>n, AccountsAssumption DEF Goes, FreshClocks, TypedState, TypeOK, Timed
<1>1. CASE Tick
      BY <1>1, AccountsAssumption DEF Tick, FreshClocks, TypedState, TypeOK, SessionState
<1>2. ASSUME NEW s \in Session, NEW u \in Username, SubmitLogin(s, u) \/ SubmitRegistration(s, u)
      PROVE  FreshClocks'
      BY <1>2, <1>n DEF SubmitLogin, SubmitRegistration
<1>3. ASSUME NEW s \in Session, Refuse(s) \/ AcceptPassword(s) \/ RejectPassword(s)
                                 \/ Register(s) \/ NameTaken(s)
      PROVE  FreshClocks'
      BY <1>3, <1>n DEF Refuse, AcceptPassword, RejectPassword, Register, NameTaken
<1>4. ASSUME NEW s \in Session, LogOut(s) \/ Say(s) \/ LetThrough(s) \/ TurnAway(s)
                                 \/ Leave(s) \/ DeleteAccount(s) \/ Abandon(s) \/ Fail(s)
      PROVE  FreshClocks'
      BY <1>4, <1>n DEF LogOut, Say, LetThrough, TurnAway, Leave, DeleteAccount, Abandon, Fail
<1>5. CASE UNCHANGED vars
      BY <1>5 DEF FreshClocks, vars
<1> QED BY <1>1, <1>2, <1>3, <1>4, <1>5 DEF Next

\* An attempt that is not refused finds every gap but the last in the past.
LEMMA GapsArePast ==
    ASSUME GuessInv, NEW s \in Session, session[s].step = "login",
           session[s].user \in Username, ~Locked(session[s].user, session[s].at)
    PROVE  lockouts[session[s].user] * Gap =< clock
<1> DEFINE u == session[s].user
<1>1. lockedUntil[u] =< session[s].at /\ session[s].at =< clock
      BY DEF GuessInv, Locked, FreshClocks, TypedState, TypeOK, SessionState, Timed
<1>2. lockedUntil[u] \in Nat /\ session[s].at \in Nat /\ clock \in Nat
      BY DEF GuessInv, TypedState, TypeOK, SessionState
<1>3. /\ lockouts[u] * Gap \in Int
      /\ lockouts[u] * Gap =< (IF lockedUntil[u] > 0 THEN lockedUntil[u] ELSE clock)
      BY GapType DEF GuessInv, Spaced, TypedState, TypeOK
<1> HIDE DEF u
<1>4. lockouts[u] * Gap =< clock
      BY <1>1, <1>2, <1>3
<1> QED BY <1>4 DEF u

\* A wrong password keeps the lockouts of its account spaced.
LEMMA RejectionKeepsSpacing ==
    ASSUME GuessInv, NEW s \in Session, RejectPassword(s),
           NEW u \in Username, u = session[s].user
    PROVE  Spaced(u)'
<1> DEFINE k == lockouts[u]
           at == session[s].at
<1>1. session[s].step = "login" /\ ~Locked(u, at) /\ clock' = clock
      BY DEF RejectPassword, GuessInv, TypedState, TypeOK
<1>2. k * Gap =< clock
      BY <1>1, GapsArePast
<1>3. clock - at =< MaxWait /\ at =< clock
      BY <1>1 DEF GuessInv, FreshClocks, Timed
<1>4. k \in Nat /\ at \in Nat /\ clock \in Nat
      /\ failed[u] \in 0 .. MaxFailedLogins - 1 /\ wrongGuesses[u] \in Nat
      BY <1>1 DEF GuessInv, TypedState, TypeOK, SessionState
<1>5. /\ wrongGuesses[u] = MaxFailedLogins * k + failed[u]
      /\ wrongGuesses'[u] = wrongGuesses[u] + 1
      BY <1>1 DEF RejectPassword, GuessInv, Spaced, TypedState, TypeOK
<1>6. CASE failed[u] + 1 >= MaxFailedLogins
  <2>1. failed'[u] = 0 /\ lockedUntil'[u] = at + Lockout /\ lockouts'[u] = k + 1
        BY <1>1, <1>6 DEF RejectPassword, Locks, GuessInv, TypedState, TypeOK
  <2>2. failed[u] = MaxFailedLogins - 1
        BY <1>4, <1>6, AccountsAssumption
  <2>3. MaxFailedLogins * (k + 1) = MaxFailedLogins * k + MaxFailedLogins
        /\ MaxFailedLogins * k \in Nat
        BY <1>4, AccountsAssumption
  <2>4. (k + 1) * Gap = k * Gap + Gap /\ (k + 1) - 1 = k /\ k * Gap \in Nat
    <3>1. \A g \in Nat : (k + 1) * g = k * g + g /\ k * g \in Nat
          BY <1>4
    <3>2. (k + 1) - 1 = k
          BY <1>4
    <3>3. Gap \in Nat
          BY GapType
    <3> QED BY <3>1, <3>2, <3>3
  <2>5. wrongGuesses'[u] = MaxFailedLogins * (k + 1) + 0
        BY <1>4, <1>5, <2>2, <2>3, AccountsAssumption
  <2>6. (k + 1) * Gap =< at + Lockout
        BY <1>2, <1>3, <1>4, <2>4, AccountsAssumption DEF Gap
  <2> QED BY <1>1, <1>2, <1>4, <2>1, <2>4, <2>5, <2>6, AccountsAssumption DEF Spaced
<1>7. CASE ~(failed[u] + 1 >= MaxFailedLogins)
  <2>1. failed'[u] = failed[u] + 1 /\ lockedUntil'[u] = 0 /\ lockouts'[u] = k
        BY <1>1, <1>7 DEF RejectPassword, Locks, GuessInv, TypedState, TypeOK
  <2>2. MaxFailedLogins * k \in Nat
        BY <1>4, AccountsAssumption
  <2>3. k > 0 => (k - 1) * Gap =< clock
        BY <1>1 DEF GuessInv, Spaced
  <2> QED BY <1>1, <1>2, <1>4, <1>5, <2>1, <2>2, <2>3 DEF Spaced
<1> QED BY <1>6, <1>7

\* What a step leaves alone, and what it clears, stays spaced; time passing
\* only widens the gaps.
LEMMA SpacingKept ==
    ASSUME GuessInv, clock' \in Nat, clock =< clock', NEW u \in Username,
           \/ /\ wrongGuesses'[u] = wrongGuesses[u] /\ lockouts'[u] = lockouts[u]
              /\ failed'[u] = failed[u] /\ lockedUntil'[u] = lockedUntil[u]
           \/ /\ wrongGuesses'[u] = 0 /\ lockouts'[u] = 0
              /\ failed'[u] = 0 /\ lockedUntil'[u] = 0
    PROVE  Spaced(u)'
<1>1. /\ clock \in Nat /\ lockouts[u] \in Nat /\ lockedUntil[u] \in Nat
      /\ lockouts[u] * Gap \in Int /\ (lockouts[u] - 1) * Gap \in Int
      BY GapType DEF GuessInv, TypedState, TypeOK
<1>2. 0 * Gap = 0 /\ MaxFailedLogins * 0 = 0
      BY GapType, AccountsAssumption
<1>3. CASE wrongGuesses'[u] = 0 /\ lockouts'[u] = 0 /\ failed'[u] = 0 /\ lockedUntil'[u] = 0
      BY <1>1, <1>2, <1>3 DEF Spaced
<1>4. CASE /\ wrongGuesses'[u] = wrongGuesses[u] /\ lockouts'[u] = lockouts[u]
           /\ failed'[u] = failed[u] /\ lockedUntil'[u] = lockedUntil[u]
  <2> DEFINE g == (lockouts[u] - 1) * Gap
             h == lockouts[u] * Gap
  <2>1. /\ wrongGuesses[u] = MaxFailedLogins * lockouts[u] + failed[u]
        /\ lockouts[u] > 0 => g =< clock
        /\ h =< (IF lockedUntil[u] > 0 THEN lockedUntil[u] ELSE clock)
        BY DEF GuessInv, Spaced
  <2>2. g \in Int /\ h \in Int
        BY <1>1
  <2>3. Spaced(u)' <=> /\ wrongGuesses[u] = MaxFailedLogins * lockouts[u] + failed[u]
                       /\ lockouts[u] > 0 => g =< clock'
                       /\ h =< (IF lockedUntil[u] > 0 THEN lockedUntil[u] ELSE clock')
        BY <1>4 DEF Spaced
  <2> HIDE DEF g, h
  <2> QED BY <1>1, <2>1, <2>2, <2>3
<1> QED BY <1>3, <1>4

LEMMA GuessInductive == GuessInv /\ [Next]_vars => GuessInv'
<1> SUFFICES ASSUME GuessInv, [Next]_vars, TypedState', FreshClocks', NEW u \in Username
             PROVE  Spaced(u)'
    BY TypedInductive, ClocksStayFresh DEF GuessInv
<1>t. /\ clock \in Nat /\ clock' \in Nat
      /\ failed \in [Username -> 0 .. MaxFailedLogins - 1] /\ lockedUntil \in [Username -> Nat]
      /\ wrongGuesses \in [Username -> Nat] /\ lockouts \in [Username -> Nat]
      BY DEF GuessInv, TypedState, TypeOK
<1>1. CASE clock =< clock' /\ UNCHANGED <<failed, lockedUntil, wrongGuesses, lockouts>>
      BY <1>1, <1>t, SpacingKept
<1>2. ASSUME NEW v \in Username, ClearRow(v), UNCHANGED clock
      PROVE  Spaced(u)'
  <2>1. \/ /\ wrongGuesses'[u] = wrongGuesses[u] /\ lockouts'[u] = lockouts[u]
           /\ failed'[u] = failed[u] /\ lockedUntil'[u] = lockedUntil[u]
        \/ /\ wrongGuesses'[u] = 0 /\ lockouts'[u] = 0
           /\ failed'[u] = 0 /\ lockedUntil'[u] = 0
        BY <1>2, <1>t DEF ClearRow
  <2> QED BY <1>2, <1>t, <2>1, SpacingKept
<1>3. ASSUME NEW s \in Session, RejectPassword(s)
      PROVE  Spaced(u)'
  <2>1. CASE u = session[s].user
        BY <1>3, <2>1, RejectionKeepsSpacing
  <2>2. CASE u # session[s].user
    <3>1. /\ wrongGuesses'[u] = wrongGuesses[u] /\ lockouts'[u] = lockouts[u]
          /\ failed'[u] = failed[u] /\ lockedUntil'[u] = lockedUntil[u]
          BY <1>3, <1>t, <2>2 DEF RejectPassword
    <3>2. clock =< clock'
          BY <1>3, <1>t DEF RejectPassword
    <3> QED BY <1>t, <3>1, <3>2, SpacingKept
  <2> QED BY <2>1, <2>2
<1>4. ASSUME NEW s \in Session, AcceptPassword(s) \/ Register(s) \/ DeleteAccount(s)
      PROVE  Spaced(u)'
  <2>1. session[s].user \in Username
        BY <1>4 DEF GuessInv, TypedState, Named, AcceptPassword, Register, DeleteAccount
  <2>2. ClearRow(session[s].user) /\ UNCHANGED clock
        BY <1>4 DEF AcceptPassword, Register, DeleteAccount
  <2> QED BY <1>2, <2>1, <2>2
<1>5. CASE Tick
  <2>1. clock =< clock'
        BY <1>5, <1>t DEF Tick
  <2> QED BY <1>1, <1>5, <2>1 DEF Tick, account, history
<1>6. ASSUME UNCHANGED <<clock, failed, lockedUntil, wrongGuesses, lockouts>>
      PROVE  Spaced(u)'
      BY <1>1, <1>6, <1>t
<1>7. ASSUME NEW s \in Session, NEW v \in Username, SubmitLogin(s, v) \/ SubmitRegistration(s, v)
      PROVE  Spaced(u)'
      BY <1>6, <1>7 DEF SubmitLogin, SubmitRegistration, account, history
<1>8. ASSUME NEW s \in Session,
             \/ Refuse(s) \/ NameTaken(s) \/ LogOut(s) \/ Say(s)
             \/ LetThrough(s) \/ TurnAway(s) \/ Leave(s) \/ Abandon(s) \/ Fail(s)
      PROVE  Spaced(u)'
      BY <1>6, <1>8
      DEF Refuse, NameTaken, LogOut, Say, LetThrough, TurnAway, Leave, Abandon, Fail,
          account, history
<1>9. CASE UNCHANGED vars
      BY <1>6, <1>9 DEF vars, account, history
<1> QED BY <1>3, <1>4, <1>5, <1>7, <1>8, <1>9 DEF Next

\* For every limit on failures, lockout, wait and number of sessions: between
\* two logins of its holder an account sees fewer than MaxFailedLogins wrong
\* passwords per lockout, and its lockouts lie a lockout less a wait apart.
THEOREM GuessesStayBounded == Spec => []GuessesAreBounded
<1>1. Init => GuessInv
  <2> SUFFICES ASSUME Init PROVE GuessInv
      OBVIOUS
  <2>1. TypedState
        BY InitType DEF TypedState, Named, Init, Away
  <2>2. FreshClocks
        BY DEF FreshClocks, Init, Away, Timed
  <2>3. MaxFailedLogins * 0 + 0 = 0 /\ 0 * Gap = 0
        BY GapType, AccountsAssumption
  <2>4. \A u \in Username : Spaced(u)
        BY <2>3 DEF Spaced, Init
  <2> QED BY <2>1, <2>2, <2>4 DEF GuessInv
<1>2. GuessInv => GuessesAreBounded
  <2> SUFFICES ASSUME GuessInv, NEW u \in Username
               PROVE  /\ wrongGuesses[u] < MaxFailedLogins * (lockouts[u] + 1)
                      /\ lockouts[u] > 0 => (lockouts[u] - 1) * (Lockout - MaxWait) =< clock
      BY DEF GuessesAreBounded
  <2>1. lockouts[u] \in Nat /\ failed[u] \in 0 .. MaxFailedLogins - 1
        BY DEF GuessInv, TypedState, TypeOK
  <2>2. /\ MaxFailedLogins * (lockouts[u] + 1) = MaxFailedLogins * lockouts[u] + MaxFailedLogins
        /\ MaxFailedLogins * lockouts[u] \in Nat
        BY <2>1, AccountsAssumption
  <2>3. wrongGuesses[u] = MaxFailedLogins * lockouts[u] + failed[u]
        BY DEF GuessInv, Spaced
  <2>4. wrongGuesses[u] < MaxFailedLogins * (lockouts[u] + 1)
        BY <2>1, <2>2, <2>3, AccountsAssumption
  <2>5. lockouts[u] > 0 => (lockouts[u] - 1) * (Lockout - MaxWait) =< clock
        BY DEF GuessInv, Spaced, Gap
  <2> QED BY <2>4, <2>5
<1> QED BY <1>1, <1>2, GuessInductive, PTL DEF Spec

-----------------------------------------------------------------------------
(* The web server, WebMind, which has constants and variables of its own.  *)

\* The order in which scripts make their calls: an erasure comes first, what is
\* removed was saved before, and nothing follows a log-out.
MayFollow(call, next) ==
    /\ call # "log_out" /\ next \notin {"shutdown", "delete_owner_data"}
    /\ call = "shutdown" => next # "delete_account"
    /\ call = "remove_files" => next \in {"clear_cache", "log_out"}
    /\ call \in {"clear_cache", "delete_account"} => next = "log_out"
    /\ call \in {"record", "answer", "record_reply", "soft_reset", "delete_owner_data"} =>
           next \notin {"remove_files", "clear_cache"}
    /\ call \in {"record", "answer", "record_reply"} => next # "delete_account"

\* Every call of one kind is followed by one of another.
Brings(todo, call, next) ==
    \A i \in 1 .. Len(todo) :
        todo[i] = call => \E j \in 1 .. Len(todo) : i < j /\ todo[j] = next

Ordered(todo) ==
    /\ \A i, j \in 1 .. Len(todo) : i < j => MayFollow(todo[i], todo[j])
    /\ \A i \in 1 .. Len(todo) :
           todo[i] = "snapshot" => i + 1 \in 1 .. Len(todo) /\ todo[i + 1] = "replace"
    /\ Brings(todo, "shutdown", "replace") /\ Brings(todo, "delete_owner_data", "replace")
    /\ Brings(todo, "shutdown", "remove_files")
    /\ Brings(todo, "remove_files", "clear_cache")
    /\ Brings(todo, "delete_owner_data", "delete_account")

LEMMA NotEmpty == \A t : Len(t) \in Nat \ {0} => t # <<>>
  OBVIOUS

\* What is left of a script's calls after the next one.
LEMMA TailOf ==
    ASSUME NEW S, NEW todo \in Seq(S), todo # <<>>
    PROVE  /\ Len(todo) \in Nat \ {0} /\ Head(todo) = todo[1] /\ Head(todo) \in S
           /\ Tail(todo) \in Seq(S) /\ Len(Tail(todo)) = Len(todo) - 1
           /\ \A i \in 1 .. Len(todo) - 1 : Tail(todo)[i] = todo[i + 1]
  OBVIOUS

\* A call is the next one or one of those after it.
LEMMA NextOrLater ==
    ASSUME NEW S, NEW todo \in Seq(S), todo # <<>>, NEW call
    PROVE  Contains(todo, call) <=> Head(todo) = call \/ Contains(Tail(todo), call)
<1>1. Len(todo) \in Nat \ {0} /\ Len(Tail(todo)) = Len(todo) - 1 /\ Head(todo) = todo[1]
      BY TailOf
<1>2. \A i \in 1 .. Len(todo) - 1 : Tail(todo)[i] = todo[i + 1]
      BY TailOf
<1>3. Contains(todo, call) <=> \E i \in 1 .. Len(todo) : todo[i] = call
      BY DEF Contains
<1>4. Contains(Tail(todo), call) <=> \E i \in 1 .. Len(todo) - 1 : todo[i + 1] = call
      BY <1>1, <1>2 DEF Contains
<1>5. ASSUME NEW i \in 1 .. Len(todo), todo[i] = call, todo[1] # call
      PROVE  \E k \in 1 .. Len(todo) - 1 : todo[k + 1] = call
  <2>1. i - 1 \in 1 .. Len(todo) - 1 /\ (i - 1) + 1 = i
        BY <1>1, <1>5
  <2> QED BY <1>5, <2>1
<1>6. ASSUME NEW i \in 1 .. Len(todo) - 1
      PROVE  i + 1 \in 1 .. Len(todo)
      BY <1>1
<1>7. 1 \in 1 .. Len(todo)
      BY <1>1
<1> QED BY <1>1, <1>3, <1>4, <1>5, <1>6, <1>7

\* Calls that bring others still bring them when the first is made.
LEMMA TailBrings ==
    ASSUME NEW S, NEW todo \in Seq(S), todo # <<>>, NEW call, NEW next,
           Brings(todo, call, next)
    PROVE  /\ Brings(Tail(todo), call, next)
           /\ Head(todo) = call => Contains(Tail(todo), next)
<1>1. Len(todo) \in Nat \ {0} /\ Len(Tail(todo)) = Len(todo) - 1 /\ Head(todo) = todo[1]
      BY TailOf
<1>2. \A i \in 1 .. Len(todo) - 1 : Tail(todo)[i] = todo[i + 1]
      BY TailOf
<1>3. ASSUME NEW i \in 1 .. Len(todo), todo[i] = call
      PROVE  \E j \in 1 .. Len(todo) - 1 : i < j + 1 /\ Tail(todo)[j] = next
  <2>1. PICK j \in 1 .. Len(todo) : i < j /\ todo[j] = next
        BY <1>3 DEF Brings
  <2>2. j - 1 \in 1 .. Len(todo) - 1 /\ (j - 1) + 1 = j
        BY <1>1, <2>1
  <2> QED BY <1>2, <2>1, <2>2
<1>4. ASSUME NEW i \in 1 .. Len(todo) - 1, Tail(todo)[i] = call
      PROVE  \E j \in 1 .. Len(todo) - 1 : i < j /\ Tail(todo)[j] = next
  <2>1. i + 1 \in 1 .. Len(todo) /\ todo[i + 1] = call
        BY <1>1, <1>2, <1>4
  <2>2. PICK j \in 1 .. Len(todo) - 1 : i + 1 < j + 1 /\ Tail(todo)[j] = next
        BY <1>3, <2>1
  <2> QED BY <1>1, <2>2
<1>5. Brings(Tail(todo), call, next)
      BY <1>1, <1>4 DEF Brings
<1>6. 1 \in 1 .. Len(todo)
      BY <1>1
<1> QED BY <1>1, <1>3, <1>5, <1>6 DEF Contains

\* The calls that are left after one are in order, and some cannot be among them.
LEMMA TailOrdered ==
    ASSUME NEW todo \in Seq(Call), todo # <<>>, Ordered(todo)
    PROVE  /\ Ordered(Tail(todo))
           /\ \A call : Contains(Tail(todo), call) => MayFollow(Head(todo), call)
           /\ Head(todo) = "snapshot" => Tail(todo) # <<>> /\ Head(Tail(todo)) = "replace"
           /\ Head(todo) \in {"shutdown", "delete_owner_data"} =>
                  Contains(Tail(todo), "replace")
           /\ Head(todo) = "shutdown" => Contains(Tail(todo), "remove_files")
           /\ Head(todo) = "remove_files" => Contains(Tail(todo), "clear_cache")
           /\ Head(todo) = "delete_owner_data" => Contains(Tail(todo), "delete_account")
<1>1. Len(todo) \in Nat \ {0} /\ Len(Tail(todo)) = Len(todo) - 1 /\ Head(todo) = todo[1]
      BY TailOf
<1>2. \A i \in 1 .. Len(todo) - 1 : Tail(todo)[i] = todo[i + 1]
      BY TailOf
<1>3. \A i \in 1 .. Len(todo) - 1 : i + 1 \in 1 .. Len(todo)
      BY <1>1
<1>4. \A i, j \in 1 .. Len(todo) - 1 : i < j => MayFollow(Tail(todo)[i], Tail(todo)[j])
      BY <1>1, <1>2, <1>3 DEF Ordered
<1>5. ASSUME NEW i \in 1 .. Len(todo) - 1, Tail(todo)[i] = "snapshot"
      PROVE  i + 1 \in 1 .. Len(todo) - 1 /\ Tail(todo)[i + 1] = "replace"
  <2>1. todo[i + 1] = "snapshot" /\ i + 1 \in 1 .. Len(todo)
        BY <1>2, <1>3, <1>5
  <2>2. (i + 1) + 1 \in 1 .. Len(todo) /\ todo[(i + 1) + 1] = "replace"
        BY <2>1 DEF Ordered
  <2>3. i + 1 \in 1 .. Len(todo) - 1
        BY <1>1, <2>2
  <2> QED BY <1>2, <2>2, <2>3
<1>6. ASSUME NEW i \in 1 .. Len(todo) - 1
      PROVE  MayFollow(todo[1], Tail(todo)[i])
      BY <1>1, <1>2, <1>3 DEF Ordered
<1>7. \A call : Contains(Tail(todo), call) => MayFollow(Head(todo), call)
      BY <1>1, <1>6 DEF Contains
<1>8. ASSUME Head(todo) = "snapshot"
      PROVE  Tail(todo) # <<>> /\ Head(Tail(todo)) = "replace"
  <2>1. 1 + 1 \in 1 .. Len(todo) /\ todo[1 + 1] = "replace"
        BY <1>1, <1>8 DEF Ordered
  <2>2. 1 \in 1 .. Len(todo) - 1 /\ Tail(todo)[1] = "replace"
        BY <1>1, <1>2, <2>1
  <2>3. Len(Tail(todo)) \in Nat \ {0}
        BY <1>1, <2>2
  <2> QED BY <2>2, <2>3, NotEmpty, TailOf
<1>9. /\ Brings(Tail(todo), "shutdown", "replace")
      /\ Brings(Tail(todo), "delete_owner_data", "replace")
      /\ Brings(Tail(todo), "shutdown", "remove_files")
      /\ Brings(Tail(todo), "remove_files", "clear_cache")
      /\ Brings(Tail(todo), "delete_owner_data", "delete_account")
      BY TailBrings DEF Ordered
<1>10. /\ Head(todo) \in {"shutdown", "delete_owner_data"} =>
              Contains(Tail(todo), "replace")
       /\ Head(todo) = "shutdown" => Contains(Tail(todo), "remove_files")
       /\ Head(todo) = "remove_files" => Contains(Tail(todo), "clear_cache")
       /\ Head(todo) = "delete_owner_data" => Contains(Tail(todo), "delete_account")
      BY TailBrings DEF Ordered
<1>11. Ordered(Tail(todo))
      BY <1>1, <1>4, <1>5, <1>9 DEF Ordered
<1> QED BY <1>7, <1>8, <1>10, <1>11

\* A script that removes the files clears the cache.
LEMMA RemovingEnds ==
    ASSUME NEW todo \in Seq(Call), Ordered(todo), Contains(todo, "remove_files")
    PROVE  Contains(todo, "clear_cache")
  BY DEF Ordered, Brings, Contains

\* What a script begins with.
Script(calls) ==
    /\ calls \in Seq(Call) /\ calls # <<>> /\ Ordered(calls)
    /\ Contains(calls, "clear_cache") => Contains(calls, "shutdown")
    /\ Contains(calls, "delete_account") => Contains(calls, "delete_owner_data")

LEMMA ChatIsScript == Script(ChatCalls)
<1> DEFINE calls == ChatCalls
<1>1. /\ calls \in Seq(Call) /\ Len(calls) = 5
      /\ calls[1] = "record" /\ calls[2] = "answer" /\ calls[3] = "record_reply"
      /\ calls[4] = "snapshot" /\ calls[5] = "replace"
      BY DEF ChatCalls, SaveState, Call
<1> HIDE DEF calls
<1>2. \A i \in 1 .. Len(calls) : i \in {1, 2, 3, 4, 5}
      BY <1>1
<1>3. Ordered(calls)
      BY <1>1, <1>2 DEF Ordered, Brings, MayFollow
<1>4. ~Contains(calls, "clear_cache") /\ ~Contains(calls, "delete_account")
      BY <1>1, <1>2 DEF Contains
<1>5. calls # <<>>
      BY <1>1, NotEmpty
<1> QED BY <1>1, <1>3, <1>4, <1>5 DEF Script, calls

LEMMA ForgetMeIsScript == Script(ForgetMeCalls)
<1> DEFINE calls == ForgetMeCalls
<1>1. /\ calls \in Seq(Call) /\ Len(calls) = 5
      /\ calls[1] = "delete_owner_data" /\ calls[2] = "snapshot" /\ calls[3] = "replace"
      /\ calls[4] = "delete_account" /\ calls[5] = "log_out"
      BY DEF ForgetMeCalls, SaveState, Call
<1> HIDE DEF calls
<1>2. \A i \in 1 .. Len(calls) : i \in {1, 2, 3, 4, 5}
      BY <1>1
<1>3. Ordered(calls)
      BY <1>1, <1>2 DEF Ordered, Brings, MayFollow
<1>4. ~Contains(calls, "clear_cache") /\ Contains(calls, "delete_owner_data")
      BY <1>1, <1>2 DEF Contains
<1>5. calls # <<>>
      BY <1>1, NotEmpty
<1> QED BY <1>1, <1>3, <1>4, <1>5 DEF Script, calls

LEMMA FullDeleteIsScript == Script(FullDeleteCalls)
<1> DEFINE calls == FullDeleteCalls
<1>1. /\ calls \in Seq(Call) /\ Len(calls) = 6
      /\ calls[1] = "shutdown" /\ calls[2] = "snapshot" /\ calls[3] = "replace"
      /\ calls[4] = "remove_files" /\ calls[5] = "clear_cache" /\ calls[6] = "log_out"
      BY DEF FullDeleteCalls, SaveState, Call
<1> HIDE DEF calls
<1>2. \A i \in 1 .. Len(calls) : i \in {1, 2, 3, 4, 5, 6}
      BY <1>1
<1>3. Ordered(calls)
      BY <1>1, <1>2 DEF Ordered, Brings, MayFollow
<1>4. ~Contains(calls, "delete_account") /\ Contains(calls, "shutdown")
      BY <1>1, <1>2 DEF Contains
<1>5. calls # <<>>
      BY <1>1, NotEmpty
<1> QED BY <1>1, <1>3, <1>4, <1>5 DEF Script, calls

LEMMA ControlIsScript ==
    ASSUME NEW call \in {"freeze", "unfreeze", "soft_reset"}
    PROVE  Script(<<call>> \o SaveState)
<1> DEFINE calls == <<call>> \o SaveState
<1>1. /\ calls \in Seq(Call) /\ Len(calls) = 3
      /\ calls[1] = call /\ calls[2] = "snapshot" /\ calls[3] = "replace"
      BY DEF SaveState, Call
<1> HIDE DEF calls
<1>2. \A i \in 1 .. Len(calls) : i \in {1, 2, 3}
      BY <1>1
<1>3. Ordered(calls)
      BY <1>1, <1>2 DEF Ordered, Brings, MayFollow
<1>4. ~Contains(calls, "clear_cache") /\ ~Contains(calls, "delete_account")
      BY <1>1, <1>2 DEF Contains
<1>5. calls # <<>>
      BY <1>1, NotEmpty
<1> QED BY <1>1, <1>3, <1>4, <1>5 DEF Script, calls

LEMMA AdminsAreScripts == \A calls \in AdminCalls : Script(calls)
  BY FullDeleteIsScript, ControlIsScript DEF AdminCalls

-----------------------------------------------------------------------------
(* The web server's variables keep their types.                                   *)

Tab(n) == [user : Name \cup {NoName}, account : {0} \cup Account, engine : 0 .. n,
           todo : Seq(Call), copy : Saved \cup {Absent}]

\* A session and its script, in a process that has made n engines: a script belongs
\* to an account and has an engine, and holds a copy only until it writes it.
GoodTab(tab, n) ==
    /\ tab \in Tab(n)
    /\ Ordered(tab.todo)
    /\ tab.todo # <<>> => tab.engine \in 1 .. n /\ tab.user # NoName
    /\ tab.user # NoName => tab.account \in Account
    /\ tab.copy # Absent => tab.todo # <<>> /\ Head(tab.todo) = "replace"

\* The workers of a process that has made n engines; one that waits carries nothing.
GoodWorker(worker, n) ==
    /\ worker \in Worker /\ worker.engine \in 1 .. n
    /\ worker.pc = "idle" => worker.held = {}

GoodWorkers(ws, n) == ws \in Seq(Worker) /\ \A w \in DOMAIN ws : GoodWorker(ws[w], n)

GoodDatabase == tables \in BOOLEAN /\ rows \subseteq Row /\ summaries \subseteq Telling

WebType ==
    /\ engines \in Seq(Engine)
    /\ cached \in 0 .. Len(engines)
    /\ GoodWorkers(workers, Len(engines))
    /\ file \in Saved \cup {Absent}
    /\ GoodDatabase
    /\ accounts \in [Name -> {0} \cup Account]
    /\ browser = [s \in Browser |-> browser[s]]
    /\ \A s \in Browser : GoodTab(browser[s], Len(engines))
    /\ {opened, era, scripts, faults, restarts, checkpoints} \subseteq Nat
    /\ {late, disturbed} \subseteq BOOLEAN

LEMMA WebTypeImplies == WebType => WebTypeOK
  BY DEF WebType, WebTypeOK, GoodTab, Tab, GoodWorkers, GoodWorker, GoodDatabase

\* Engines are only added to a process.
LEMMA MoreEngines ==
    ASSUME NEW m \in Nat, NEW n \in Nat, m <= n, NEW tab, GoodTab(tab, m)
    PROVE  GoodTab(tab, n)
<1>1. 0 .. m \subseteq 0 .. n /\ 1 .. m \subseteq 1 .. n
      OBVIOUS
<1> QED BY <1>1 DEF GoodTab, Tab

\* The session state before a login.
LEMMA LoggedOutIsGood ==
    ASSUME NEW n \in Nat
    PROVE  GoodTab(LoggedOut, n) /\ LoggedOut.todo = <<>>
<1>1. Ordered(<<>>)
  <2>1. 1 .. Len(<<>>) = {}
        OBVIOUS
  <2> QED BY <2>1 DEF Ordered, Brings
<1>2. <<>> \in Seq(Call) /\ 0 \in 0 .. n
      OBVIOUS
<1> QED BY <1>1, <1>2 DEF GoodTab, Tab, LoggedOut

\* A script whose next call is made, and that takes, keeps or drops a copy.
LEMMA TabGoesOn ==
    ASSUME NEW n \in Nat, NEW tab, GoodTab(tab, n), tab.todo # <<>>,
           NEW copy \in Saved \cup {Absent},
           copy # Absent => Head(tab.todo) = "snapshot",
           NEW new, new = [tab EXCEPT !.copy = copy, !.todo = Tail(@)]
    PROVE  GoodTab(new, n)
<1>1. tab \in Tab(n) /\ tab.todo \in Seq(Call) /\ Ordered(tab.todo)
      BY DEF GoodTab, Tab
<1>2. Tail(tab.todo) \in Seq(Call)
      BY <1>1, TailOf
<1>3. /\ new.user = tab.user /\ new.account = tab.account /\ new.engine = tab.engine
      /\ new.todo = Tail(tab.todo) /\ new.copy = copy
      BY <1>1 DEF Tab
<1>4. new \in Tab(n)
      BY <1>1, <1>2 DEF Tab
<1>5. /\ Ordered(Tail(tab.todo))
      /\ Head(tab.todo) = "snapshot" => Tail(tab.todo) # <<>> /\ Head(Tail(tab.todo)) = "replace"
      BY <1>1, TailOrdered
<1> QED BY <1>3, <1>4, <1>5 DEF GoodTab

\* A script that is given up.
LEMMA TabGivesUp ==
    ASSUME NEW n \in Nat, NEW tab, GoodTab(tab, n),
           NEW new, new = [tab EXCEPT !.copy = Absent, !.todo = <<>>]
    PROVE  GoodTab(new, n)
<1>1. tab \in Tab(n) /\ Ordered(<<>>)
      BY LoggedOutIsGood DEF GoodTab, LoggedOut
<1>2. /\ new.user = tab.user /\ new.account = tab.account
      /\ new.todo = <<>> /\ new.copy = Absent
      BY <1>1 DEF Tab
<1>3. new \in Tab(n)
  <2>1. <<>> \in Seq(Call)
        OBVIOUS
  <2> QED BY <1>1, <2>1 DEF Tab
<1> QED BY <1>1, <1>2, <1>3 DEF GoodTab

\* A script that has no copy does not get one by going on.
LEMMA NoCopy ==
    ASSUME NEW n, NEW tab, GoodTab(tab, n), tab.todo = <<>> \/ Head(tab.todo) # "replace"
    PROVE  /\ tab.copy = Absent
           /\ \A todo : [tab EXCEPT !.todo = todo] = [tab EXCEPT !.copy = Absent, !.todo = todo]
<1>1. tab.copy = Absent
      BY DEF GoodTab
<1>2. tab \in Tab(n)
      BY DEF GoodTab
<1> QED BY <1>1, <1>2 DEF Tab

\* A step that changes one session, and adds engines at most.
LEMMA OneTabChanges ==
    ASSUME WebType, NEW s \in Browser, NEW new, NEW n \in Nat, Len(engines) <= n,
           browser' = [browser EXCEPT ![s] = new], GoodTab(new, n)
    PROVE  /\ browser' = [o \in Browser |-> browser'[o]]
           /\ browser'[s] = new
           /\ \A o \in Browser \ {s} : browser'[o] = browser[o]
           /\ \A o \in Browser : GoodTab(browser'[o], n)
<1>1. Len(engines) \in Nat /\ browser = [o \in Browser |-> browser[o]]
      BY DEF WebType
<1>2. \A o \in Browser : GoodTab(browser[o], Len(engines))
      BY DEF WebType
<1>3. \A o \in Browser : GoodTab(browser[o], n)
      BY <1>1, <1>2, MoreEngines
<1>4. /\ browser' = [o \in Browser |-> browser'[o]]
      /\ browser'[s] = new
      /\ \A o \in Browser \ {s} : browser'[o] = browser[o]
      BY <1>1
<1> QED BY <1>3, <1>4

\* The engine of a script, changed to another one.
LEMMA EngineChanges ==
    ASSUME WebType, NEW s \in Browser, Busy(s), NEW engine \in Engine,
           Changes(s, engine)
    PROVE  /\ engines' \in Seq(Engine) /\ Len(engines') = Len(engines)
           /\ browser[s].engine \in 1 .. Len(engines)
           /\ engines'[browser[s].engine] = engine
           /\ \A e \in 1 .. Len(engines) :
                  e # browser[s].engine => engines'[e] = engines[e]
<1>1. browser[s].engine \in 1 .. Len(engines)
      BY DEF WebType, GoodTab, Busy
<1> DEFINE e == browser[s].engine
<1> HIDE DEF e
<1>2. engines' = [engines EXCEPT ![e] = engine] /\ engines \in Seq(Engine)
      BY DEF Changes, WebType, e
<1>3. e \in 1 .. Len(engines)
      BY <1>1 DEF e
<1>4. /\ engines' \in Seq(Engine) /\ Len(engines') = Len(engines)
      /\ engines'[e] = engine
      /\ \A k \in 1 .. Len(engines) : k # e => engines'[k] = engines[k]
      BY <1>2, <1>3
<1> QED BY <1>3, <1>4 DEF e

\* Workers are not disturbed by more engines.
LEMMA WorkersStay ==
    ASSUME NEW m \in Nat, NEW n \in Nat, m <= n, NEW ws, GoodWorkers(ws, m)
    PROVE  GoodWorkers(ws, n)
<1>1. 1 .. m \subseteq 1 .. n
      OBVIOUS
<1> QED BY <1>1 DEF GoodWorkers, GoodWorker

\* A worker that is started waits.
LEMMA WorkerStarts ==
    ASSUME NEW n \in Nat, NEW e \in 1 .. n, GoodWorkers(workers, n),
           workers' = Append(workers, Idle(e))
    PROVE  GoodWorkers(workers', n) /\ Carried' = Carried /\ (AtWork' <=> AtWork)
<1>1. /\ Idle(e) \in Worker /\ Idle(e).engine = e
      /\ Idle(e).pc = "idle" /\ Idle(e).held = {}
      BY DEF Idle, Worker
<1> DEFINE l == Len(workers) + 1
<1>2. workers \in Seq(Worker)
      BY DEF GoodWorkers
<1>3. /\ workers' \in Seq(Worker) /\ l \in DOMAIN workers' /\ workers'[l] = Idle(e)
      /\ DOMAIN workers \subseteq DOMAIN workers'
      /\ \A w \in DOMAIN workers : workers'[w] = workers[w]
      /\ \A w \in DOMAIN workers' : w \in DOMAIN workers \/ w = l
      BY <1>1, <1>2
<1> HIDE DEF l
<1>4. GoodWorkers(workers', n)
      BY <1>1, <1>3 DEF GoodWorkers, GoodWorker
<1>5. \A t : t \in Carried' <=> t \in Carried
      BY <1>1, <1>3 DEF Carried
<1>6. AtWork' <=> AtWork
      BY <1>1, <1>3 DEF AtWork
<1> QED BY <1>4, <1>5, <1>6

\* The engine a script gets: the cached one, or a new one that loads the file.
LEMMA MindIsGot ==
    ASSUME WebType, NEW e \in 1 .. Len(engines) + 1, GetMind(e)
    PROVE  /\ engines' \in Seq(Engine) /\ Len(engines) <= Len(engines')
           /\ e \in 1 .. Len(engines') /\ cached' = e
           /\ \A k \in 1 .. Len(engines) : engines'[k] = engines[k]
           /\ cached # 0 => UNCHANGED <<engines, cached>>
           /\ cached = 0 => /\ Len(engines') = Len(engines) + 1
                            /\ engines'[e].memory = Kept /\ engines'[e].dreamt \subseteq Kept
           /\ GoodWorkers(workers', Len(engines')) /\ Carried' = Carried /\ (AtWork' <=> AtWork)
           /\ GoodDatabase' /\ Stored' = Stored
<1>1. /\ engines \in Seq(Engine) /\ Len(engines) \in Nat /\ cached \in 0 .. Len(engines)
      /\ GoodWorkers(workers, Len(engines)) /\ GoodDatabase
      BY DEF WebType
<1>2. GoodDatabase' /\ Stored' = Stored
      BY <1>1 DEF GetMind, GoodDatabase, Stored, database
<1>3. CASE cached # 0
  <2>1. UNCHANGED <<engines, cached, workers>> /\ e = cached
        BY <1>3 DEF GetMind, mind
  <2>2. Carried' = Carried /\ (AtWork' <=> AtWork)
        BY <2>1 DEF Carried, AtWork
  <2> QED BY <1>1, <1>2, <1>3, <2>1, <2>2
<1>4. CASE cached = 0
  <2>1. PICK dreamt \in SUBSET Kept :
            engines' = Append(engines, [frozen |-> file # Absent /\ file.frozen,
                                        memory |-> Kept, dreamt |-> dreamt])
        BY <1>4 DEF GetMind
  <2> DEFINE new == [frozen |-> file # Absent /\ file.frozen, memory |-> Kept,
                     dreamt |-> dreamt]
  <2>2. new \in Engine /\ new.memory = Kept /\ new.dreamt = dreamt
        BY <2>1 DEF WebType, Engine, Saved, Kept
  <2>3. engines' = Append(engines, new)
        BY <2>1
  <2> HIDE DEF new
  <2>4. /\ e = Len(engines') /\ cached' = e /\ workers' = Append(workers, Idle(e))
        BY <1>4 DEF GetMind
  <2>5. /\ engines' \in Seq(Engine) /\ Len(engines') = Len(engines) + 1
        /\ engines'[Len(engines) + 1] = new
        /\ \A k \in 1 .. Len(engines) : engines'[k] = engines[k]
        BY <1>1, <2>2, <2>3
  <2>6. GoodWorkers(workers', Len(engines')) /\ Carried' = Carried /\ (AtWork' <=> AtWork)
    <3>1. GoodWorkers(workers, Len(engines')) /\ e \in 1 .. Len(engines')
          BY <1>1, <2>4, <2>5, WorkersStay
    <3> QED BY <1>1, <2>4, <2>5, <3>1, WorkerStarts
  <2> QED BY <1>1, <1>2, <1>4, <2>1, <2>2, <2>4, <2>5, <2>6
<1> QED BY <1>3, <1>4

LEMMA WebTypeInitially == WebInit => WebType
<1> SUFFICES ASSUME WebInit
             PROVE  WebType
    OBVIOUS
<1>1. engines \in Seq(Engine) /\ Len(engines) = 0
      BY DEF WebInit
<1>2. browser = [s \in Browser |-> LoggedOut]
      BY DEF WebInit
<1>3. \A s \in Browser : GoodTab(browser[s], Len(engines))
      BY <1>1, <1>2, LoggedOutIsGood
<1>4. /\ cached = 0 /\ file = Absent /\ accounts = [n \in Name |-> 0]
      /\ opened = 0 /\ era = 0 /\ late = FALSE /\ disturbed = FALSE
      /\ scripts = 0 /\ faults = 0 /\ restarts = 0 /\ checkpoints = 0
      BY DEF WebInit
<1>5. browser = [s \in Browser |-> browser[s]]
      BY <1>2
<1>6. cached \in 0 .. Len(engines) /\ accounts \in [Name -> {0} \cup Account]
      BY <1>1, <1>4
<1>7. /\ file \in Saved \cup {Absent}
      /\ {opened, era, scripts, faults, restarts, checkpoints} \subseteq Nat
      BY <1>4
<1>8. {late, disturbed} \subseteq BOOLEAN
      BY <1>4
<1>9. GoodWorkers(workers, Len(engines))
  <2>1. <<>> \in Seq(Worker) /\ DOMAIN <<>> = {}
        OBVIOUS
  <2> QED BY <2>1 DEF WebInit, GoodWorkers
<1>10. GoodDatabase
      BY DEF WebInit, GoodDatabase
<1> QED BY <1>1, <1>3, <1>5, <1>6, <1>7, <1>8, <1>9, <1>10 DEF WebType

\* A login under the name of an account.
LEMMA SessionStarts ==
    ASSUME WebType, NEW s \in Browser, NEW n \in Name,
           NEW e \in 1 .. Len(engines) + 1, GetMind(e),
           accounts' \in [Name -> {0} \cup Account], accounts'[n] \in Account,
           StartSession(s, n), UNCHANGED <<file, era, late, disturbed, bounds>>,
           opened' \in Nat
    PROVE  /\ WebType'
           /\ browser'[s].todo = <<>> /\ browser'[s].copy = Absent
           /\ \A o \in Browser \ {s} : browser'[o] = browser[o]
<1> DEFINE new == [LoggedOut EXCEPT !.user = n, !.account = accounts'[n]]
<1>1. /\ engines' \in Seq(Engine) /\ Len(engines) <= Len(engines')
      /\ cached' \in 1 .. Len(engines')
      /\ GoodWorkers(workers', Len(engines')) /\ GoodDatabase'
      BY MindIsGot
<1>2. Len(engines') \in Nat
      BY <1>1
<1>3. GoodTab(LoggedOut, Len(engines'))
      BY <1>2, LoggedOutIsGood
<1>4. new \in Tab(Len(engines')) /\ new.todo = <<>> /\ new.copy = Absent
      BY <1>3 DEF GoodTab, Tab, LoggedOut
<1>5. new.account \in Account
      BY DEF LoggedOut
<1>6. Ordered(<<>>)
      BY <1>3 DEF GoodTab, LoggedOut
<1>7. GoodTab(new, Len(engines'))
      BY <1>4, <1>5, <1>6 DEF GoodTab
<1>8. browser' = [browser EXCEPT ![s] = new]
      BY DEF StartSession
<1> HIDE DEF new
<1>9. /\ browser' = [o \in Browser |-> browser'[o]]
      /\ browser'[s] = new
      /\ \A o \in Browser \ {s} : browser'[o] = browser[o]
      /\ \A o \in Browser : GoodTab(browser'[o], Len(engines'))
      BY <1>1, <1>2, <1>7, <1>8, OneTabChanges
<1>10. WebType'
      BY <1>1, <1>9 DEF WebType, bounds
<1> QED BY <1>4, <1>9, <1>10

LEMMA RegisterStarts ==
    ASSUME WebType, MaxOpened \in Nat, NEW s \in Browser, NEW n \in Name, SignUp(s, n)
    PROVE  /\ WebType'
           /\ browser'[s].todo = <<>> /\ browser'[s].copy = Absent
           /\ \A o \in Browser \ {s} : browser'[o] = browser[o]
<1>1. PICK e \in 1 .. Len(engines) + 1 : GetMind(e)
      BY DEF SignUp
<1>2. opened' = opened + 1 /\ opened < MaxOpened /\ opened \in Nat
      BY DEF SignUp, WebType
<1>3. opened' \in Account /\ opened' \in Nat
      BY <1>2 DEF Account
<1>4. accounts' \in [Name -> {0} \cup Account] /\ accounts'[n] \in Account
      BY <1>3 DEF SignUp, WebType
<1>5. StartSession(s, n) /\ UNCHANGED <<file, era, late, disturbed, bounds>>
      BY DEF SignUp
<1> QED BY <1>1, <1>3, <1>4, <1>5, SessionStarts

LEMMA LoginStarts ==
    ASSUME WebType, NEW s \in Browser, NEW n \in Name, Login(s, n)
    PROVE  /\ WebType'
           /\ browser'[s].todo = <<>> /\ browser'[s].copy = Absent
           /\ \A o \in Browser \ {s} : browser'[o] = browser[o]
<1>1. PICK e \in 1 .. Len(engines) + 1 : GetMind(e)
      BY DEF Login
<1>2. /\ accounts' \in [Name -> {0} \cup Account] /\ accounts'[n] \in Account
      /\ opened' \in Nat
      BY DEF Login, WebType
<1>3. StartSession(s, n) /\ UNCHANGED <<file, era, late, disturbed, bounds>>
      BY DEF Login
<1> QED BY <1>1, <1>2, <1>3, SessionStarts

\* A script begins, with all of its calls and the engine that is cached.
LEMMA ScriptBegins ==
    ASSUME WebType, NEW s \in Browser, NEW calls, Script(calls), Begin(s, calls)
    PROVE  /\ WebType'
           /\ cached' # 0 /\ browser'[s].engine = cached'
           /\ browser'[s].todo = calls /\ browser'[s].copy = Absent
           /\ browser'[s].user = browser[s].user
           /\ \A o \in Browser \ {s} : browser'[o] = browser[o]
<1>1. PICK e \in 1 .. Len(engines) + 1 :
          /\ GetMind(e)
          /\ browser' = [browser EXCEPT ![s].engine = e, ![s].todo = calls]
      BY DEF Begin
<1>2. /\ engines' \in Seq(Engine) /\ Len(engines) <= Len(engines')
      /\ e \in 1 .. Len(engines') /\ cached' = e /\ e # 0
      /\ GoodWorkers(workers', Len(engines')) /\ GoodDatabase'
      BY <1>1, MindIsGot
<1>3. Len(engines') \in Nat /\ Len(engines) \in Nat
      BY <1>2 DEF WebType
<1> DEFINE new == [browser[s] EXCEPT !.engine = e, !.todo = calls]
<1>4. GoodTab(browser[s], Len(engines'))
      BY <1>2, <1>3, MoreEngines DEF WebType
<1>5. browser[s].user # NoName /\ browser[s].todo = <<>>
      BY DEF Begin, LoggedIn, Busy
<1>6. browser[s].copy = Absent /\ browser[s] \in Tab(Len(engines'))
      BY <1>4, <1>5 DEF GoodTab
<1>7. /\ new.user = browser[s].user /\ new.account = browser[s].account /\ new.engine = e
      /\ new.todo = calls /\ new.copy = Absent
      BY <1>6 DEF Tab
<1>8. new \in Tab(Len(engines'))
  <2>1. e \in 0 .. Len(engines') /\ calls \in Seq(Call)
        BY <1>2, <1>3 DEF Script
  <2> QED BY <1>6, <2>1 DEF Tab
<1>9. GoodTab(new, Len(engines'))
      BY <1>2, <1>4, <1>5, <1>7, <1>8 DEF GoodTab, Script
<1>10. browser' = [browser EXCEPT ![s] = new]
      BY <1>1 DEF WebType
<1> HIDE DEF new
<1>11. /\ browser' = [o \in Browser |-> browser'[o]]
       /\ browser'[s] = new
       /\ \A o \in Browser \ {s} : browser'[o] = browser[o]
       /\ \A o \in Browser : GoodTab(browser'[o], Len(engines'))
      BY <1>2, <1>3, <1>9, <1>10, OneTabChanges
<1>12. /\ file' = file /\ accounts' = accounts /\ opened' = opened /\ era' = era /\ late' = late
       /\ scripts' = scripts + 1 /\ faults' = faults /\ restarts' = restarts
       /\ checkpoints' = checkpoints /\ disturbed' \in BOOLEAN
      BY DEF Begin, NextScript, Disturb, WebType
<1>13. WebType'
      BY <1>2, <1>11, <1>12 DEF WebType
<1> QED BY <1>2, <1>7, <1>11, <1>13

\* What a step of a script does to the sessions: one goes on, or is given up; it may
\* take a copy or drop the one it has.
GoesOn(s, copy) == browser' = [browser EXCEPT ![s].copy = copy, ![s].todo = Tail(@)]
GivesUp(s) == browser' = [browser EXCEPT ![s].copy = Absent, ![s].todo = <<>>]

LEMMA ScriptGoesOn ==
    ASSUME WebType, NEW s \in Browser, Busy(s), NEW copy \in Saved \cup {Absent},
           copy # Absent => Head(browser[s].todo) = "snapshot",
           GoesOn(s, copy)
    PROVE  /\ browser' = [o \in Browser |-> browser'[o]]
           /\ \A o \in Browser : GoodTab(browser'[o], Len(engines))
           /\ \A o \in Browser \ {s} : browser'[o] = browser[o]
           /\ browser'[s].todo = Tail(browser[s].todo) /\ browser'[s].copy = copy
           /\ browser'[s].user = browser[s].user /\ browser'[s].engine = browser[s].engine
<1> DEFINE new == [browser[s] EXCEPT !.copy = copy, !.todo = Tail(@)]
<1>1. /\ GoodTab(browser[s], Len(engines)) /\ browser[s].todo # <<>>
      /\ Len(engines) \in Nat /\ Len(engines) <= Len(engines)
      BY DEF WebType, Busy
<1>2. GoodTab(new, Len(engines))
      BY <1>1, TabGoesOn
<1>3. browser' = [browser EXCEPT ![s] = new]
      BY DEF GoesOn, WebType
<1>4. /\ new.todo = Tail(browser[s].todo) /\ new.copy = copy
      /\ new.user = browser[s].user /\ new.engine = browser[s].engine
      BY <1>1 DEF GoodTab, Tab
<1> HIDE DEF new
<1> QED BY <1>1, <1>2, <1>3, <1>4, OneTabChanges

LEMMA ScriptGivesUp ==
    ASSUME WebType, NEW s \in Browser, GivesUp(s)
    PROVE  /\ browser' = [o \in Browser |-> browser'[o]]
           /\ \A o \in Browser : GoodTab(browser'[o], Len(engines))
           /\ \A o \in Browser \ {s} : browser'[o] = browser[o]
           /\ browser'[s].todo = <<>> /\ browser'[s].copy = Absent
<1> DEFINE new == [browser[s] EXCEPT !.copy = Absent, !.todo = <<>>]
<1>1. GoodTab(browser[s], Len(engines)) /\ Len(engines) \in Nat /\ Len(engines) <= Len(engines)
      BY DEF WebType
<1>2. GoodTab(new, Len(engines))
      BY <1>1, TabGivesUp
<1>3. browser' = [browser EXCEPT ![s] = new]
      BY DEF GivesUp, WebType
<1>4. new.todo = <<>> /\ new.copy = Absent
      BY <1>1 DEF GoodTab, Tab
<1> HIDE DEF new
<1> QED BY <1>1, <1>2, <1>3, <1>4, OneTabChanges

\* A log-out.
LEMMA SessionEnds ==
    ASSUME WebType, NEW s \in Browser, browser' = [browser EXCEPT ![s] = LoggedOut]
    PROVE  /\ browser' = [o \in Browser |-> browser'[o]]
           /\ \A o \in Browser : GoodTab(browser'[o], Len(engines))
           /\ \A o \in Browser \ {s} : browser'[o] = browser[o]
           /\ browser'[s].todo = <<>> /\ browser'[s].copy = Absent
<1>1. Len(engines) \in Nat /\ Len(engines) <= Len(engines) /\ GoodTab(LoggedOut, Len(engines))
      BY LoggedOutIsGood DEF WebType
<1>2. LoggedOut.todo = <<>> /\ LoggedOut.copy = Absent
      BY DEF LoggedOut
<1> QED BY <1>1, <1>2, OneTabChanges

\* A step other than a snapshot or a save leaves the session without a copy.
LEMMA Proceeding ==
    ASSUME WebType, NEW s \in Browser, Busy(s), Head(browser[s].todo) # "replace",
           Proceeds(s)
    PROVE  GoesOn(s, Absent)
<1>1. GoodTab(browser[s], Len(engines)) /\ browser = [o \in Browser |-> browser[o]]
      BY DEF WebType
<1> DEFINE todo == Tail(browser[s].todo)
<1>2. [browser[s] EXCEPT !.todo = todo] = [browser[s] EXCEPT !.copy = Absent, !.todo = todo]
      BY <1>1, NoCopy
<1>3. browser' = [browser EXCEPT ![s] = [browser[s] EXCEPT !.todo = todo]]
      BY <1>1 DEF Proceeds
<1> QED BY <1>1, <1>2, <1>3 DEF GoesOn

\* Nor does one that is cut short.
LEMMA Stopping ==
    ASSUME WebType, NEW s \in Browser, Head(browser[s].todo) # "replace", Stops(s)
    PROVE  GivesUp(s)
<1>1. GoodTab(browser[s], Len(engines)) /\ browser = [o \in Browser |-> browser[o]]
      BY DEF WebType
<1>2. [browser[s] EXCEPT !.todo = <<>>] = [browser[s] EXCEPT !.copy = Absent, !.todo = <<>>]
      BY <1>1, NoCopy
<1>3. browser' = [browser EXCEPT ![s] = [browser[s] EXCEPT !.todo = <<>>]]
      BY <1>1 DEF Stops
<1> QED BY <1>1, <1>2, <1>3 DEF GivesUp

\* The calls that are about the files and the accounts, and those that change nothing
\* but the script.
LEMMA TypeOfOthers ==
    ASSUME WebType, NEW s \in Browser,
           \/ Answer(s) \/ GiveUp(s) \/ Snapshot(s) \/ Replace(s)
           \/ SaveFails(s) \/ DeletesAccount(s) \/ LogsOut(s)
           \/ RemoveFiles(s) \/ ClearCache(s)
    PROVE  WebType'
<1>1. /\ Len(engines) \in Nat /\ engines \in Seq(Engine)
      /\ file \in Saved \cup {Absent} /\ accounts \in [Name -> {0} \cup Account]
      BY DEF WebType
<1>2. /\ engines' = engines /\ cached' \in {cached, 0} /\ workers' = workers
      /\ accounts' \in [Name -> {0} \cup Account]
      /\ opened' = opened /\ era' = era /\ late' = late /\ disturbed' \in BOOLEAN
      /\ scripts' = scripts /\ restarts' = restarts /\ checkpoints' = checkpoints
      /\ faults' \in Nat
  <2>1. accounts \in [Name -> {0} \cup Account] /\ faults \in Nat /\ disturbed \in BOOLEAN
        BY DEF WebType
  <2>2. CASE RemoveFiles(s)
    <3>1. accounts' = accounts \/ accounts' = [n \in Name |-> 0]
          BY <2>2 DEF RemoveFiles
    <3>2. UNCHANGED bounds \/ Fault
          BY <2>2 DEF RemoveFiles
    <3>3. /\ UNCHANGED <<engines, cached, workers, opened, era, late>>
          /\ \E happened \in BOOLEAN : disturbed' = (disturbed \/ happened)
          BY <2>2 DEF RemoveFiles, mind, Disturb
    <3> QED BY <2>1, <3>1, <3>2, <3>3 DEF Fault, bounds
  <2>3. CASE ~RemoveFiles(s)
        BY <2>1, <2>3 DEF Answer, GiveUp, Snapshot, Replace, SaveFails,
                      DeletesAccount, LogsOut, ClearCache, mind, bounds, Fault
  <2> QED BY <2>2, <2>3
<1>3. GoodTab(browser[s], Len(engines))
      BY DEF WebType
<1>4. file' \in Saved \cup {Absent} /\ GoodDatabase'
  <2>1. browser[s].copy \in Saved \cup {Absent} /\ GoodDatabase
        BY <1>3 DEF GoodTab, Tab, WebType
  <2>2. file' \in {file, browser[s].copy, Absent}
        BY DEF Answer, GiveUp, Snapshot, Replace, SaveFails,
               DeletesAccount, LogsOut, RemoveFiles, ClearCache
  <2>3. \/ UNCHANGED database
        \/ tables' = FALSE /\ rows' = {} /\ summaries' = {}
        BY DEF Answer, GiveUp, Snapshot, Replace, SaveFails,
               DeletesAccount, LogsOut, RemoveFiles, ClearCache
  <2>4. GoodDatabase'
        BY <2>1, <2>3 DEF GoodDatabase, database
  <2> QED BY <1>1, <2>1, <2>2, <2>4
<1>5. CASE GivesUp(s) \/ browser' = [browser EXCEPT ![s] = LoggedOut]
  <2>1. /\ browser' = [o \in Browser |-> browser'[o]]
        /\ \A o \in Browser : GoodTab(browser'[o], Len(engines))
        BY <1>5, ScriptGivesUp, SessionEnds
  <2> QED BY <1>1, <1>2, <1>4, <2>1 DEF WebType
<1>6. ASSUME Busy(s), NEW copy \in Saved \cup {Absent}, GoesOn(s, copy),
             copy # Absent => Head(browser[s].todo) = "snapshot"
      PROVE  WebType'
  <2>1. /\ browser' = [o \in Browser |-> browser'[o]]
        /\ \A o \in Browser : GoodTab(browser'[o], Len(engines))
        BY <1>6, ScriptGoesOn
  <2> QED BY <1>1, <1>2, <1>4, <2>1 DEF WebType
<1>7. CASE Answer(s) \/ DeletesAccount(s) \/ RemoveFiles(s) \/ ClearCache(s)
  <2>1. Busy(s) /\ Head(browser[s].todo) # "replace" /\ Proceeds(s)
        BY <1>7 DEF Answer, DeletesAccount, RemoveFiles, ClearCache, Makes
  <2> QED BY <1>6, <2>1, Proceeding
<1>8. CASE GiveUp(s)
  <2>1. Head(browser[s].todo) # "replace" /\ Stops(s)
        BY <1>8 DEF GiveUp, Makes
  <2> QED BY <1>5, <2>1, Stopping
<1>9. CASE Snapshot(s)
  <2> DEFINE copy == [frozen |-> Mind(s).frozen, memory |-> Mind(s).memory]
  <2>1. Busy(s) /\ Head(browser[s].todo) = "snapshot" /\ GoesOn(s, copy)
        BY <1>9 DEF Snapshot, Makes, GoesOn
  <2>2. browser[s].engine \in 1 .. Len(engines)
        BY <1>3, <2>1 DEF GoodTab, Busy
  <2>3. Mind(s) \in Engine
        BY <1>1, <2>2 DEF Mind
  <2>4. copy \in Saved
        BY <2>3 DEF Engine, Saved
  <2> QED BY <1>6, <2>1, <2>4
<1>10. CASE Replace(s)
  <2>1. Busy(s) /\ GoesOn(s, Absent)
        BY <1>10 DEF Replace, Makes, GoesOn
  <2> QED BY <1>6, <2>1
<1>11. CASE SaveFails(s)
  <2>1. Busy(s) /\ (GoesOn(s, Absent) \/ GivesUp(s))
        BY <1>11 DEF SaveFails, Makes, GoesOn, GivesUp
  <2> QED BY <1>5, <1>6, <2>1
<1>12. CASE LogsOut(s)
      BY <1>5, <1>12 DEF LogsOut
<1> QED BY <1>7, <1>8, <1>9, <1>10, <1>11, <1>12

\* The calls that change the script's engine or the database.
LEMMA TypeOfChanges ==
    ASSUME WebType, NEW s \in Browser,
           Busy(s), Head(browser[s].todo) # "replace", Proceeds(s) \/ Stops(s),
           engines' = engines \/ \E engine \in Engine : Changes(s, engine),
           GoodWorkers(workers', Len(engines)), GoodDatabase',
           era' \in Nat, late' \in BOOLEAN, disturbed' \in BOOLEAN,
           UNCHANGED <<cached, file, accounts, opened, bounds>>
    PROVE  WebType'
<1>1. engines' \in Seq(Engine) /\ Len(engines') = Len(engines)
      BY EngineChanges DEF WebType
<1>2. GoesOn(s, Absent) \/ GivesUp(s)
      BY Proceeding, Stopping
<1>3. /\ browser' = [o \in Browser |-> browser'[o]]
      /\ \A o \in Browser : GoodTab(browser'[o], Len(engines))
      BY <1>2, ScriptGoesOn, ScriptGivesUp
<1> QED BY <1>1, <1>3 DEF WebType, bounds

\* What is recorded, erased, reset or frozen.
LEMMA EngineOf ==
    ASSUME WebType, NEW s \in Browser, Busy(s)
    PROVE  /\ browser[s].engine \in 1 .. Len(engines) /\ Mind(s) \in Engine
           /\ browser[s].user \in Name /\ browser[s].account \in Account
<1>1. GoodTab(browser[s], Len(engines)) /\ engines \in Seq(Engine)
      BY DEF WebType
<1>2. browser[s].engine \in 1 .. Len(engines) /\ browser[s].user # NoName
      BY <1>1 DEF GoodTab, Busy
<1> QED BY <1>1, <1>2 DEF GoodTab, Tab, Mind

\* What a recording does to the engine, to the rows and to the script.
Told(s) == [owner |-> browser[s].user, account |-> browser[s].account, era |-> era]

LEMMA Recording ==
    ASSUME WebType, NEW s \in Browser, Record(s)
    PROVE  /\ Busy(s) /\ Head(browser[s].todo) \in {"record", "record_reply"}
           /\ Proceeds(s) \/ Stops(s)
           /\ Told(s) \in Telling
           /\ \/ engines' = engines
              \/ \E engine \in Engine :
                     /\ Changes(s, engine)
                     /\ engine.memory \cup engine.dreamt \subseteq Mind(s).memory \cup Mind(s).dreamt
           /\ GoodDatabase' /\ Stored \subseteq Stored' /\ Stored' \subseteq Stored \cup {Told(s)}
<1>1. Busy(s) /\ Head(browser[s].todo) \in {"record", "record_reply"}
      BY DEF Record, Makes
<1>2. /\ browser[s].engine \in Nat /\ Mind(s) \in Engine /\ Told(s) \in Telling
  <2>1. era \in Nat /\ Len(engines) \in Nat
        BY DEF WebType
  <2> QED BY <1>1, <2>1, EngineOf DEF Told, Telling
<1>3. \/ rows' = rows
      \/ rows' = rows \cup {[session |-> browser[s].engine, told |-> Told(s)]}
      BY DEF Record, Told
<1>4. UNCHANGED <<tables, summaries>> /\ (Proceeds(s) \/ Stops(s))
      BY DEF Record
<1>5. GoodDatabase' /\ Stored \subseteq Stored' /\ Stored' \subseteq Stored \cup {Told(s)}
  <2>1. GoodDatabase
        BY DEF WebType
  <2>2. [session |-> browser[s].engine, told |-> Told(s)] \in Row
        BY <1>2 DEF Row
  <2> QED BY <1>3, <1>4, <2>1, <2>2 DEF GoodDatabase, Stored
<1>6. ASSUME ~Mind(s).frozen
      PROVE  \E engine \in Engine :
                 /\ Changes(s, engine)
                 /\ engine.memory \cup engine.dreamt \subseteq Mind(s).memory \cup Mind(s).dreamt
  <2>1. PICK valid \in SUBSET Mind(s).dreamt :
            Changes(s, IF Makes(s, "record")
                       THEN [Mind(s) EXCEPT !.memory = @ \cup valid, !.dreamt = {}]
                       ELSE Mind(s))
        BY <1>6 DEF Record
  <2> DEFINE own == Mind(s)
             judged == [own EXCEPT !.memory = @ \cup valid, !.dreamt = {}]
  <2>2. judged \in Engine /\ judged.memory \cup judged.dreamt \subseteq own.memory \cup own.dreamt
        BY <1>2 DEF Engine
  <2>3. Changes(s, judged) \/ Changes(s, own)
        BY <2>1
  <2> QED BY <1>2, <2>2, <2>3
<1>7. Mind(s).frozen => engines' = engines
      BY DEF Record
<1> QED BY <1>1, <1>2, <1>4, <1>5, <1>6, <1>7

\* The engine an erasure leaves.
Erased(s) == [Mind(s) EXCEPT !.memory = {t \in @ : t.owner # browser[s].user}]

LEMMA ErasedEngine ==
    ASSUME WebType, NEW s \in Browser, Busy(s)
    PROVE  /\ Erased(s) \in Engine /\ Erased(s).dreamt = Mind(s).dreamt
           /\ Erased(s).memory = {t \in Mind(s).memory : t.owner # browser[s].user}
  BY EngineOf DEF Erased, Engine

\* The engine the kill switch leaves.
Emptied(s) == [Mind(s) EXCEPT !.frozen = TRUE, !.memory = {}]

LEMMA EmptiedEngine ==
    ASSUME WebType, NEW s \in Browser, Busy(s)
    PROVE  /\ Emptied(s) \in Engine /\ Emptied(s).memory = {}
           /\ Emptied(s).dreamt = Mind(s).dreamt
  BY EngineOf DEF Emptied, Engine

LEMMA FreshEngine == Fresh \in Engine /\ Fresh.memory = {} /\ Fresh.dreamt = {}
  BY DEF Fresh, Engine

LEMMA FrozenEngine ==
    ASSUME NEW engine \in Engine, NEW frozen \in BOOLEAN
    PROVE  /\ [engine EXCEPT !.frozen = frozen] \in Engine
           /\ [engine EXCEPT !.frozen = frozen].memory = engine.memory
           /\ [engine EXCEPT !.frozen = frozen].dreamt = engine.dreamt
  BY DEF Engine

LEMMA StepKeepsTypes == ASSUME WebType, NEW s \in Browser, CallStep(s) PROVE WebType'
<1>0. /\ GoodWorkers(workers, Len(engines)) /\ GoodDatabase /\ Len(engines) \in Nat
      /\ era \in Nat /\ late \in BOOLEAN /\ disturbed \in BOOLEAN
      BY DEF WebType
<1>1. CASE Record(s)
  <2>1. /\ late' \in BOOLEAN /\ era' \in Nat /\ disturbed' \in BOOLEAN
        /\ UNCHANGED <<cached, workers, file, accounts, opened, bounds>>
        BY <1>0, <1>1 DEF Record
  <2> QED BY <1>0, <1>1, <2>1, Recording, TypeOfChanges
<1>2. CASE DeleteOwnerData(s)
  <2>1. Busy(s) /\ Head(browser[s].todo) # "replace" /\ (Proceeds(s) \/ Stops(s))
        BY <1>2 DEF DeleteOwnerData, Makes
  <2>2. Changes(s, Erased(s))
        BY <1>2 DEF DeleteOwnerData, Erased
  <2>3. /\ late' \in BOOLEAN /\ era' \in Nat /\ disturbed' \in BOOLEAN
        /\ UNCHANGED <<cached, workers, file, accounts, opened, bounds>>
        BY <1>0, <1>2 DEF DeleteOwnerData, Disturb
  <2>4. GoodDatabase'
        BY <1>0, <1>2 DEF DeleteOwnerData, GoodDatabase
  <2> QED BY <1>0, <2>1, <2>2, <2>3, <2>4, ErasedEngine, TypeOfChanges
<1>3. CASE Shutdown(s)
  <2>1. Busy(s) /\ Head(browser[s].todo) # "replace" /\ Proceeds(s)
        BY <1>3 DEF Shutdown, Makes
  <2>2. Changes(s, Emptied(s))
        BY <1>3 DEF Shutdown, Emptied
  <2>3. /\ late' \in BOOLEAN /\ era' \in Nat /\ disturbed' \in BOOLEAN
        /\ UNCHANGED <<cached, workers, file, database, accounts, opened, bounds>>
        BY <1>0, <1>3 DEF Shutdown, Disturb
  <2>4. GoodDatabase'
        BY <1>0, <2>3 DEF GoodDatabase, database
  <2> QED BY <1>0, <2>1, <2>2, <2>3, <2>4, EmptiedEngine, TypeOfChanges
<1>4. CASE SetFrozen(s)
  <2>1. Busy(s) /\ Head(browser[s].todo) # "replace" /\ Proceeds(s)
        BY <1>4 DEF SetFrozen, Makes
  <2>2. PICK frozen \in BOOLEAN : Changes(s, [Mind(s) EXCEPT !.frozen = frozen])
        BY <1>4 DEF SetFrozen, Makes
  <2>3. /\ late' \in BOOLEAN /\ era' \in Nat /\ disturbed' \in BOOLEAN
        /\ UNCHANGED <<cached, workers, file, database, accounts, opened, bounds>>
        BY <1>0, <1>4 DEF SetFrozen
  <2>4. [Mind(s) EXCEPT !.frozen = frozen] \in Engine
        BY <2>1, EngineOf, FrozenEngine
  <2>5. GoodDatabase'
        BY <1>0, <2>3 DEF GoodDatabase, database
  <2> QED BY <1>0, <2>1, <2>2, <2>3, <2>4, <2>5, TypeOfChanges
<1>5. CASE SoftReset(s)
  <2>1. Busy(s) /\ Head(browser[s].todo) # "replace" /\ (Proceeds(s) \/ Stops(s))
        BY <1>5 DEF SoftReset, Makes
  <2>2. Changes(s, Fresh) \/ engines' = engines
        BY <1>5 DEF SoftReset
  <2>3. /\ late' \in BOOLEAN /\ era' \in Nat /\ disturbed' \in BOOLEAN
        /\ UNCHANGED <<cached, file, accounts, opened, bounds>>
        BY <1>0, <1>5 DEF SoftReset
  <2>4. GoodDatabase'
        BY <1>0, <1>5 DEF SoftReset, GoodDatabase
  <2>5. GoodWorkers(workers', Len(engines))
    <3>1. workers' = workers \/ workers' = Append(workers, Idle(browser[s].engine))
          BY <1>5 DEF SoftReset
    <3> QED BY <1>0, <2>1, <3>1, EngineOf, WorkerStarts
  <2> QED BY <1>0, <2>1, <2>2, <2>3, <2>4, <2>5, FreshEngine, TypeOfChanges
<1> QED BY <1>1, <1>2, <1>3, <1>4, <1>5, TypeOfOthers DEF CallStep

\* A worker that goes on, with what it carries then.
LEMMA WorkerGoesOn ==
    ASSUME WebType, NEW w \in DOMAIN workers,
           NEW pc \in {"idle", "read", "flush", "add"}, NEW held \in SUBSET Telling,
           pc = "idle" => held = {}, Becomes(w, pc, held)
    PROVE  /\ GoodWorkers(workers', Len(engines))
           /\ Carried' \subseteq Carried \cup held
<1> DEFINE new == [workers[w] EXCEPT !.pc = pc, !.held = held]
<1>1. GoodWorkers(workers, Len(engines))
      BY DEF WebType
<1>2. workers \in Seq(Worker) /\ workers[w] \in Worker /\ workers[w].engine \in 1 .. Len(engines)
      BY <1>1 DEF GoodWorkers, GoodWorker
<1>3. /\ new \in Worker /\ new.engine = workers[w].engine
      /\ new.pc = pc /\ new.held = held
      BY <1>2 DEF Worker
<1>4. workers' = [workers EXCEPT ![w] = new]
      BY <1>2 DEF Becomes
<1> HIDE DEF new
<1>5. /\ workers' \in Seq(Worker) /\ DOMAIN workers' = DOMAIN workers
      /\ workers'[w] = new
      /\ \A v \in DOMAIN workers : v # w => workers'[v] = workers[v]
      BY <1>2, <1>3, <1>4
<1>6. GoodWorkers(workers', Len(engines))
      BY <1>1, <1>2, <1>3, <1>5 DEF GoodWorkers, GoodWorker
<1>7. \A t \in Carried' : t \in Carried \cup held
      BY <1>3, <1>5 DEF Carried
<1> QED BY <1>6, <1>7

\* What rows and workers hold was told.
LEMMA StoredIsTold == ASSUME WebType PROVE Stored \subseteq Telling /\ Carried \subseteq Telling
<1>1. \A r \in rows : r.told \in Telling
      BY DEF WebType, GoodDatabase, Row
<1>2. Stored \subseteq Telling
      BY <1>1 DEF WebType, GoodDatabase, Stored
<1>3. \A w \in DOMAIN workers : workers[w].held \subseteq Telling
      BY DEF WebType, GoodWorkers, GoodWorker, Worker
<1> QED BY <1>2, <1>3 DEF Carried

\* What a step of a worker does: it takes from what is stored and carries it, stores what
\* it carried, or gives it to its engine.
LEMMA Working ==
    ASSUME WebType, NEW w \in DOMAIN workers, WorkerStep(w)
    PROVE  /\ GoodWorkers(workers', Len(engines)) /\ GoodDatabase'
           /\ Stored' \subseteq Stored \cup Carried /\ Carried' \subseteq Carried \cup Stored
           /\ \/ engines' = engines
              \/ /\ workers[w].engine \in 1 .. Len(engines)
                 /\ \E t \in Carried :
                        engines' = [engines EXCEPT ![workers[w].engine].memory = @ \cup {t}]
           /\ AtWork \/ UNCHANGED workers \/ disturbed' = (disturbed \/ Deleting)
<1>0. /\ GoodWorkers(workers, Len(engines)) /\ GoodDatabase /\ Stored \subseteq Telling
      /\ workers[w].held \subseteq Telling /\ workers[w].engine \in 1 .. Len(engines)
      /\ workers[w].held \subseteq Carried
      BY StoredIsTold DEF WebType, GoodWorkers, GoodWorker, Worker, Carried
<1>1. CASE BeginCheckpoint(w)
  <2>1. PICK read \in SUBSET RowsOf(workers[w].engine) :
            IF read = {} THEN summaries' = {} /\ UNCHANGED <<workers, disturbed, checkpoints>>
            ELSE Becomes(w, "read", read) /\ Disturb(Deleting) /\ UNCHANGED summaries
        BY <1>1 DEF BeginCheckpoint
  <2>2. read \subseteq Stored /\ read \subseteq Telling
        BY <1>0 DEF RowsOf, Stored
  <2>3. UNCHANGED <<engines, tables, rows>> /\ (summaries' = {} \/ summaries' = summaries)
        BY <1>1, <2>1 DEF BeginCheckpoint
  <2>4. GoodDatabase' /\ Stored' \subseteq Stored
        BY <1>0, <2>3 DEF GoodDatabase, Stored
  <2>5. CASE read = {}
    <3>1. workers' = workers
          BY <2>1, <2>5
    <3> QED BY <1>0, <2>3, <2>4, <3>1 DEF Carried
  <2>6. CASE read # {}
    <3>1. Becomes(w, "read", read) /\ disturbed' = (disturbed \/ Deleting)
          BY <2>1, <2>6 DEF Disturb
    <3>2. GoodWorkers(workers', Len(engines)) /\ Carried' \subseteq Carried \cup read
          BY <2>2, <3>1, WorkerGoesOn
    <3> QED BY <2>2, <2>3, <2>4, <3>1, <3>2
  <2> QED BY <2>5, <2>6
<1>2. ASSUME ~BeginCheckpoint(w)
      PROVE  AtWork
      BY <1>2 DEF WorkerStep, WriteSummaries, FlushToLongTerm, AddMemory, EndCheckpoint,
                  WorkerIs, AtWork
<1>3. CASE WriteSummaries(w)
  <2>1. /\ Becomes(w, "flush", {}) /\ UNCHANGED <<engines, tables, rows>>
        /\ summaries' = summaries \cup workers[w].held
        BY <1>3 DEF WriteSummaries
  <2>2. GoodDatabase' /\ Stored' \subseteq Stored \cup Carried
        BY <1>0, <2>1 DEF GoodDatabase, Stored
  <2>3. GoodWorkers(workers', Len(engines)) /\ Carried' \subseteq Carried
        BY <2>1, WorkerGoesOn
  <2> QED BY <1>2, <1>3, <2>1, <2>2, <2>3 DEF WriteSummaries, BeginCheckpoint, WorkerIs
<1>4. CASE FlushToLongTerm(w)
  <2>1. /\ Becomes(w, "add", summaries) /\ UNCHANGED <<engines, tables, rows>>
        /\ summaries' = {}
        BY <1>4 DEF FlushToLongTerm
  <2>2. GoodDatabase' /\ Stored' \subseteq Stored /\ summaries \subseteq Stored
        BY <1>0, <2>1 DEF GoodDatabase, Stored
  <2>3. GoodWorkers(workers', Len(engines)) /\ Carried' \subseteq Carried \cup summaries
        BY <1>0, <2>1, WorkerGoesOn DEF GoodDatabase
  <2> QED BY <1>2, <1>4, <2>1, <2>2, <2>3 DEF FlushToLongTerm, BeginCheckpoint, WorkerIs
<1>5. CASE AddMemory(w)
  <2>1. /\ UNCHANGED <<workers, tables, rows, summaries>>
        /\ \E t \in workers[w].held :
               engines' = [engines EXCEPT ![workers[w].engine].memory = @ \cup {t}]
        BY <1>5 DEF AddMemory, database
  <2>2. GoodDatabase' /\ Stored' = Stored /\ Carried' = Carried
        BY <1>0, <2>1 DEF GoodDatabase, Stored, Carried
  <2> QED BY <1>0, <2>1, <2>2
<1>6. CASE EndCheckpoint(w)
  <2>1. Becomes(w, "idle", {}) /\ UNCHANGED <<engines, tables, rows, summaries>>
        BY <1>6 DEF EndCheckpoint, database
  <2>2. GoodDatabase' /\ Stored' = Stored
        BY <1>0, <2>1 DEF GoodDatabase, Stored
  <2>3. GoodWorkers(workers', Len(engines)) /\ Carried' \subseteq Carried
        BY <2>1, WorkerGoesOn
  <2> QED BY <1>2, <1>6, <2>1, <2>2, <2>3 DEF EndCheckpoint, BeginCheckpoint, WorkerIs
<1> QED BY <1>1, <1>3, <1>4, <1>5, <1>6 DEF WorkerStep

LEMMA WorkerKeepsTypes ==
    ASSUME WebType, NEW w \in DOMAIN workers, WorkerStep(w)
    PROVE  WebType'
<1>1. /\ UNCHANGED <<cached, file, accounts, browser, opened, era, late, scripts, faults, restarts>>
      /\ checkpoints' \in Nat /\ disturbed' \in BOOLEAN
  <2>0. checkpoints \in Nat /\ disturbed \in BOOLEAN
        BY DEF WebType
  <2>1. CASE BeginCheckpoint(w)
    <3>1. PICK read \in SUBSET RowsOf(workers[w].engine) :
              IF read = {} THEN summaries' = {} /\ UNCHANGED <<workers, disturbed, checkpoints>>
              ELSE /\ Becomes(w, "read", read) /\ Disturb(Deleting)
                   /\ checkpoints < MaxCheckpoints /\ checkpoints' = checkpoints + 1
                   /\ UNCHANGED summaries
          BY <2>1 DEF BeginCheckpoint
    <3>2. UNCHANGED <<cached, file, accounts, browser, opened, era, late, scripts, faults,
                      restarts>>
          BY <2>1 DEF BeginCheckpoint
    <3>3. checkpoints' = checkpoints \/ checkpoints' = checkpoints + 1
          BY <3>1
    <3>4. checkpoints' \in Nat
          BY <2>0, <3>3
    <3>5. disturbed' = disturbed \/ disturbed' = (disturbed \/ Deleting)
          BY <3>1, Zenon DEF Disturb
    <3>6. disturbed' \in BOOLEAN
          BY <2>0, <3>5
    <3> QED BY <3>2, <3>4, <3>6
  <2>2. CASE ~BeginCheckpoint(w)
        BY <2>0, <2>2 DEF WorkerStep, WriteSummaries, FlushToLongTerm, AddMemory,
                          EndCheckpoint, bounds
  <2> QED BY <2>1, <2>2
<1>2. engines' \in Seq(Engine) /\ Len(engines') = Len(engines)
  <2>1. CASE engines' = engines
        BY <2>1 DEF WebType
  <2>2. ASSUME NEW e \in 1 .. Len(engines), NEW t \in Carried,
               engines' = [engines EXCEPT ![e].memory = @ \cup {t}]
        PROVE  engines' \in Seq(Engine) /\ Len(engines') = Len(engines)
    <3>1. engines \in Seq(Engine) /\ t \in Telling
          BY StoredIsTold DEF WebType
    <3> DEFINE own == engines[e]
               new == [own EXCEPT !.memory = @ \cup {t}]
    <3>2. own \in Engine
          BY <3>1
    <3>3. new \in Engine
      <4> HIDE DEF own
      <4> QED BY <3>1, <3>2 DEF Engine
    <3>4. engines' = [engines EXCEPT ![e] = new]
          BY <2>2, <3>1
    <3> HIDE DEF own, new
    <3> QED BY <3>1, <3>3, <3>4
  <2> QED BY <2>1, <2>2, Working
<1>3. GoodWorkers(workers', Len(engines)) /\ GoodDatabase'
      BY Working
<1> QED BY <1>1, <1>2, <1>3 DEF WebType

LEMMA LogOutEnds ==
    ASSUME WebType, NEW s \in Browser, SignOut(s)
    PROVE  /\ WebType'
           /\ browser'[s].todo = <<>> /\ browser'[s].copy = Absent
           /\ \A o \in Browser \ {s} : browser'[o] = browser[o]
<1>1. browser' = [browser EXCEPT ![s] = LoggedOut]
      BY DEF SignOut
<1>2. /\ browser' = [o \in Browser |-> browser'[o]]
      /\ \A o \in Browser : GoodTab(browser'[o], Len(engines))
      /\ \A o \in Browser \ {s} : browser'[o] = browser[o]
      /\ browser'[s].todo = <<>> /\ browser'[s].copy = Absent
      BY <1>1, SessionEnds
<1>3. WebType'
      BY <1>2 DEF SignOut, WebType, GoodDatabase, mind, database, bounds
<1> QED BY <1>2, <1>3

LEMMA RestartKeepsTypes == ASSUME WebType, Restart PROVE WebType'
<1>1. engines' \in Seq(Engine) /\ Len(engines') = 0 /\ cached' = 0
      BY DEF Restart
<1>2. browser' = [s \in Browser |-> LoggedOut]
      BY DEF Restart
<1>3. \A s \in Browser : GoodTab(browser'[s], Len(engines'))
      BY <1>1, <1>2, LoggedOutIsGood
<1>4. browser' = [s \in Browser |-> browser'[s]] /\ cached' \in 0 .. Len(engines')
      BY <1>1, <1>2
<1>5. /\ file' = file /\ accounts' = accounts /\ opened' = opened /\ era' = era /\ late' = late
      /\ scripts' = scripts /\ faults' = faults /\ restarts' = restarts + 1
      /\ checkpoints' = checkpoints /\ disturbed' \in BOOLEAN
      BY DEF Restart, Disturb, WebType
<1>6. GoodWorkers(workers', Len(engines'))
      BY DEF Restart, GoodWorkers
<1>7. GoodDatabase'
  <2>1. \A r \in Row : [r EXCEPT !.session = 0] \in Row
        BY DEF Row
  <2>2. rows \subseteq Row /\ rows' = {[r EXCEPT !.session = 0] : r \in rows}
        BY DEF Restart, WebType, GoodDatabase
  <2>3. rows' \subseteq Row
        BY <2>1, <2>2
  <2> QED BY <2>3 DEF Restart, WebType, GoodDatabase
<1> QED BY <1>1, <1>3, <1>4, <1>5, <1>6, <1>7 DEF WebType

LEMMA WebStepKeepsTypes ==
    ASSUME MaxOpened \in Nat, WebType, [WebNext]_webVars
    PROVE  WebType'
<1>1. CASE UNCHANGED webVars
      BY <1>1 DEF webVars, mind, database, bounds, WebType, GoodDatabase
<1>2. ASSUME NEW s \in Browser,
             \/ \E n \in Name : SignUp(s, n) \/ Login(s, n)
             \/ \E calls \in {ChatCalls, ForgetMeCalls} \cup AdminCalls :
                    Begin(s, calls)
             \/ SignOut(s) \/ CallStep(s)
      PROVE  WebType'
  <2>1. \A calls \in {ChatCalls, ForgetMeCalls} \cup AdminCalls : Script(calls)
        BY ChatIsScript, ForgetMeIsScript, AdminsAreScripts
  <2> QED BY <1>2, <2>1, RegisterStarts, LoginStarts, ScriptBegins, LogOutEnds, StepKeepsTypes
<1> QED BY <1>1, <1>2, WorkerKeepsTypes, RestartKeepsTypes DEF WebNext

\* The web server's variables keep their types, for any number of sessions, scripts,
\* faults and restarts.
THEOREM WebTypeCorrect == WebSpec => []WebTypeOK
<1>1. MaxOpened \in Nat
      BY WebMindAssumption DEF WebMindAssumption
<1>2. WebType /\ [WebNext]_webVars => WebType'
      BY <1>1, WebStepKeepsTypes
<1> QED BY <1>2, WebTypeInitially, WebTypeImplies, PTL DEF WebSpec

-----------------------------------------------------------------------------
(* What was told under a deleted account, or before everything was deleted.       *)

Awaits(s, call) == Contains(browser[s].todo, call)

Ends(s) == Awaits(s, "clear_cache")
Leaves(s) == Awaits(s, "delete_account")

\* A script that has erased what it is there to erase.
Past(s) == Ends(s) /\ ~Awaits(s, "shutdown")
Forgot(s) == Leaves(s) /\ ~Awaits(s, "delete_owner_data")

\* A deletion that has yet to remove the files; one that has yet to overwrite memories.json
\* or remove it.
Wiping(s) == Past(s) /\ Awaits(s, "remove_files")
Purging(s) == Wiping(s) /\ (Awaits(s, "replace") \/ faults >= 1)

\* What is held by an engine in use, by a copy that will be saved, or by a worker.
InUse(e) == e = cached \/ \E s \in Browser : Busy(s) /\ browser[s].engine = e
Known(engine) == engine.memory \cup engine.dreamt

Live ==
    {t \in Telling :
        \/ \E e \in 1 .. Len(engines) : InUse(e) /\ t \in Known(engines[e])
        \/ \E s \in Browser : browser[s].copy # Absent /\ t \in browser[s].copy.memory
        \/ t \in Carried}

\* No deletion is under way beside another, or beside somebody's leaving.
Alone ==
    \A s, o \in Browser : (Ends(s) /\ Ends(o) => s = o) /\ ~(Past(s) /\ Leaves(o))

\* Who erases has the engine that is cached.
Holding == \A s \in Browser : Ends(s) \/ Leaves(s) => browser[s].engine = cached

\* No worker is at work once a deletion has emptied the mind.
Resting == (\E s \in Browser : Past(s)) => ~AtWork

\* No engine, copy or worker keeps anything beyond a deletion, and the files only until it
\* is over.
Current ==
    /\ \A t \in Live : t.era = era
    /\ (\A t \in Kept : t.era = era) \/ \E s \in Browser : Purging(s)
    /\ (\A t \in Stored : t.era = era) \/ \E s \in Browser : Wiping(s)

\* What is told is kept only while its account exists, and what is erased stays so.
Owned ==
    /\ \A t \in Live \cup Kept \cup Stored : accounts[t.owner] = t.account
    /\ \A s \in Browser : Past(s) =>
           Live = {} /\ (Kept = {} \/ Purging(s)) /\ (Stored = {} \/ Wiping(s))
    /\ \A s \in Browser : Forgot(s) =>
           /\ \A t \in Live \cup Stored : t.owner # browser[s].user
           /\ Awaits(s, "replace") \/ \A t \in Kept : t.owner # browser[s].user

Trusty == ~disturbed /\ faults <= 1
Safe == Alone /\ Holding /\ Resting /\ Current /\ (~late => Owned)
WebInv == WebType /\ (Trusty => Safe)

\* Who awaits a call is busy, with an engine of this process.
LEMMA AwaitingIsBusy ==
    ASSUME WebType, NEW s \in Browser
    PROVE  /\ browser[s].todo \in Seq(Call) /\ Ordered(browser[s].todo)
           /\ \A call : Awaits(s, call) => Busy(s)
           /\ Busy(s) => browser[s].engine \in 1 .. Len(engines) /\ browser[s].user # NoName
           /\ browser[s].copy # Absent => Busy(s) /\ Head(browser[s].todo) = "replace"
<1>1. GoodTab(browser[s], Len(engines))
      BY DEF WebType
<1>2. \A call : ~Contains(<<>>, call)
      BY DEF Contains
<1> QED BY <1>1, <1>2 DEF GoodTab, Tab, Awaits, Busy

LEMMA KeptIsTold == WebType => Kept \subseteq Telling
  BY DEF WebType, Kept, Saved

\* The sessions of which a step leaves the calls, and those of which it makes one.
LEMMA CallsGoOn ==
    ASSUME WebType, NEW s \in Browser, Busy(s),
           browser'[s].todo = Tail(browser[s].todo),
           \A o \in Browser \ {s} : browser'[o] = browser[o],
           NEW call
    PROVE  /\ Awaits(s, call) <=> Head(browser[s].todo) = call \/ Awaits(s, call)'
           /\ Awaits(s, call)' => MayFollow(Head(browser[s].todo), call)
           /\ \A o \in Browser \ {s} : Awaits(o, call)' <=> Awaits(o, call)
<1>1. browser[s].todo \in Seq(Call) /\ Ordered(browser[s].todo) /\ browser[s].todo # <<>>
      BY AwaitingIsBusy DEF Busy
<1>2. /\ Contains(browser[s].todo, call) <=>
            Head(browser[s].todo) = call \/ Contains(Tail(browser[s].todo), call)
      /\ Contains(Tail(browser[s].todo), call) => MayFollow(Head(browser[s].todo), call)
      BY <1>1, NextOrLater, TailOrdered
<1> QED BY <1>2 DEF Awaits

LEMMA CallsEnd ==
    ASSUME NEW s \in Browser, browser'[s].todo = <<>>, NEW call
    PROVE  ~Awaits(s, call)'
<1>1. ~Contains(<<>>, call)
      BY DEF Contains
<1> QED BY <1>1 DEF Awaits

LEMMA DeletingEnds == WebType => (Deleting <=> \E s \in Browser : Ends(s))
<1>1. ASSUME WebType, NEW s \in Browser, Contains(browser[s].todo, "remove_files")
      PROVE  Ends(s)
      BY <1>1, AwaitingIsBusy, RemovingEnds DEF Ends, Awaits
<1> QED BY <1>1 DEF Deleting, Ends, Awaits

\* No engine comes into use, and none gets to know more than what is said here.
LEMMA LiveComesFrom ==
    ASSUME WebType, Len(engines') = Len(engines), NEW more,
           \A e \in 1 .. Len(engines) : Known(engines'[e]) \subseteq Known(engines[e]) \cup more,
           Carried' \subseteq Carried \cup more,
           cached' \in {cached, 0},
           \A s \in Browser :
               /\ Busy(s)' => Busy(s) /\ browser'[s].engine = browser[s].engine
               /\ \/ browser'[s].copy \in {Absent, browser[s].copy}
                  \/ Busy(s) /\ browser'[s].copy.memory = engines[browser[s].engine].memory
    PROVE  Live' \subseteq Live \cup more
<1> SUFFICES ASSUME NEW t \in Live', t \notin more
             PROVE  t \in Live
    OBVIOUS
<1>0. t \in Telling
      BY DEF Live, Telling, Account
<1>1. ASSUME NEW e \in 1 .. Len(engines), InUse(e)', t \in Known(engines'[e])
      PROVE  t \in Live
  <2>1. e # 0 /\ Len(engines) \in Nat
        BY <1>1 DEF WebType
  <2>2. InUse(e) /\ t \in Known(engines[e])
        BY <1>1, <2>1 DEF InUse
  <2> QED BY <1>0, <2>2 DEF Live
<1>2. ASSUME NEW s \in Browser, browser'[s].copy # Absent, t \in browser'[s].copy.memory
      PROVE  t \in Live
  <2>1. CASE browser'[s].copy = browser[s].copy
        BY <1>0, <1>2, <2>1 DEF Live
  <2>2. CASE Busy(s) /\ browser'[s].copy.memory = engines[browser[s].engine].memory
    <3>1. browser[s].engine \in 1 .. Len(engines)
          BY <2>2, AwaitingIsBusy
    <3>2. InUse(browser[s].engine)
          BY <2>2 DEF InUse
    <3> QED BY <1>0, <1>2, <2>2, <3>1, <3>2 DEF Live, Known
  <2> QED BY <1>2, <2>1, <2>2
<1>3. \/ \E e \in 1 .. Len(engines') : InUse(e)' /\ t \in Known(engines'[e])
      \/ \E s \in Browser : browser'[s].copy # Absent /\ t \in browser'[s].copy.memory
      \/ t \in Carried'
      BY DEF Live, Known
<1> QED BY <1>0, <1>1, <1>2, <1>3 DEF Live

\* A step that lets no one erase more, keeps what is being erased in view, keeps nothing
\* that was not kept before, and lets no worker begin once a deletion has emptied the mind.
LEMMA Quiet ==
    ASSUME WebType, WebType', Trusty, Trusty', Safe,
           era' = era, late => late',
           Live' \subseteq Live \cup Stored, Stored' \subseteq Live \cup Stored,
           (\E s \in Browser : Past(s)) => Live' \subseteq Live /\ (AtWork' => AtWork),
           ~late' => \A t \in Live' \cup Kept' \cup Stored' :
                         accounts'[t.owner] = accounts[t.owner],
           \A s \in Browser :
               /\ Ends(s)' => Ends(s)
               /\ Leaves(s)' => Leaves(s)
               /\ Past(s)' => Past(s)
               /\ Forgot(s)' => Forgot(s)
               /\ Ends(s)' \/ Leaves(s)' => /\ browser'[s].engine = browser[s].engine
                                            /\ browser'[s].user = browser[s].user
                                            /\ cached' = cached,
           Stored' \subseteq Live \/ \A s \in Browser : Wiping(s) => Wiping(s)',
           \/ Kept' \subseteq Live
           \/ /\ Kept' \subseteq Kept
              /\ \A s \in Browser :
                    /\ Purging(s) => Purging(s)'
                    /\ Forgot(s)' /\ Awaits(s, "replace") => Awaits(s, "replace")'
    PROVE  Safe'
<1>1. Alone'
      BY DEF Safe, Alone
<1>2. Holding'
      BY DEF Safe, Holding
<1>3. Resting'
      BY DEF Safe, Resting
<1>4. Current'
  <2>1. \A t \in Live' : t.era = era'
        BY DEF Safe, Current, Wiping
  <2>2. (\A t \in Kept' : t.era = era') \/ \E s \in Browser : Purging(s)'
    <3>1. CASE Kept' \subseteq Live
          BY <3>1 DEF Safe, Current
    <3>2. CASE Kept' \subseteq Kept /\ \A s \in Browser : Purging(s) => Purging(s)'
          BY <3>2 DEF Safe, Current
    <3> QED BY <3>1, <3>2
  <2>3. (\A t \in Stored' : t.era = era') \/ \E s \in Browser : Wiping(s)'
    <3>1. CASE Stored' \subseteq Live
          BY <3>1 DEF Safe, Current
    <3>2. CASE \A s \in Browser : Wiping(s) => Wiping(s)'
          BY <3>2 DEF Safe, Current
    <3> QED BY <3>1, <3>2
  <2> QED BY <2>1, <2>2, <2>3 DEF Current
<1>5. ASSUME ~late'
      PROVE  Owned'
  <2>0. Owned
        BY <1>5 DEF Safe
  <2>1. \A t \in Live' \cup Kept' \cup Stored' : accounts'[t.owner] = t.account
        BY <1>5, <2>0 DEF Owned
  <2>2. ASSUME NEW s \in Browser, Past(s)'
        PROVE  Live' = {} /\ (Kept' = {} \/ Purging(s)') /\ (Stored' = {} \/ Wiping(s)')
    <3>1. Past(s) /\ Live = {} /\ (Kept = {} \/ Purging(s)) /\ (Stored = {} \/ Wiping(s))
          BY <2>0, <2>2 DEF Owned
    <3>2. Live' = {} /\ Stored' \subseteq Stored
          BY <3>1
    <3>3. Kept' = {} \/ Purging(s)'
          BY <3>1
    <3>4. Stored' = {} \/ Wiping(s)'
          BY <3>1, <3>2
    <3> QED BY <3>2, <3>3, <3>4
  <2>3. ASSUME NEW s \in Browser, Forgot(s)'
        PROVE  /\ \A t \in Live' \cup Stored' : t.owner # browser'[s].user
               /\ Awaits(s, "replace")' \/ \A t \in Kept' : t.owner # browser'[s].user
    <3>1. Forgot(s) /\ browser'[s].user = browser[s].user
          BY <2>3 DEF Forgot
    <3> QED BY <2>0, <2>3, <3>1 DEF Owned
  <2> QED BY <2>1, <2>2, <2>3 DEF Owned
<1> QED BY <1>1, <1>2, <1>3, <1>4, <1>5 DEF Safe

\* Most calls of a script are of this kind.
LEMMA ScriptQuiet ==
    ASSUME WebType, WebType', Trusty, Trusty', Safe, NEW s \in Browser, Busy(s),
           NEW head, head = Head(browser[s].todo),
           head \notin {"shutdown", "delete_account", "remove_files"},
           head = "delete_owner_data" => browser'[s].todo = <<>>,
           \A o \in Browser \ {s} : browser'[o] = browser[o],
           \/ /\ browser'[s].todo = Tail(browser[s].todo)
              /\ browser'[s].user = browser[s].user /\ browser'[s].engine = browser[s].engine
           \/ browser'[s].todo = <<>> /\ ~Awaits(s, "remove_files"),
           \/ browser'[s].copy = Absent
           \/ browser'[s].copy.memory = engines[browser[s].engine].memory,
           Len(engines') = Len(engines),
           \A e \in 1 .. Len(engines) : Known(engines'[e]) \subseteq Known(engines[e]),
           Carried' \subseteq Carried, AtWork' => AtWork, Stored' \subseteq Stored,
           \/ cached' = cached
           \/ cached' = 0 /\ head = "clear_cache" /\ browser'[s].todo = Tail(browser[s].todo),
           era' = era, accounts' = accounts, late' = late, faults <= faults',
           \/ file' = file /\ head # "replace"
           \/ file' = file /\ faults' >= 1
           \/ file' = browser[s].copy,
           file' # file => head = "replace",
           head = "replace" /\ file' # browser[s].copy /\ ~Awaits(s, "remove_files") =>
               browser'[s].todo = <<>>
    PROVE  Safe'
<1>1. ASSUME NEW call
      PROVE  /\ \A o \in Browser : Awaits(o, call)' => Awaits(o, call)
             /\ \A o \in Browser \ {s} : Awaits(o, call)' <=> Awaits(o, call)
             /\ browser'[s].todo = Tail(browser[s].todo) =>
                    /\ Awaits(s, call) => head = call \/ Awaits(s, call)'
                    /\ Awaits(s, call)' => MayFollow(head, call)
             /\ browser'[s].todo = <<>> => ~Awaits(s, call)'
  <2>1. CASE browser'[s].todo = Tail(browser[s].todo)
    <3>1. /\ Awaits(s, call) <=> head = call \/ Awaits(s, call)'
          /\ Awaits(s, call)' => MayFollow(head, call)
          /\ \A o \in Browser \ {s} : Awaits(o, call)' <=> Awaits(o, call)
          BY <2>1, CallsGoOn
    <3>2. browser'[s].todo = <<>> => ~Awaits(s, call)'
          BY CallsEnd
    <3> QED BY <3>1, <3>2
  <2>2. CASE browser'[s].todo = <<>> /\ browser'[s].todo # Tail(browser[s].todo)
    <3>1. ~Awaits(s, call)'
          BY <2>2, CallsEnd
    <3>2. \A o \in Browser \ {s} : Awaits(o, call)' <=> Awaits(o, call)
          BY DEF Awaits
    <3> QED BY <2>2, <3>1, <3>2
  <2> QED BY <2>1, <2>2
<1>2. Live' \subseteq Live
  <2>1. \A o \in Browser :
            /\ Busy(o)' => Busy(o) /\ browser'[o].engine = browser[o].engine
            /\ \/ browser'[o].copy \in {Absent, browser[o].copy}
               \/ Busy(o) /\ browser'[o].copy.memory = engines[browser[o].engine].memory
        BY DEF Busy
  <2>2. Live' \subseteq Live \cup {}
    <3> DEFINE more == {}
    <3>1. /\ \A e \in 1 .. Len(engines) : Known(engines'[e]) \subseteq Known(engines[e]) \cup more
          /\ Carried' \subseteq Carried \cup more
          OBVIOUS
    <3> HIDE DEF more
    <3>2. Live' \subseteq Live \cup more
          BY <2>1, <3>1, LiveComesFrom
    <3> QED BY <3>2 DEF more
  <2> QED BY <2>2
<1>3. \A o \in Browser :
          /\ Ends(o)' => Ends(o)
          /\ Leaves(o)' => Leaves(o)
          /\ Past(o)' => Past(o)
          /\ Forgot(o)' => Forgot(o)
      BY <1>1 DEF Ends, Leaves, Past, Forgot
<1>4. \A o \in Browser : Ends(o)' \/ Leaves(o)' =>
          browser'[o].engine = browser[o].engine /\ browser'[o].user = browser[o].user
      BY <1>1 DEF Ends, Leaves
<1>5. ASSUME NEW o \in Browser, Ends(o)' \/ Leaves(o)', cached' # cached
      PROVE  FALSE
  <2>1. head = "clear_cache" /\ browser'[s].todo = Tail(browser[s].todo)
        BY <1>5
  <2>2. Ends(s) /\ ~Awaits(s, "shutdown") /\ ~Awaits(s, "clear_cache")'
             /\ ~Awaits(s, "delete_account")'
        BY <2>1, CallsGoOn DEF Ends, MayFollow
  <2>3. Past(s) /\ o # s
        BY <1>5, <2>2 DEF Past, Ends, Leaves
  <2> QED BY <1>3, <1>5, <2>2, <2>3 DEF Safe, Alone
<1>6. ASSUME NEW o \in Browser, Wiping(o)
      PROVE  Wiping(o)'
  <2>1. CASE o # s
        BY <1>1, <1>6, <2>1 DEF Wiping, Past, Ends
  <2>2. CASE o = s
    <3>1. browser'[s].todo = Tail(browser[s].todo)
          BY <1>6, <2>2 DEF Wiping
    <3>2. head # "clear_cache"
          BY <1>1, <1>6, <2>2, <3>1 DEF Wiping, MayFollow
    <3> QED BY <1>1, <1>6, <2>2, <3>1, <3>2 DEF Wiping, Past, Ends
  <2> QED BY <2>1, <2>2
<1>7. CASE file' = file /\ file' # browser[s].copy /\ (head # "replace" \/ faults' >= 1)
  <2>1. Kept' = Kept
        BY <1>7 DEF Kept
  <2>2. ASSUME NEW o \in Browser, Purging(o)
        PROVE  Purging(o)'
    <3>0. faults \in Nat /\ faults' \in Nat /\ (faults >= 1 => faults' >= 1)
      <4>1. faults \in Nat /\ faults' \in Nat
            BY DEF WebType
      <4> QED BY <4>1
    <3>1. Wiping(o)'
          BY <1>6, <2>2 DEF Purging
    <3>2. Awaits(o, "replace")' \/ faults' >= 1
      <4>1. CASE o # s
            BY <1>1, <2>2, <3>0, <4>1 DEF Purging
      <4>2. CASE o = s
        <5>1. browser'[s].todo = Tail(browser[s].todo)
              BY <2>2, <4>2 DEF Purging, Wiping
        <5> QED BY <1>1, <1>7, <2>2, <3>0, <4>2, <5>1 DEF Purging
      <4> QED BY <4>1, <4>2
    <3> QED BY <3>1, <3>2 DEF Purging
  <2>3. ASSUME NEW o \in Browser, Forgot(o)', Awaits(o, "replace")
        PROVE  Awaits(o, "replace")'
    <3>1. CASE o # s
          BY <1>1, <2>3, <3>1
    <3>2. CASE o = s /\ head # "replace"
      <4>1. browser'[s].todo = Tail(browser[s].todo)
            BY <1>1, <2>3, <3>2 DEF Forgot, Leaves
      <4> QED BY <1>1, <2>3, <3>2, <4>1
    <3>3. CASE o = s /\ head = "replace"
      <4>1. browser'[s].todo = Tail(browser[s].todo) /\ browser'[s].todo # <<>>
            BY <1>1, <2>3, <3>3 DEF Forgot, Leaves
      <4>2. CASE Awaits(s, "remove_files")
        <5>1. Ends(s)
              BY <4>2, AwaitingIsBusy, RemovingEnds DEF Ends, Awaits
        <5>2. ~Awaits(s, "shutdown")
              BY <1>1, <4>1 DEF MayFollow
        <5>3. Past(s) /\ Leaves(s)
              BY <1>3, <2>3, <3>3, <5>1, <5>2 DEF Past, Forgot
        <5> QED BY <5>3 DEF Safe, Alone
      <4> QED BY <1>7, <3>3, <4>1, <4>2
    <3> QED BY <3>1, <3>2, <3>3
  <2> QED BY <1>2, <1>3, <1>4, <1>5, <1>6, <2>1, <2>2, <2>3, Quiet
<1>8. CASE file' = browser[s].copy
  <2>1. Kept' \subseteq Live
    <3>1. ASSUME NEW t \in Kept'
          PROVE  t \in Live
      <4>1. browser[s].copy # Absent /\ t \in browser[s].copy.memory
            BY <1>8, <3>1 DEF Kept
      <4>2. t \in Telling
        <5>1. GoodTab(browser[s], Len(engines))
              BY DEF WebType
        <5>2. browser[s].copy \in Saved
              BY <4>1, <5>1 DEF GoodTab, Tab
        <5> QED BY <4>1, <5>2 DEF Saved
      <4> QED BY <4>1, <4>2 DEF Live
    <3> QED BY <3>1
  <2> QED BY <1>2, <1>3, <1>4, <1>5, <1>6, <2>1, Quiet
<1> QED BY <1>7, <1>8

\* What goes on in a step of a script that goes on.
LEMMA GoingOn ==
    ASSUME WebType, NEW s \in Browser, NEW head, Makes(s, head), head # "replace",
           Proceeds(s)
    PROVE  /\ Busy(s) /\ head = Head(browser[s].todo)
           /\ \A o \in Browser \ {s} : browser'[o] = browser[o]
           /\ browser'[s].todo = Tail(browser[s].todo)
           /\ browser'[s].user = browser[s].user /\ browser'[s].engine = browser[s].engine
           /\ browser[s].copy = Absent /\ browser'[s].copy = Absent
<1>1. Busy(s) /\ head = Head(browser[s].todo)
      BY DEF Makes
<1>2. GoesOn(s, Absent)
      BY <1>1, Proceeding
<1>3. browser[s].copy = Absent
      BY <1>1, AwaitingIsBusy
<1> QED BY <1>1, <1>2, <1>3, ScriptGoesOn

\* What is in a step of a script that is cut short.
LEMMA CutShort ==
    ASSUME WebType, NEW s \in Browser, NEW head, Makes(s, head), head # "replace", Stops(s)
    PROVE  /\ Busy(s) /\ head = Head(browser[s].todo)
           /\ \A o \in Browser \ {s} : browser'[o] = browser[o]
           /\ browser'[s].todo = <<>> /\ browser'[s].copy = Absent
<1>1. Busy(s) /\ head = Head(browser[s].todo)
      BY DEF Makes
<1>2. GivesUp(s)
      BY <1>1, Stopping
<1> QED BY <1>1, <1>2, ScriptGivesUp

\* A script does not make a call after one that it may not follow.
LEMMA NotAwaited ==
    ASSUME WebType, NEW s \in Browser, NEW head, Makes(s, head),
           NEW call, call # head, ~MayFollow(head, call)
    PROVE  ~Awaits(s, call)
<1>1. Busy(s) /\ head = Head(browser[s].todo)
      BY DEF Makes
<1>2. browser[s].todo \in Seq(Call) /\ Ordered(browser[s].todo) /\ browser[s].todo # <<>>
      BY <1>1, AwaitingIsBusy DEF Busy
<1> QED BY <1>1, <1>2, NextOrLater, TailOrdered DEF Awaits

\* Workers and database as they were.
LEMMA NothingMoves ==
    ASSUME UNCHANGED <<workers, database>>
    PROVE  Carried' = Carried /\ (AtWork' <=> AtWork) /\ Stored' = Stored
  BY DEF Carried, AtWork, Stored, database

\* The steps that leave the engines as they are or take from what they hold.
LEMMA QuietSteps ==
    ASSUME WebType, WebType', Trusty, Trusty', Safe, NEW s \in Browser,
           \/ Answer(s) \/ GiveUp(s) \/ Snapshot(s) \/ Replace(s)
           \/ SaveFails(s) \/ LogsOut(s) \/ ClearCache(s)
           \/ SetFrozen(s) \/ SoftReset(s)
    PROVE  Safe'
<1>0. /\ GoodTab(browser[s], Len(engines)) /\ browser = [o \in Browser |-> browser[o]]
      /\ faults \in Nat /\ faults' \in Nat
      /\ \A e \in 1 .. Len(engines) :
             engines' = engines => Known(engines'[e]) \subseteq Known(engines[e])
      BY DEF WebType
<1>1. CASE Answer(s)
  <2>1. Makes(s, "answer") /\ Proceeds(s)
        BY <1>1 DEF Answer
  <2>2. /\ engines' = engines /\ cached' = cached /\ file' = file
        /\ accounts' = accounts /\ era' = era /\ late' = late /\ faults <= faults'
        BY <1>0, <1>1 DEF Answer, mind, bounds
  <2>3. Carried' = Carried /\ (AtWork' <=> AtWork) /\ Stored' = Stored
        BY <1>1, NothingMoves DEF Answer, mind
  <2> QED BY <1>0, <2>1, <2>2, <2>3, GoingOn, ScriptQuiet
<1>2. CASE GiveUp(s)
  <2>1. Makes(s, "answer") /\ Stops(s)
        BY <1>2 DEF GiveUp
  <2>2. /\ engines' = engines /\ cached' = cached /\ file' = file
        /\ accounts' = accounts /\ era' = era /\ late' = late /\ faults <= faults'
        BY <1>0, <1>2 DEF GiveUp, mind, bounds
  <2>3. Carried' = Carried /\ (AtWork' <=> AtWork) /\ Stored' = Stored
        BY <1>2, NothingMoves DEF GiveUp, mind
  <2>4. ~Awaits(s, "remove_files")
        BY <2>1, NotAwaited DEF MayFollow
  <2> QED BY <1>0, <2>1, <2>2, <2>3, <2>4, CutShort, ScriptQuiet
<1>3. CASE Snapshot(s)
  <2> DEFINE copy == [frozen |-> Mind(s).frozen, memory |-> Mind(s).memory]
  <2>1. Busy(s) /\ Head(browser[s].todo) = "snapshot" /\ GoesOn(s, copy)
        BY <1>3 DEF Snapshot, Makes, GoesOn
  <2>2. /\ engines' = engines /\ cached' = cached /\ file' = file
        /\ accounts' = accounts /\ era' = era /\ late' = late /\ faults <= faults'
        BY <1>0, <1>3 DEF Snapshot, mind, bounds
  <2>3. Mind(s) \in Engine
        BY <2>1, EngineOf
  <2>4. copy \in Saved /\ copy.memory = engines[browser[s].engine].memory
        BY <2>3 DEF Engine, Saved, Mind
  <2> HIDE DEF copy
  <2>5. /\ \A o \in Browser \ {s} : browser'[o] = browser[o]
        /\ browser'[s].todo = Tail(browser[s].todo)
        /\ browser'[s].copy.memory = engines[browser[s].engine].memory
        /\ browser'[s].user = browser[s].user /\ browser'[s].engine = browser[s].engine
        BY <2>1, <2>4, ScriptGoesOn
  <2>6. Carried' = Carried /\ (AtWork' <=> AtWork) /\ Stored' = Stored
        BY <1>3, NothingMoves DEF Snapshot, mind
  <2> QED BY <1>0, <2>1, <2>2, <2>5, <2>6, ScriptQuiet
<1>4. CASE Replace(s)
  <2>1. Busy(s) /\ Head(browser[s].todo) = "replace" /\ GoesOn(s, Absent)
        BY <1>4 DEF Replace, Makes, GoesOn
  <2>2. /\ engines' = engines /\ cached' = cached /\ file' = browser[s].copy
        /\ accounts' = accounts /\ era' = era /\ late' = late /\ faults <= faults'
        BY <1>0, <1>4 DEF Replace, mind, bounds
  <2>3. /\ \A o \in Browser \ {s} : browser'[o] = browser[o]
        /\ browser'[s].todo = Tail(browser[s].todo) /\ browser'[s].copy = Absent
        /\ browser'[s].user = browser[s].user /\ browser'[s].engine = browser[s].engine
        BY <2>1, ScriptGoesOn
  <2>4. Carried' = Carried /\ (AtWork' <=> AtWork) /\ Stored' = Stored
        BY <1>4, NothingMoves DEF Replace, mind
  <2> QED BY <1>0, <2>1, <2>2, <2>3, <2>4, ScriptQuiet
<1>5. CASE SaveFails(s)
  <2>1. Busy(s) /\ Head(browser[s].todo) = "replace"
        BY <1>5 DEF SaveFails, Makes
  <2>2. /\ engines' = engines /\ cached' = cached /\ file' = file /\ accounts' = accounts
        /\ era' = era /\ late' = late /\ faults' = faults + 1
        BY <1>5 DEF SaveFails, Fault, mind
  <2>3. faults <= faults' /\ faults' >= 1
        BY <1>0, <2>2
  <2>4. Carried' = Carried /\ (AtWork' <=> AtWork) /\ Stored' = Stored
        BY <1>5, NothingMoves DEF SaveFails, mind
  <2>5. CASE Awaits(s, "remove_files")
    <3>1. GoesOn(s, Absent)
          BY <1>5, <2>5 DEF SaveFails, GoesOn, Awaits
    <3>2. /\ \A o \in Browser \ {s} : browser'[o] = browser[o]
          /\ browser'[s].todo = Tail(browser[s].todo) /\ browser'[s].copy = Absent
          /\ browser'[s].user = browser[s].user /\ browser'[s].engine = browser[s].engine
          BY <2>1, <3>1, ScriptGoesOn
    <3> QED BY <1>0, <2>1, <2>2, <2>3, <2>5, <2>4, <3>2, ScriptQuiet
  <2>6. CASE ~Awaits(s, "remove_files")
    <3>1. GivesUp(s)
          BY <1>5, <2>6 DEF SaveFails, GivesUp, Awaits
    <3>2. /\ \A o \in Browser \ {s} : browser'[o] = browser[o]
          /\ browser'[s].todo = <<>> /\ browser'[s].copy = Absent
          BY <3>1, ScriptGivesUp
    <3> QED BY <1>0, <2>1, <2>2, <2>3, <2>6, <2>4, <3>2, ScriptQuiet
  <2> QED BY <2>5, <2>6
<1>6. CASE LogsOut(s)
  <2>1. /\ Makes(s, "log_out") /\ Busy(s) /\ Head(browser[s].todo) = "log_out"
        /\ browser' = [browser EXCEPT ![s] = LoggedOut]
        BY <1>6 DEF LogsOut, Makes
  <2>2. /\ engines' = engines /\ cached' = cached /\ file' = file
        /\ accounts' = accounts /\ era' = era /\ late' = late /\ faults <= faults'
        BY <1>0, <1>6 DEF LogsOut, mind, bounds
  <2>3. /\ \A o \in Browser \ {s} : browser'[o] = browser[o]
        /\ browser'[s].todo = <<>> /\ browser'[s].copy = Absent
        BY <2>1, SessionEnds
  <2>4. Carried' = Carried /\ (AtWork' <=> AtWork) /\ Stored' = Stored
        BY <1>6, NothingMoves DEF LogsOut, mind
  <2>5. ~Awaits(s, "remove_files")
        BY <2>1, NotAwaited DEF MayFollow
  <2> QED BY <1>0, <2>1, <2>2, <2>3, <2>4, <2>5, ScriptQuiet
<1>7. CASE ClearCache(s)
  <2>1. Makes(s, "clear_cache") /\ Proceeds(s)
        BY <1>7 DEF ClearCache
  <2>2. /\ engines' = engines /\ cached' = 0 /\ file' = file
        /\ accounts' = accounts /\ era' = era /\ late' = late /\ faults <= faults'
        BY <1>0, <1>7 DEF ClearCache, bounds
  <2>3. Carried' = Carried /\ (AtWork' <=> AtWork) /\ Stored' = Stored
        BY <1>7, NothingMoves DEF ClearCache
  <2> QED BY <1>0, <2>1, <2>2, <2>3, GoingOn, ScriptQuiet
<1>8. CASE SetFrozen(s)
  <2>1. PICK head \in {"freeze", "unfreeze"} : Makes(s, head) /\ Proceeds(s)
        BY <1>8 DEF SetFrozen
  <2>2. PICK frozen \in BOOLEAN : Changes(s, [Mind(s) EXCEPT !.frozen = frozen])
        BY <1>8 DEF SetFrozen, Makes
  <2> DEFINE engine == [Mind(s) EXCEPT !.frozen = frozen]
  <2>3. engine \in Engine /\ Known(engine) = Known(Mind(s))
        BY <2>1, EngineOf, FrozenEngine DEF Makes, Known
  <2> HIDE DEF engine
  <2>4. /\ Len(engines') = Len(engines)
        /\ \A e \in 1 .. Len(engines) : Known(engines'[e]) \subseteq Known(engines[e])
        BY <2>1, <2>2, <2>3, EngineChanges DEF Mind, Makes, engine
  <2>5. /\ cached' = cached /\ file' = file
        /\ accounts' = accounts /\ era' = era /\ late' = late /\ faults <= faults'
        BY <1>0, <1>8 DEF SetFrozen, bounds
  <2>6. Carried' = Carried /\ (AtWork' <=> AtWork) /\ Stored' = Stored
        BY <1>8, NothingMoves DEF SetFrozen
  <2> QED BY <2>1, <2>4, <2>5, <2>6, GoingOn, ScriptQuiet
<1>9. CASE SoftReset(s)
  <2>1. /\ Makes(s, "soft_reset") /\ Busy(s)
        /\ cached' = cached /\ file' = file
        /\ accounts' = accounts /\ era' = era /\ late' = late /\ faults <= faults'
        BY <1>0, <1>9 DEF SoftReset, bounds, Makes
  <2>2. CASE tables
    <3>1. Proceeds(s) /\ Changes(s, Fresh) /\ workers' = Append(workers, Idle(browser[s].engine))
          BY <1>9, <2>2 DEF SoftReset
    <3>2. Stored' \subseteq Stored
          BY <1>9, <2>2 DEF SoftReset, Stored
    <3>3. Carried' = Carried /\ (AtWork' <=> AtWork)
      <4>1. GoodWorkers(workers, Len(engines)) /\ Len(engines) \in Nat
            BY DEF WebType
      <4> QED BY <2>1, <3>1, <4>1, EngineOf, WorkerStarts
    <3>4. /\ Len(engines') = Len(engines)
          /\ \A e \in 1 .. Len(engines) : Known(engines'[e]) \subseteq Known(engines[e])
          BY <2>1, <3>1, FreshEngine, EngineChanges DEF Known
    <3>5. /\ "soft_reset" = Head(browser[s].todo)
          /\ \A o \in Browser \ {s} : browser'[o] = browser[o]
          /\ browser'[s].todo = Tail(browser[s].todo)
          /\ browser'[s].user = browser[s].user /\ browser'[s].engine = browser[s].engine
          /\ browser'[s].copy = Absent
          BY <2>1, <3>1, GoingOn
    <3> QED BY <2>1, <3>2, <3>3, <3>4, <3>5, ScriptQuiet
  <2>3. CASE ~tables
    <3>1. Stops(s) /\ engines' = engines /\ UNCHANGED <<workers, database>>
          BY <1>9, <2>3 DEF SoftReset, database
    <3>2. Carried' = Carried /\ (AtWork' <=> AtWork) /\ Stored' = Stored
          BY <3>1, NothingMoves
    <3>3. ~Awaits(s, "remove_files")
          BY <2>1, NotAwaited DEF MayFollow
    <3> QED BY <1>0, <2>1, <3>1, <3>2, <3>3, CutShort, ScriptQuiet
  <2> QED BY <2>2, <2>3
<1> QED BY <1>1, <1>2, <1>3, <1>4, <1>5, <1>6, <1>7, <1>8, <1>9

\* A recording is of now, under the account that is logged in; once that is going it
\* is late.
LEMMA RecordSafe ==
    ASSUME WebType, WebType', Trusty, Trusty', Safe, NEW s \in Browser, Record(s)
    PROVE  Safe'
<1> DEFINE told == Told(s)
<1>1. PICK head \in {"record", "record_reply"} : Makes(s, head) /\ (Proceeds(s) \/ Stops(s))
      BY DEF Record
<1>2. /\ Busy(s) /\ head = Head(browser[s].todo)
      /\ \A o \in Browser \ {s} : browser'[o] = browser[o]
      /\ browser'[s].copy = Absent
      /\ \/ /\ browser'[s].todo = Tail(browser[s].todo)
            /\ browser'[s].user = browser[s].user /\ browser'[s].engine = browser[s].engine
         \/ browser'[s].todo = <<>>
      BY <1>1, GoingOn, CutShort
<1>3. /\ UNCHANGED <<cached, workers, file, accounts, era, faults>>
      /\ late' = (late \/ Outlives(s))
      BY DEF Record, bounds
<1>4. /\ Len(engines') = Len(engines)
      /\ \A e \in 1 .. Len(engines) : Known(engines'[e]) \subseteq Known(engines[e])
  <2>1. CASE engines' = engines
        BY <2>1 DEF WebType
  <2>2. ASSUME NEW engine \in Engine, Changes(s, engine),
               engine.memory \cup engine.dreamt \subseteq Mind(s).memory \cup Mind(s).dreamt
        PROVE  /\ Len(engines') = Len(engines)
               /\ \A e \in 1 .. Len(engines) : Known(engines'[e]) \subseteq Known(engines[e])
        BY <1>2, <2>2, EngineChanges DEF Mind, Known
  <2> QED BY <2>1, <2>2, Recording
<1>5. Live' \subseteq Live \cup {}
  <2>1. Carried' \subseteq Carried \cup {}
        BY <1>3 DEF Carried
  <2>2. \A o \in Browser :
            /\ Busy(o)' => Busy(o) /\ browser'[o].engine = browser[o].engine
            /\ browser'[o].copy \in {Absent, browser[o].copy}
        BY <1>2 DEF Busy
  <2> QED BY <1>3, <1>4, <2>1, <2>2, LiveComesFrom
<1>6. Stored' \subseteq Stored \cup {told}
      BY Recording
<1>7. ~Ends(s) /\ ~Leaves(s) /\ ~Ends(s)' /\ ~Leaves(s)'
  <2>1. ~Awaits(s, "clear_cache") /\ ~Awaits(s, "delete_account")
        BY <1>1, NotAwaited DEF MayFollow
  <2>2. ASSUME NEW call
        PROVE  Awaits(s, call)' => Awaits(s, call)
    <3>1. CASE browser'[s].todo = Tail(browser[s].todo)
          BY <1>2, <3>1, CallsGoOn
    <3>2. CASE browser'[s].todo = <<>>
          BY <3>2, CallsEnd
    <3> QED BY <1>2, <3>1, <3>2
  <2> QED BY <2>1, <2>2 DEF Ends, Leaves
<1>8. \A o \in Browser :
          /\ Ends(o)' <=> Ends(o)
          /\ Leaves(o)' <=> Leaves(o)
          /\ Past(o)' <=> Past(o)
          /\ Forgot(o)' <=> Forgot(o)
          /\ Wiping(o)' <=> Wiping(o)
          /\ Purging(o)' <=> Purging(o)
          /\ Ends(o) \/ Leaves(o) =>
                 /\ Awaits(o, "replace")' <=> Awaits(o, "replace")
                 /\ browser'[o].user = browser[o].user /\ browser'[o].engine = browser[o].engine
  <2>1. \A o \in Browser \ {s} : \A call : Awaits(o, call)' <=> Awaits(o, call)
        BY <1>2 DEF Awaits
  <2> QED BY <1>2, <1>3, <1>7, <2>1 DEF Ends, Leaves, Past, Forgot, Wiping, Purging
<1>9. Kept' = Kept
      BY <1>3 DEF Kept
<1>10. Alone' /\ Holding' /\ Resting'
      BY <1>3, <1>8 DEF Safe, Alone, Holding, Resting, AtWork
<1>11. Current'
  <2>1. told.era = era
        BY DEF Told
  <2> QED BY <1>3, <1>5, <1>6, <1>8, <1>9, <2>1 DEF Safe, Current
<1>12. ASSUME ~late'
       PROVE  Owned'
  <2>0. Owned /\ ~Outlives(s) /\ ~late
        BY <1>3, <1>12 DEF Safe
  <2>1. /\ accounts[browser[s].user] = browser[s].account
        /\ \A o \in Browser : ~Ends(o)
        /\ \A o \in Browser \ {s} : Leaves(o) => browser[o].user # browser[s].user
        BY <2>0, DeletingEnds DEF Outlives, Leaves, Awaits, Others
  <2>2. told.owner = browser[s].user /\ told.account = browser[s].account
        BY DEF Told
  <2>3. \A t \in Live' \cup Kept' \cup Stored' : accounts'[t.owner] = t.account
        BY <1>3, <1>5, <1>6, <1>9, <2>0, <2>1, <2>2 DEF Owned
  <2>4. \A o \in Browser : ~Past(o)'
        BY <1>8, <2>1 DEF Past
  <2>5. ASSUME NEW o \in Browser, Forgot(o)'
        PROVE  /\ \A t \in Live' \cup Stored' : t.owner # browser'[o].user
               /\ Awaits(o, "replace")' \/ \A t \in Kept' : t.owner # browser'[o].user
    <3>1. Forgot(o) /\ Leaves(o) /\ o # s
          BY <1>7, <1>8, <2>5 DEF Forgot
    <3>2. told.owner # browser[o].user
          BY <2>1, <2>2, <3>1
    <3> QED BY <1>5, <1>6, <1>8, <1>9, <2>0, <3>1, <3>2 DEF Owned
  <2> QED BY <2>3, <2>4, <2>5 DEF Owned
<1> QED BY <1>10, <1>11, <1>12 DEF Safe

\* An undisturbed erasure reaches everything but the file.
LEMMA DeleteOwnerDataSafe ==
    ASSUME WebType, WebType', Trusty, Trusty', Safe, NEW s \in Browser, DeleteOwnerData(s)
    PROVE  Safe'
<1>0. /\ Makes(s, "delete_owner_data") /\ Busy(s) /\ (Proceeds(s) \/ Stops(s))
      /\ "delete_owner_data" = Head(browser[s].todo)
      BY DEF DeleteOwnerData, Makes
<1>1. /\ UNCHANGED <<cached, workers, file, accounts, era, late, faults>>
      /\ Changes(s, Erased(s))
      /\ disturbed' = (disturbed \/ (OthersRun(s) \/ OnTheWay(s)))
      /\ faults <= faults'
      BY DEF DeleteOwnerData, Erased, bounds, Disturb, WebType
<1>2. /\ Len(engines') = Len(engines)
      /\ \A e \in 1 .. Len(engines) : Known(engines'[e]) \subseteq Known(engines[e])
      BY <1>0, <1>1, ErasedEngine, EngineChanges DEF Known, Mind
<1>3. Carried' = Carried /\ (AtWork' <=> AtWork)
      BY <1>1 DEF Carried, AtWork
<1>4. Stored' \subseteq Stored /\ \A t \in Stored' : t.owner # browser[s].user
      BY DEF DeleteOwnerData, Stored
<1>5. Kept' = Kept
      BY <1>1 DEF Kept
<1>6. CASE Stops(s)
  <2>1. ~Awaits(s, "remove_files")
        BY <1>0, NotAwaited DEF MayFollow
  <2> QED BY <1>0, <1>1, <1>2, <1>3, <1>4, <1>6, <2>1, CutShort, ScriptQuiet
<1>7. CASE Proceeds(s)
  <2>1. /\ \A o \in Browser \ {s} : browser'[o] = browser[o]
        /\ browser'[s].todo = Tail(browser[s].todo)
        /\ browser'[s].user = browser[s].user /\ browser'[s].engine = browser[s].engine
        /\ browser'[s].copy = Absent
        BY <1>0, <1>7, GoingOn
  <2>2. (\A o \in Browser \ {s} : ~Busy(o)) /\ ~OnTheWay(s)
        BY <1>1 DEF Trusty, Others, OthersRun
  <2>3. ASSUME NEW call
        PROVE  /\ \A o \in Browser : ~(o = s) => ~Awaits(o, call) /\ ~Awaits(o, call)'
               /\ Awaits(s, call) <=> "delete_owner_data" = call \/ Awaits(s, call)'
        BY <1>0, <2>1, <2>2, CallsGoOn, AwaitingIsBusy
  <2>4. /\ Leaves(s) /\ Leaves(s)' /\ Awaits(s, "replace")'
        /\ ~Ends(s) /\ browser[s].engine = cached
    <3>1. browser[s].todo \in Seq(Call) /\ Ordered(browser[s].todo) /\ browser[s].todo # <<>>
          BY <1>0, AwaitingIsBusy DEF Busy
    <3>2. Leaves(s)' /\ Awaits(s, "replace")'
          BY <1>0, <2>1, <3>1, TailOrdered DEF Leaves, Awaits
    <3>3. Leaves(s) /\ ~Ends(s)
          BY <1>0, <2>3, <3>2, NotAwaited DEF Leaves, Ends, MayFollow
    <3> QED BY <3>2, <3>3 DEF Safe, Holding
  <2>5. /\ cached \in 1 .. Len(engines)
        /\ engines'[cached].memory = {t \in engines[cached].memory : t.owner # browser[s].user}
        /\ engines'[cached].dreamt = engines[cached].dreamt
        BY <1>0, <1>1, <2>4, ErasedEngine, EngineChanges DEF Mind
  <2>6. ASSUME NEW t \in Live'
        PROVE  t \in Live /\ t.owner # browser[s].user
    <3>1. t \in Telling
          BY DEF Live, Telling, Account
    <3>2. \A o \in Browser : browser'[o].copy = Absent
          BY <2>1, <2>2, AwaitingIsBusy
    <3>3. \A e : InUse(e)' => e = cached
          BY <1>1, <2>1, <2>2, <2>4 DEF InUse, Busy
    <3>4. t \in Known(engines'[cached]) \/ t \in Carried
          BY <1>3, <3>2, <3>3 DEF Live, Known
    <3>5. t \in Carried \cup engines[cached].dreamt => t.owner # browser[s].user
          BY <2>2, <2>4 DEF OnTheWay, Mind
    <3> QED BY <2>5, <3>1, <3>4, <3>5 DEF Live, InUse, Known
  <2>7. \A o \in Browser : ~Ends(o) /\ ~Ends(o)' /\ ~Past(o) /\ ~Past(o)' /\ ~Wiping(o) /\ ~Purging(o)
        BY <2>3, <2>4 DEF Ends, Past, Wiping, Purging
  <2>8. Alone' /\ Resting'
        BY <2>7 DEF Alone, Resting
  <2>9. Holding'
        BY <1>1, <2>1, <2>3, <2>4, <2>7 DEF Holding, Leaves
  <2>10. Current'
        BY <1>1, <1>4, <1>5, <2>6, <2>7 DEF Safe, Current
  <2>11. ASSUME ~late'
         PROVE  Owned'
    <3>1. Owned
          BY <1>1, <2>11 DEF Safe
    <3>2. \A t \in Live' \cup Kept' \cup Stored' : accounts'[t.owner] = t.account
          BY <1>1, <1>4, <1>5, <2>6, <3>1 DEF Owned
    <3>3. \A o \in Browser : Forgot(o)' => o = s
          BY <2>3 DEF Forgot, Leaves
    <3> QED BY <1>4, <2>1, <2>4, <2>6, <2>7, <3>2, <3>3 DEF Owned
  <2> QED BY <2>8, <2>9, <2>10, <2>11 DEF Safe
<1> QED BY <1>0, <1>6, <1>7

\* An account goes when nothing is kept that was told under its name.
LEMMA DeleteAccountSafe ==
    ASSUME WebType, WebType', Trusty, Trusty', Safe, NEW s \in Browser, DeletesAccount(s)
    PROVE  Safe'
<1>1. Makes(s, "delete_account") /\ Proceeds(s)
      BY DEF DeletesAccount
<1>2. /\ Busy(s) /\ "delete_account" = Head(browser[s].todo)
      /\ \A o \in Browser \ {s} : browser'[o] = browser[o]
      /\ browser'[s].todo = Tail(browser[s].todo)
      /\ browser'[s].user = browser[s].user /\ browser'[s].engine = browser[s].engine
      /\ browser'[s].copy = Absent
      BY <1>1, GoingOn
<1>3. /\ UNCHANGED <<engines, cached, workers, file, database, era, late, faults>>
      /\ accounts' = [accounts EXCEPT ![browser[s].user] = 0]
      BY DEF DeletesAccount, mind, bounds
<1>4. ASSUME NEW call
      PROVE  /\ \A o \in Browser \ {s} : Awaits(o, call)' <=> Awaits(o, call)
             /\ Awaits(s, call) <=> "delete_account" = call \/ Awaits(s, call)'
             /\ Awaits(s, call)' => MayFollow("delete_account", call)
      BY <1>2, CallsGoOn
<1>5. /\ Forgot(s) /\ ~Awaits(s, "replace") /\ ~Ends(s) /\ ~Awaits(s, "remove_files")
      /\ ~Leaves(s)'
      BY <1>4 DEF Forgot, Leaves, Ends, MayFollow
<1>6. Carried' = Carried /\ (AtWork' <=> AtWork) /\ Stored' = Stored
      BY <1>3, NothingMoves
<1>7. Live' \subseteq Live \cup {}
  <2>1. \A e \in 1 .. Len(engines) : Known(engines'[e]) \subseteq Known(engines[e]) \cup {}
        BY <1>3
  <2> QED BY <1>2, <1>3, <1>6, <2>1, LiveComesFrom DEF Busy
<1>8. \A o \in Browser :
          /\ Ends(o)' => Ends(o)
          /\ Leaves(o)' => Leaves(o)
          /\ Past(o)' => Past(o)
          /\ Forgot(o)' => Forgot(o)
          /\ Wiping(o) => Wiping(o)'
          /\ Purging(o) => Purging(o)'
          /\ Forgot(o)' /\ Awaits(o, "replace") => Awaits(o, "replace")'
          /\ browser'[o].user = browser[o].user /\ browser'[o].engine = browser[o].engine
      BY <1>2, <1>3, <1>4, <1>5 DEF Ends, Leaves, Past, Forgot, Wiping, Purging
<1>9. Kept' = Kept
      BY <1>3 DEF Kept
<1>10. ASSUME ~late', NEW t \in Live' \cup Kept' \cup Stored'
       PROVE  accounts'[t.owner] = accounts[t.owner]
  <2>1. t \in Live \cup Kept \cup Stored /\ t \in Telling
        BY <1>6, <1>7, <1>9, KeptIsTold, StoredIsTold DEF Live
  <2>2. t.owner # browser[s].user
        BY <1>3, <1>5, <1>10, <2>1 DEF Safe, Owned
  <2>3. t.owner \in Name /\ accounts \in [Name -> {0} \cup Account]
        BY <2>1 DEF Telling, WebType
  <2> QED BY <1>3, <2>2, <2>3
<1> QED BY <1>3, <1>6, <1>7, <1>8, <1>9, <1>10, Quiet

\* An undisturbed shutdown leaves only the files.
LEMMA ShutdownSafe ==
    ASSUME WebType, WebType', Trusty, Trusty', Safe, NEW s \in Browser, Shutdown(s)
    PROVE  Safe'
<1>1. Makes(s, "shutdown") /\ Proceeds(s)
      BY DEF Shutdown
<1>2. /\ Busy(s) /\ "shutdown" = Head(browser[s].todo)
      /\ \A o \in Browser \ {s} : browser'[o] = browser[o]
      /\ browser'[s].todo = Tail(browser[s].todo)
      /\ browser'[s].user = browser[s].user /\ browser'[s].engine = browser[s].engine
      /\ browser'[s].copy = Absent
      BY <1>1, GoingOn
<1>3. /\ UNCHANGED <<cached, workers, file, database, accounts, late, faults>>
      /\ Changes(s, Emptied(s))
      /\ disturbed' = (disturbed \/ (OthersRun(s) \/ AtWork \/ Mind(s).dreamt # {}))
      BY DEF Shutdown, bounds, Disturb, Emptied
<1>4. (\A o \in Browser \ {s} : ~Busy(o)) /\ ~AtWork /\ Mind(s).dreamt = {}
      BY <1>3 DEF Trusty, Others, OthersRun
<1>5. ASSUME NEW call
      PROVE  /\ \A o \in Browser : ~(o = s) => ~Awaits(o, call) /\ ~Awaits(o, call)'
             /\ Awaits(s, call) <=> "shutdown" = call \/ Awaits(s, call)'
             /\ Awaits(s, call)' => MayFollow("shutdown", call)
      BY <1>2, <1>4, CallsGoOn, AwaitingIsBusy
<1>6. /\ Ends(s) /\ Past(s)' /\ Wiping(s)' /\ Purging(s)' /\ ~Leaves(s)'
  <2>1. browser[s].todo \in Seq(Call) /\ Ordered(browser[s].todo) /\ browser[s].todo # <<>>
        BY <1>2, AwaitingIsBusy DEF Busy
  <2>2. Awaits(s, "remove_files")' /\ Awaits(s, "replace")'
        BY <1>2, <2>1, TailOrdered DEF Awaits
  <2>3. Ends(s)'
    <3>1. Tail(browser[s].todo) \in Seq(Call) /\ Ordered(Tail(browser[s].todo))
          BY <2>1, TailOf, TailOrdered
    <3> QED BY <1>2, <2>2, <3>1, RemovingEnds DEF Ends, Awaits
  <2>4. ~Awaits(s, "shutdown")' /\ ~Leaves(s)' /\ Ends(s)
        BY <1>5, <2>3 DEF MayFollow, Leaves, Ends
  <2> QED BY <2>2, <2>3, <2>4 DEF Past, Wiping, Purging
<1>7. browser[s].engine = cached
      BY <1>6 DEF Safe, Holding
<1>8. cached \in 1 .. Len(engines) /\ Known(engines'[cached]) = {}
      BY <1>2, <1>3, <1>4, <1>7, EmptiedEngine, EngineChanges DEF Known
<1>9. Carried' = {} /\ ~AtWork' /\ Stored' = Stored
  <2>1. Carried' = Carried /\ (AtWork' <=> AtWork) /\ Stored' = Stored
        BY <1>3, NothingMoves
  <2>2. \A w \in DOMAIN workers : workers[w].held = {}
        BY <1>4 DEF AtWork, WebType, GoodWorkers, GoodWorker
  <2>3. Carried = {}
        BY <2>2 DEF Carried
  <2> QED BY <1>4, <2>1, <2>3
<1>10. Live' = {}
  <2>1. \A o \in Browser : browser'[o].copy = Absent
        BY <1>2, <1>4, AwaitingIsBusy
  <2>2. \A e : InUse(e)' => e = cached
        BY <1>2, <1>3, <1>4, <1>7 DEF InUse, Busy
  <2> QED BY <1>8, <1>9, <2>1, <2>2 DEF Live, Known
<1>11. \A o \in Browser : (Ends(o)' => o = s) /\ ~Leaves(o)'
      BY <1>5, <1>6 DEF Ends, Leaves
<1>12. Alone' /\ Resting'
      BY <1>9, <1>11 DEF Alone, Resting
<1>13. Holding'
      BY <1>2, <1>3, <1>7, <1>11 DEF Holding
<1>14. Current'
      BY <1>6, <1>10 DEF Current
<1>15. ASSUME ~late'
       PROVE  Owned'
  <2>1. \A t \in Kept' \cup Stored' : accounts'[t.owner] = t.account
    <3>1. Kept' = Kept
          BY <1>3 DEF Kept
    <3> QED BY <1>3, <1>9, <1>15, <3>1 DEF Safe, Owned
  <2>2. \A o \in Browser : (Past(o)' => o = s) /\ ~Forgot(o)'
        BY <1>11 DEF Past, Forgot
  <2> QED BY <1>6, <1>10, <2>1, <2>2 DEF Owned
<1> QED BY <1>12, <1>13, <1>14, <1>15 DEF Safe

\* The files and the accounts go when nothing else is left, or the file was saved.
LEMMA RemoveFilesSafe ==
    ASSUME WebType, WebType', Trusty, Trusty', Safe, NEW s \in Browser, RemoveFiles(s)
    PROVE  Safe'
<1>1. Makes(s, "remove_files") /\ Proceeds(s)
      BY DEF RemoveFiles
<1>2. /\ Busy(s) /\ "remove_files" = Head(browser[s].todo)
      /\ \A o \in Browser \ {s} : browser'[o] = browser[o]
      /\ browser'[s].todo = Tail(browser[s].todo)
      /\ browser'[s].user = browser[s].user /\ browser'[s].engine = browser[s].engine
      /\ browser'[s].copy = Absent
      BY <1>1, GoingOn
<1>3. /\ UNCHANGED <<engines, cached, workers, era, late>>
      /\ file' = Absent \/ (file' = file /\ faults' = faults + 1)
      /\ Stored' = {}
  <2>1. PICK kept \in {{}} \cup {{f} : f \in {"json", "accounts", "database"}} :
            /\ IF kept = {} THEN UNCHANGED bounds ELSE Fault
            /\ file' = IF "json" \in kept THEN file ELSE Absent
            /\ IF "database" \in kept THEN UNCHANGED database
               ELSE tables' = FALSE /\ rows' = {} /\ summaries' = {}
            /\ Disturb("database" \in kept)
        BY DEF RemoveFiles
  <2>2. "database" \notin kept
        BY <2>1 DEF Disturb, Trusty
  <2>3. rows' = {} /\ summaries' = {}
        BY <2>1, <2>2
  <2>4. file' = Absent \/ (file' = file /\ faults' = faults + 1)
        BY <2>1 DEF Fault
  <2> QED BY <2>3, <2>4 DEF RemoveFiles, mind, Stored
<1>4. ASSUME NEW call
      PROVE  /\ \A o \in Browser \ {s} : Awaits(o, call)' <=> Awaits(o, call)
             /\ Awaits(s, call) <=> "remove_files" = call \/ Awaits(s, call)'
             /\ Awaits(s, call)' => MayFollow("remove_files", call)
      BY <1>2, CallsGoOn
<1>5. Past(s) /\ ~Awaits(s, "replace")
  <2>1. browser[s].todo \in Seq(Call) /\ Ordered(browser[s].todo)
        BY AwaitingIsBusy
  <2>2. Ends(s)
        BY <1>4, <2>1, RemovingEnds DEF Ends, Awaits
  <2> QED BY <1>4, <2>2 DEF Past, MayFollow
<1>6. \A o \in Browser : (Ends(o) => o = s) /\ ~Leaves(o)
      BY <1>5 DEF Safe, Alone, Past
<1>7. Live' \subseteq Live \cup {} /\ (AtWork' <=> AtWork)
  <2>1. Carried' = Carried /\ (AtWork' <=> AtWork)
        BY <1>3 DEF Carried, AtWork
  <2>2. \A e \in 1 .. Len(engines) : Known(engines'[e]) \subseteq Known(engines[e]) \cup {}
        BY <1>3
  <2> QED BY <1>2, <1>3, <2>1, <2>2, LiveComesFrom DEF Busy
<1>8. \A o \in Browser :
          /\ Ends(o)' => Ends(o)
          /\ ~Leaves(o)' /\ ~Forgot(o)'
          /\ Past(o)' => Past(o)
          /\ browser'[o].user = browser[o].user /\ browser'[o].engine = browser[o].engine
      BY <1>2, <1>4, <1>5, <1>6 DEF Ends, Leaves, Past, Forgot
<1>9. ~late' => Live' = {}
      BY <1>3, <1>5, <1>7 DEF Safe, Owned
<1>10. CASE file' = Absent
  <2>1. Kept' = {}
        BY <1>10 DEF Kept
  <2> QED BY <1>3, <1>7, <1>8, <1>9, <2>1, Quiet
<1>11. CASE file' = file /\ faults' = faults + 1
  <2>1. ~(faults >= 1)
    <3>1. faults \in Nat
          BY DEF WebType
    <3> QED BY <1>11, <3>1 DEF Trusty
  <2>2. \A o \in Browser : ~Purging(o)
        BY <1>5, <1>6, <2>1 DEF Purging, Wiping, Past
  <2>3. Kept' = Kept
        BY <1>11 DEF Kept
  <2>4. ~late' => Kept' = {}
        BY <1>3, <1>5, <2>2, <2>3 DEF Safe, Owned
  <2> QED BY <1>3, <1>7, <1>8, <1>9, <2>2, <2>3, <2>4, Quiet
<1> QED BY <1>3, <1>10, <1>11

\* A session between two scripts gets the mind, for a login or a script of its own.
LEMMA NewMindSafe ==
    ASSUME WebType, WebType', Trusty, Trusty', Safe, NEW s \in Browser, ~Busy(s),
           NEW e \in 1 .. Len(engines) + 1, GetMind(e),
           \A o \in Browser \ {s} : browser'[o] = browser[o],
           browser'[s].copy = Absent,
           Busy(s)' => browser'[s].engine = cached',
           Ends(s)' \/ Leaves(s)' => \A o \in Browser : ~Ends(o),
           ~Past(s)', ~Forgot(s)',
           UNCHANGED <<file, era, late, faults>>,
           ~late => \A t \in Live \cup Kept \cup Stored :
                        accounts'[t.owner] = accounts[t.owner]
    PROVE  Safe'
<1>1. /\ Len(engines) <= Len(engines') /\ e \in 1 .. Len(engines') /\ cached' = e
      /\ \A k \in 1 .. Len(engines) : engines'[k] = engines[k]
      /\ cached # 0 => UNCHANGED <<engines, cached>>
      /\ cached = 0 => Len(engines') = Len(engines) + 1 /\ Known(engines'[e]) \subseteq Kept
      /\ Carried' = Carried /\ (AtWork' <=> AtWork) /\ Stored' = Stored
      BY MindIsGot DEF Known
<1>2. \A call, o \in Browser : o # s => (Awaits(o, call)' <=> Awaits(o, call))
      BY DEF Awaits
<1>3. \A o \in Browser : o # s => /\ Ends(o)' <=> Ends(o)
                                  /\ Leaves(o)' <=> Leaves(o)
                                  /\ Past(o)' <=> Past(o)
                                  /\ Forgot(o)' <=> Forgot(o)
                                  /\ Wiping(o)' <=> Wiping(o)
                                  /\ Purging(o)' <=> Purging(o)
                                  /\ Awaits(o, "replace")' <=> Awaits(o, "replace")
                                  /\ browser'[o] = browser[o]
  <2>1. ASSUME NEW o \in Browser, o # s
        PROVE  /\ \A call : Awaits(o, call)' <=> Awaits(o, call)
               /\ browser'[o] = browser[o] /\ faults' = faults
        BY <2>1 DEF Awaits
  <2> QED BY <2>1 DEF Ends, Leaves, Past, Forgot, Wiping, Purging
<1>4. /\ ~Ends(s) /\ ~Leaves(s) /\ ~Past(s)
      /\ ~Wiping(s) /\ ~Wiping(s)' /\ ~Purging(s) /\ ~Purging(s)'
      BY AwaitingIsBusy DEF Ends, Leaves, Past, Wiping, Purging
<1>5. \A o \in Browser : Ends(o) \/ Leaves(o) => cached # 0
  <2>1. ASSUME NEW o \in Browser, Ends(o) \/ Leaves(o)
        PROVE  cached # 0
    <3>1. browser[o].engine \in 1 .. Len(engines)
          BY <2>1, AwaitingIsBusy DEF Ends, Leaves
    <3>2. browser[o].engine = cached /\ Len(engines) \in Nat
          BY <2>1 DEF Safe, Holding, WebType
    <3> QED BY <3>1, <3>2
  <2> QED BY <2>1
<1>6. \A t \in Live' : t \in Live \/ (cached = 0 /\ t \in Kept)
  <2> SUFFICES ASSUME NEW t \in Live', ~(cached = 0 /\ t \in Kept)
               PROVE  t \in Live
      OBVIOUS
  <2>0. t \in Telling /\ Len(engines) \in Nat
        BY DEF Live, Telling, Account, WebType
  <2>1. ASSUME NEW k \in 1 .. Len(engines'), InUse(k)', t \in Known(engines'[k])
        PROVE  t \in Live
    <3>1. CASE k = e
      <4>1. cached # 0
            BY <1>1, <2>1, <3>1
      <4>2. e = cached /\ engines' = engines
            BY <1>1, <4>1
      <4> QED BY <2>0, <2>1, <3>1, <4>2 DEF Live, InUse
    <3>2. CASE k # e
      <4>1. InUse(k) /\ \E o \in Browser : Busy(o) /\ browser[o].engine = k
            BY <1>1, <2>1, <3>2 DEF InUse, Busy
      <4>2. k \in 1 .. Len(engines)
            BY <4>1, AwaitingIsBusy
      <4> QED BY <1>1, <2>0, <2>1, <4>1, <4>2 DEF Live
    <3> QED BY <3>1, <3>2
  <2>2. ASSUME NEW o \in Browser, browser'[o].copy # Absent, t \in browser'[o].copy.memory
        PROVE  t \in Live
        BY <2>0, <2>2 DEF Live
  <2>3. t \in Carried' => t \in Live
        BY <1>1, <2>0 DEF Live
  <2> QED BY <2>1, <2>2, <2>3 DEF Live, Known
<1>7. Kept' = Kept
      BY DEF Kept
<1>8. Alone'
      BY <1>3, <1>4 DEF Safe, Alone, Past
<1>9. Holding'
  <2>1. \A o \in Browser : o # s /\ (Ends(o)' \/ Leaves(o)') => browser'[o].engine = cached'
        BY <1>1, <1>3, <1>5 DEF Safe, Holding
  <2>2. Ends(s)' \/ Leaves(s)' => Busy(s)'
    <3>1. \A call : ~Contains(<<>>, call)
          BY DEF Contains
    <3> QED BY <3>1 DEF Ends, Leaves, Awaits, Busy
  <2> QED BY <2>1, <2>2 DEF Holding
<1>10. Resting'
      BY <1>1, <1>3 DEF Safe, Resting
<1>11. Current'
  <2>1. cached = 0 => \A o \in Browser : ~Purging(o)
        BY <1>5 DEF Purging, Wiping, Past
  <2>2. \A t \in Live' : t.era = era
        BY <1>6, <2>1 DEF Safe, Current
  <2>3. /\ (\A t \in Kept : t.era = era) \/ \E o \in Browser : Purging(o)'
        /\ (\A t \in Stored : t.era = era) \/ \E o \in Browser : Wiping(o)'
        BY <1>3, <1>4 DEF Safe, Current
  <2> QED BY <1>1, <1>7, <2>2, <2>3 DEF Current
<1>12. ASSUME ~late'
       PROVE  Owned'
  <2>1. Owned
        BY <1>12 DEF Safe
  <2>2. \A t \in Live' \cup Kept' \cup Stored' : accounts'[t.owner] = t.account
        BY <1>1, <1>6, <1>7, <1>12, <2>1 DEF Owned
  <2>3. ASSUME NEW o \in Browser, Past(o)' \/ Forgot(o)'
        PROVE  o # s /\ Live' \subseteq Live
        BY <1>3, <1>5, <1>6, <2>3 DEF Past, Forgot
  <2> QED BY <1>1, <1>3, <1>7, <2>1, <2>2, <2>3 DEF Owned
<1> QED BY <1>8, <1>9, <1>10, <1>11, <1>12 DEF Safe

\* Nobody has told anything under a name that is free.
LEMMA StartSafe ==
    ASSUME MaxOpened \in Nat, WebType, WebType', Trusty, Trusty', Safe, NEW s \in Browser,
           NEW n \in Name, SignUp(s, n) \/ Login(s, n)
    PROVE  Safe'
<1>1. PICK e \in 1 .. Len(engines) + 1 : GetMind(e)
      BY DEF SignUp, Login
<1>2. /\ browser'[s].todo = <<>> /\ browser'[s].copy = Absent
      /\ \A o \in Browser \ {s} : browser'[o] = browser[o]
      BY RegisterStarts, LoginStarts
<1>3. ~Busy(s)
      BY AwaitingIsBusy DEF SignUp, Login, LoggedIn
<1>4. UNCHANGED <<file, era, late, faults>>
      BY DEF SignUp, Login, bounds
<1>5. ~Ends(s)' /\ ~Leaves(s)' /\ ~Past(s)' /\ ~Forgot(s)' /\ ~Busy(s)'
      BY <1>2, CallsEnd DEF Ends, Leaves, Past, Forgot, Busy
<1>6. ASSUME ~late, NEW t \in Live \cup Kept \cup Stored
      PROVE  accounts'[t.owner] = accounts[t.owner]
  <2>1. CASE Login(s, n)
        BY <2>1 DEF Login
  <2>2. CASE SignUp(s, n)
    <3>1. t \in Telling
          BY KeptIsTold, StoredIsTold DEF Live
    <3>2. t.owner \in Name /\ t.account # 0
          BY <3>1 DEF Telling, Account
    <3>3. accounts[t.owner] = t.account
          BY <1>6 DEF Safe, Owned
    <3>4. accounts[n] = 0 /\ accounts' = [accounts EXCEPT ![n] = opened']
          BY <2>2 DEF SignUp
    <3>5. t.owner # n
          BY <3>2, <3>3, <3>4
    <3> QED BY <3>2, <3>4, <3>5 DEF WebType
  <2> QED BY <2>1, <2>2
<1> QED BY <1>1, <1>2, <1>3, <1>4, <1>5, <1>6, NewMindSafe

LEMMA BeginSafe ==
    ASSUME WebType, WebType', Trusty, Trusty', Safe, NEW s \in Browser,
           NEW calls, Script(calls), Begin(s, calls)
    PROVE  Safe'
<1>1. PICK e \in 1 .. Len(engines) + 1 : GetMind(e)
      BY DEF Begin
<1>2. /\ browser'[s].engine = cached' /\ browser'[s].todo = calls /\ browser'[s].copy = Absent
      /\ \A o \in Browser \ {s} : browser'[o] = browser[o]
      BY ScriptBegins
<1>3. ~Busy(s)
      BY DEF Begin
<1>4. /\ UNCHANGED <<file, accounts, era, late, faults>>
      /\ disturbed' = (disturbed \/ (Deleting /\ \E c \in Erasing : Contains(calls, c)))
      BY DEF Begin, NextScript, Disturb
<1>5. /\ Ends(s)' => Awaits(s, "shutdown")'
      /\ Leaves(s)' => Awaits(s, "delete_owner_data")'
      BY <1>2 DEF Ends, Leaves, Awaits, Script
<1>6. ~Past(s)' /\ ~Forgot(s)'
      BY <1>5 DEF Past, Forgot
<1>7. Ends(s)' \/ Leaves(s)' => \A o \in Browser : ~Ends(o)
  <2>1. Ends(s)' \/ Leaves(s)' => \E c \in Erasing : Contains(calls, c)
        BY <1>2, <1>5 DEF Awaits, Erasing
  <2>2. ~(Deleting /\ \E c \in Erasing : Contains(calls, c))
        BY <1>4 DEF Trusty
  <2> QED BY <2>1, <2>2, DeletingEnds
<1> QED BY <1>1, <1>2, <1>3, <1>4, <1>6, <1>7, NewMindSafe

LEMMA LogOutSafe ==
    ASSUME WebType, WebType', Trusty, Trusty', Safe, NEW s \in Browser, SignOut(s)
    PROVE  Safe'
<1>1. /\ browser'[s].todo = <<>> /\ browser'[s].copy = Absent
      /\ \A o \in Browser \ {s} : browser'[o] = browser[o]
      BY LogOutEnds
<1>2. UNCHANGED <<engines, cached, workers, file, database, accounts, era, late, faults>>
      BY DEF SignOut, mind, bounds
<1>3. Carried' = Carried /\ (AtWork' <=> AtWork) /\ Stored' = Stored
      BY <1>2, NothingMoves
<1>4. Live' \subseteq Live \cup {}
  <2>1. \A e \in 1 .. Len(engines) : Known(engines'[e]) \subseteq Known(engines[e]) \cup {}
        BY <1>2
  <2> QED BY <1>1, <1>2, <1>3, <2>1, LiveComesFrom DEF Busy
<1>5. ~Ends(s)' /\ ~Leaves(s)' /\ ~Past(s)' /\ ~Forgot(s)' /\ ~Wiping(s) /\ ~Purging(s)
  <2>1. ~Busy(s)
        BY DEF SignOut
  <2> QED BY <1>1, <2>1, CallsEnd, AwaitingIsBusy DEF Ends, Leaves, Past, Forgot, Wiping, Purging
<1>6. \A o \in Browser : o # s => /\ Ends(o)' <=> Ends(o)
                                  /\ Leaves(o)' <=> Leaves(o)
                                  /\ Past(o)' <=> Past(o)
                                  /\ Forgot(o)' <=> Forgot(o)
                                  /\ Wiping(o)' <=> Wiping(o)
                                  /\ Purging(o)' <=> Purging(o)
                                  /\ Awaits(o, "replace")' <=> Awaits(o, "replace")
                                  /\ browser'[o] = browser[o]
  <2>1. ASSUME NEW o \in Browser, o # s
        PROVE  /\ \A call : Awaits(o, call)' <=> Awaits(o, call)
               /\ browser'[o] = browser[o] /\ faults' = faults
        BY <1>1, <1>2, <2>1 DEF Awaits
  <2> QED BY <2>1 DEF Ends, Leaves, Past, Forgot, Wiping, Purging
<1>7. Kept' = Kept
      BY <1>2 DEF Kept
<1> QED BY <1>2, <1>3, <1>4, <1>5, <1>6, <1>7, Quiet

\* A worker carries on what is stored or carried already, and begins to only while no
\* deletion is under way.
LEMMA WorkerSafe ==
    ASSUME WebType, WebType', Trusty, Trusty', Safe, NEW w \in DOMAIN workers, WorkerStep(w)
    PROVE  Safe'
<1>1. UNCHANGED <<cached, file, accounts, browser, era, late, faults>>
      BY DEF WorkerStep, BeginCheckpoint, WriteSummaries, FlushToLongTerm, AddMemory,
             EndCheckpoint, bounds
<1>2. Carried \subseteq Live
      BY StoredIsTold DEF Live
<1>3. /\ Len(engines') = Len(engines)
      /\ \A e \in 1 .. Len(engines) : Known(engines'[e]) \subseteq Known(engines[e]) \cup Carried
  <2>1. CASE engines' = engines
        BY <2>1 DEF WebType
  <2>2. ASSUME NEW k \in 1 .. Len(engines), NEW t \in Carried,
               engines' = [engines EXCEPT ![k].memory = @ \cup {t}]
        PROVE  /\ Len(engines') = Len(engines)
               /\ \A e \in 1 .. Len(engines) :
                      Known(engines'[e]) \subseteq Known(engines[e]) \cup Carried
    <3> DEFINE own == engines[k]
               new == [own EXCEPT !.memory = @ \cup {t}]
    <3>1. engines \in Seq(Engine) /\ own \in Engine
          BY DEF WebType
    <3>2. engines' = [engines EXCEPT ![k] = new]
          BY <2>2, <3>1
    <3>3. new.memory = own.memory \cup {t} /\ new.dreamt = own.dreamt
      <4> HIDE DEF own
      <4> QED BY <3>1 DEF Engine
    <3> HIDE DEF new
    <3>4. /\ Len(engines') = Len(engines) /\ engines'[k] = new
          /\ \A e \in 1 .. Len(engines) : e # k => engines'[e] = engines[e]
          BY <3>1, <3>2
    <3> QED BY <2>2, <3>3, <3>4 DEF Known
  <2> QED BY <2>1, <2>2, Working
<1>4. Carried' \subseteq Carried \cup Stored /\ Stored' \subseteq Live \cup Stored
      BY <1>2, Working
<1>5. Live' \subseteq Live \cup Stored
  <2>1. /\ \A e \in 1 .. Len(engines) :
               Known(engines'[e]) \subseteq Known(engines[e]) \cup (Carried \cup Stored)
        /\ Carried' \subseteq Carried \cup (Carried \cup Stored)
        BY <1>3, <1>4
  <2>2. \A s \in Browser : /\ Busy(s)' => Busy(s) /\ browser'[s].engine = browser[s].engine
                           /\ browser'[s].copy \in {Absent, browser[s].copy}
        BY <1>1 DEF Busy
  <2>3. Live' \subseteq Live \cup (Carried \cup Stored)
        BY <1>1, <1>3, <2>1, <2>2, LiveComesFrom
  <2> QED BY <1>2, <2>3
<1>6. ASSUME NEW s \in Browser, Past(s)
      PROVE  Live' \subseteq Live /\ (AtWork' => AtWork)
  <2>1. ~AtWork /\ Deleting
        BY <1>6, DeletingEnds DEF Safe, Resting, Past
  <2>2. UNCHANGED workers
        BY <2>1, Working DEF Trusty
  <2>3. Carried = {}
    <3>1. \A v \in DOMAIN workers : workers[v].held = {}
          BY <2>1 DEF AtWork, WebType, GoodWorkers, GoodWorker
    <3> QED BY <3>1 DEF Carried
  <2>4. /\ \A e \in 1 .. Len(engines) : Known(engines'[e]) \subseteq Known(engines[e]) \cup {}
        /\ Carried' \subseteq Carried \cup {} /\ (AtWork' => AtWork)
        BY <1>3, <2>2, <2>3 DEF Carried, AtWork
  <2>5. \A o \in Browser : /\ Busy(o)' => Busy(o) /\ browser'[o].engine = browser[o].engine
                           /\ browser'[o].copy \in {Absent, browser[o].copy}
        BY <1>1 DEF Busy
  <2>6. Live' \subseteq Live \cup {}
        BY <1>1, <1>3, <2>4, <2>5, LiveComesFrom
  <2> QED BY <2>4, <2>6
<1>7. \A s \in Browser : \A call : Awaits(s, call)' <=> Awaits(s, call)
      BY <1>1 DEF Awaits
<1>8. \A s \in Browser : /\ Ends(s)' <=> Ends(s)
                         /\ Leaves(s)' <=> Leaves(s)
                         /\ Past(s)' <=> Past(s)
                         /\ Forgot(s)' <=> Forgot(s)
                         /\ Wiping(s)' <=> Wiping(s)
                         /\ Purging(s)' <=> Purging(s)
      BY <1>1, <1>7 DEF Ends, Leaves, Past, Forgot, Wiping, Purging
<1>9. Kept' = Kept
      BY <1>1 DEF Kept
<1> QED BY <1>1, <1>4, <1>5, <1>6, <1>7, <1>8, <1>9, Quiet

\* A restart in the middle of a deletion disturbs it; after any other one what is on disk
\* is what there is.
LEMMA RestartSafe ==
    ASSUME WebType, WebType', Trusty, Trusty', Safe, Restart
    PROVE  Safe'
<1>1. /\ \A s \in Browser : browser'[s].todo = <<>> /\ browser'[s].copy = Absent
      /\ engines' = <<>> /\ workers' = <<>>
      /\ UNCHANGED <<file, summaries, accounts, era, late, faults>>
      /\ disturbed' = (disturbed \/ Deleting)
      BY DEF Restart, LoggedOut, Disturb
<1>2. Live' = {} /\ ~AtWork'
      BY <1>1 DEF Live, Carried, AtWork
<1>3. Stored' \subseteq Stored
  <2>1. \A r \in Row : [r EXCEPT !.session = 0].told = r.told
        BY DEF Row
  <2>2. rows \subseteq Row /\ rows' = {[r EXCEPT !.session = 0] : r \in rows}
        BY DEF Restart, WebType, GoodDatabase
  <2>3. \A x \in rows' : \E r \in rows : x.told = r.told
        BY <2>1, <2>2
  <2> QED BY <1>1, <2>3 DEF Stored
<1>4. \A s \in Browser : ~Ends(s)' /\ ~Leaves(s)' /\ ~Past(s)' /\ ~Forgot(s)'
      BY <1>1, CallsEnd DEF Ends, Leaves, Past, Forgot
<1>5. \A s \in Browser : ~Wiping(s) /\ ~Purging(s)
      BY <1>1, DeletingEnds DEF Trusty, Purging, Wiping, Past
<1>6. Kept' = Kept
      BY <1>1 DEF Kept
<1> QED BY <1>1, <1>2, <1>3, <1>4, <1>5, <1>6, Quiet

\* Nothing takes a fault or a disturbance back.
LEMMA TrustyBefore == ASSUME WebType, WebNext, Trusty' PROVE Trusty
<1>1. faults \in Nat
      BY DEF WebType
<1>2. ASSUME NEW s \in Browser, CallStep(s)
      PROVE  (faults' = faults \/ faults' = faults + 1) /\ (disturbed => disturbed')
  <2>1. CASE RemoveFiles(s)
    <3>1. UNCHANGED bounds \/ Fault
          BY <2>1 DEF RemoveFiles
    <3>2. \E happened \in BOOLEAN : disturbed' = (disturbed \/ happened)
          BY <2>1 DEF RemoveFiles, Disturb
    <3> QED BY <3>1, <3>2 DEF Fault, bounds
  <2>2. CASE ~RemoveFiles(s)
    <3>1. faults' = faults \/ faults' = faults + 1
          BY <1>2, <2>2 DEF CallStep, Record, Answer, GiveUp, Snapshot, Replace, SaveFails,
                Fault, DeleteOwnerData, DeletesAccount, LogsOut, Shutdown, ClearCache,
                SetFrozen, SoftReset, bounds
    <3>2. disturbed => disturbed'
          BY <1>2, <2>2 DEF CallStep, Record, Answer, GiveUp, Snapshot, Replace, SaveFails,
                DeleteOwnerData, DeletesAccount, LogsOut, Shutdown, ClearCache,
                SetFrozen, SoftReset, Disturb
    <3> QED BY <3>1, <3>2
  <2> QED BY <2>1, <2>2
<1>3. ASSUME NEW w \in DOMAIN workers, WorkerStep(w)
      PROVE  faults' = faults /\ (disturbed => disturbed')
  <2>1. CASE BeginCheckpoint(w)
    <3>1. PICK read \in SUBSET RowsOf(workers[w].engine) :
              IF read = {} THEN summaries' = {} /\ UNCHANGED <<workers, disturbed, checkpoints>>
              ELSE Becomes(w, "read", read) /\ Disturb(Deleting) /\ UNCHANGED summaries
          BY <2>1 DEF BeginCheckpoint
    <3>2. disturbed => disturbed'
          BY <3>1 DEF Disturb
    <3> QED BY <2>1, <3>2 DEF BeginCheckpoint
  <2>2. CASE ~BeginCheckpoint(w)
        BY <1>3, <2>2 DEF WorkerStep, WriteSummaries, FlushToLongTerm, AddMemory,
                          EndCheckpoint, bounds
  <2> QED BY <2>1, <2>2
<1>4. faults' = faults \/ faults' = faults + 1
      BY <1>2, <1>3 DEF WebNext, SignUp, Login, Begin, NextScript, SignOut, Restart, bounds
<1>5. disturbed => disturbed'
      BY <1>2, <1>3 DEF WebNext, SignUp, Login, Begin, SignOut, Restart, Disturb
<1> QED BY <1>1, <1>4, <1>5 DEF Trusty

LEMMA WebStepSafe ==
    ASSUME MaxOpened \in Nat, WebInv, [WebNext]_webVars
    PROVE  WebInv'
<1>1. WebType /\ WebType'
      BY WebStepKeepsTypes DEF WebInv
<1> SUFFICES ASSUME Trusty'
             PROVE  Safe'
    BY <1>1 DEF WebInv
<1>2. CASE UNCHANGED webVars
  <2>1. /\ Kept' = Kept
        /\ UNCHANGED <<engines, cached, workers, database, browser, accounts, era, late,
                       disturbed, faults>>
        BY <1>2 DEF webVars, mind, bounds, Kept
  <2>2. Carried' = Carried /\ (AtWork' <=> AtWork) /\ Stored' = Stored
        BY <2>1, NothingMoves
  <2>3. Trusty /\ Live' = Live
        BY <2>1, <2>2 DEF Trusty, Live, InUse, Busy, Telling, Account, Known
  <2> QED BY <2>1, <2>2, <2>3 DEF WebInv, Safe, Alone, Holding, Resting, Current, Owned,
                                  Ends, Leaves, Past, Forgot, Wiping, Purging, Awaits
<1>3. WebNext => Trusty
      BY <1>1, TrustyBefore
<1>4. ASSUME WebNext, NEW s \in Browser,
             \/ \E n \in Name : SignUp(s, n) \/ Login(s, n)
             \/ \E calls \in {ChatCalls, ForgetMeCalls} \cup AdminCalls :
                    Begin(s, calls)
             \/ SignOut(s)
      PROVE  Safe'
  <2>1. Trusty /\ Safe
        BY <1>3, <1>4 DEF WebInv
  <2>2. \A calls \in {ChatCalls, ForgetMeCalls} \cup AdminCalls : Script(calls)
        BY ChatIsScript, ForgetMeIsScript, AdminsAreScripts
  <2> QED BY <1>1, <1>4, <2>1, <2>2, StartSafe, BeginSafe, LogOutSafe
<1>5. ASSUME WebNext, NEW s \in Browser, CallStep(s)
      PROVE  Safe'
  <2>1. Trusty /\ Safe
        BY <1>3, <1>5 DEF WebInv
  <2> QED BY <1>1, <1>5, <2>1, QuietSteps, RecordSafe, DeleteOwnerDataSafe, DeleteAccountSafe,
             ShutdownSafe, RemoveFilesSafe DEF CallStep
<1>6. ASSUME WebNext, NEW w \in DOMAIN workers, WorkerStep(w)
      PROVE  Safe'
      BY <1>1, <1>3, <1>6, WorkerSafe DEF WebInv
<1>7. ASSUME WebNext, Restart
      PROVE  Safe'
      BY <1>1, <1>3, <1>7, RestartSafe DEF WebInv
<1> QED BY <1>2, <1>4, <1>5, <1>6, <1>7 DEF WebNext

LEMMA WebInitially == WebInit => WebInv
<1> SUFFICES ASSUME WebInit
             PROVE  Safe
    BY WebTypeInitially DEF WebInv
<1>1. /\ engines = <<>> /\ file = Absent /\ workers = <<>> /\ rows = {} /\ summaries = {}
      /\ \A s \in Browser : browser[s].todo = <<>> /\ browser[s].copy = Absent
      BY DEF WebInit, LoggedOut
<1>2. \A s \in Browser : ~Ends(s) /\ ~Leaves(s)
  <2>1. \A call : ~Contains(<<>>, call)
        BY DEF Contains
  <2> QED BY <1>1, <2>1 DEF Ends, Leaves, Awaits
<1>3. Live = {} /\ Kept = {} /\ Stored = {}
      BY <1>1 DEF Live, Kept, Stored, Carried
<1> QED BY <1>2, <1>3 DEF Safe, Alone, Holding, Resting, Current, Owned, Past, Forgot

LEMMA HeldIsLive == ASSUME WebType PROVE Held(cached) \subseteq Live
<1>1. engines \in Seq(Engine) /\ cached \in 0 .. Len(engines)
      BY DEF WebType
<1>2. CASE cached = 0
      BY <1>2 DEF Held
<1>3. CASE cached # 0
  <2>1. cached \in 1 .. Len(engines) /\ engines[cached] \in Engine
        BY <1>1, <1>3
  <2> QED BY <1>3, <2>1 DEF Held, Live, InUse, Known, Engine
<1> QED BY <1>2, <1>3

THEOREM WebInvariance == WebSpec => []WebInv
<1>1. MaxOpened \in Nat
      BY WebMindAssumption DEF WebMindAssumption
<1>2. WebInv /\ [WebNext]_webVars => WebInv'
      BY <1>1, WebStepSafe
<1> QED BY <1>2, WebInitially, PTL DEF WebSpec

\* What was told before everything was deleted is in no mind that a later script gets, in
\* no file that a later process loads and in no row or summary that a later checkpoint
\* takes.
THEOREM DeletedStaysGone == WebSpec => []DeletedIsGone
<1>1. WebInv => DeletedIsGone
  <2> SUFFICES ASSUME WebType, Trusty, Safe, ~Deleting
               PROVE  \A t \in Held(cached) \cup Kept \cup Stored : t.era = era
      BY DEF WebInv, DeletedIsGone, Trusty
  <2>1. \A s \in Browser : ~Purging(s) /\ ~Wiping(s)
        BY DeletingEnds DEF Purging, Wiping, Past
  <2> QED BY <2>1, HeldIsLive DEF Safe, Current
<1> QED BY <1>1, WebInvariance, PTL

\* Who takes a name finds, in the mind, the file and the database, nothing told under an
\* earlier account of it.
THEOREM NamesAreFresh == WebSpec => []NamesStartEmpty
<1>1. WebInv => NamesStartEmpty
  <2> SUFFICES ASSUME WebType, Trusty, Safe, ~late
               PROVE  \A t \in Held(cached) \cup Kept \cup Stored :
                          accounts[t.owner] \in {0, t.account}
      BY DEF WebInv, NamesStartEmpty, Trusty
  <2> QED BY HeldIsLive DEF Safe, Owned
<1> QED BY <1>1, WebInvariance, PTL

=============================================================================
