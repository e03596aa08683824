----------------------------- MODULE DoerProofs -----------------------------
(***************************************************************************)
(* What backoff.Do returns, when it stops, which delay is next and how     *)
(* long it may be, for any Doer, whatever delays its strategy draws.       *)
(***************************************************************************)
EXTENDS Doer, FiniteSetTheorems, TLAPS

\* Every call so far failed, but for one under way.
Failed ==
  /\ pc \in {"top", "asleep", "calling", "failed", "returned"}
  /\ called \in Nat
  /\ pc \in {"top", "asleep", "failed"} => err = called
  /\ pc = "calling" => err = called - 1 /\ called > 0
  /\ ReturnsLastError

\* A call begun after the context ended is the last.
Late ==
  /\ late \in 0..1
  /\ ctx \in {"live", "ended"}
  /\ ctx = "live" => late = 0
  /\ pc \in {"top", "asleep"} => late = 0

IsLastLong(r, k) == k \in DOMAIN r /\ r[k] /\ \A j \in k + 1..Len(r) : ~r[j]

\* When a call ran long there is a last that did, and the schedule starts there.
Scheduled ==
  /\ d \in Doers /\ ran \in Seq(BOOLEAN)
  /\ (\E k \in DOMAIN ran : ran[k]) => \E k \in DOMAIN ran : IsLastLong(ran, k)
  /\ pc \in {"top", "asleep", "calling"} =>
       sched = IF d.resets THEN SinceLong ELSE Len(ran)
  /\ pc = "failed" =>
       /\ Len(ran) > 0
       /\ (IF d.resets /\ ran[Len(ran)] THEN 0 ELSE sched + 1)
            = IF d.resets THEN SinceLong ELSE Len(ran)

IInv == Failed /\ Late /\ Scheduled

\* How long ago the last long call of `r' was, in calls.
Since(r) ==
  IF \E k \in DOMAIN r : r[k]
  THEN Len(r) - (CHOOSE k \in DOMAIN r : r[k] /\ \A j \in k + 1..Len(r) : ~r[j])
  ELSE Len(r)

\* The last long call is one.
LEMMA LastIsOne ==
  ASSUME NEW r \in Seq(BOOLEAN), NEW k \in DOMAIN r, IsLastLong(r, k)
  PROVE  Since(r) = Len(r) - k
<1>1. \A j \in DOMAIN r : IsLastLong(r, j) => j = k
  BY DEF IsLastLong
<1> DEFINE c == CHOOSE j \in DOMAIN r : r[j] /\ \A l \in j + 1..Len(r) : ~r[l]
<1>2. c \in DOMAIN r /\ IsLastLong(r, c)
  BY DEF IsLastLong
<1>3. c = k
  BY <1>1, <1>2
<1> QED
  BY <1>3 DEF Since, IsLastLong

\* One call more, long or not.
LEMMA OneCallMore ==
  ASSUME NEW r \in Seq(BOOLEAN), NEW long \in BOOLEAN,
         (\E k \in DOMAIN r : r[k]) => \E k \in DOMAIN r : IsLastLong(r, k)
  PROVE  LET t == Append(r, long)
         IN /\ t \in Seq(BOOLEAN) /\ Len(t) = Len(r) + 1 /\ t[Len(t)] = long
            /\ (\E k \in DOMAIN t : t[k]) => \E k \in DOMAIN t : IsLastLong(t, k)
            /\ Since(t) = IF long THEN 0 ELSE Since(r) + 1
<1> DEFINE t == Append(r, long)
<1>1. /\ t \in Seq(BOOLEAN) /\ Len(r) \in Nat /\ Len(t) = Len(r) + 1 /\ t[Len(t)] = long
      /\ DOMAIN t = 1..Len(r) + 1 /\ DOMAIN r = 1..Len(r)
      /\ \A k \in DOMAIN r : t[k] = r[k]
  OBVIOUS
<1> HIDE DEF t
<1>2. CASE long
  <2>1. IsLastLong(t, Len(t)) /\ Len(t) \in DOMAIN t
    BY <1>1, <1>2 DEF IsLastLong
  <2>2. Since(t) = Len(t) - Len(t)
    BY <1>1, <2>1, LastIsOne
  <2>3. Since(t) = 0
    BY <1>1, <2>2
  <2>4. \E k \in DOMAIN t : IsLastLong(t, k)
    BY <2>1
  <2> QED
    BY <1>1, <1>2, <2>3, <2>4 DEF t
<1>3. CASE ~long /\ \E k \in DOMAIN r : r[k]
  <2>1. PICK k \in DOMAIN r : IsLastLong(r, k)
    BY <1>3
  <2>2. k \in DOMAIN t /\ IsLastLong(t, k)
    <3>1. \A j \in k + 1..Len(t) : ~t[j]
      <4> SUFFICES ASSUME NEW j \in k + 1..Len(t) PROVE ~t[j]
        OBVIOUS
      <4>1. CASE j = Len(t)
        BY <1>1, <1>3, <4>1
      <4>2. CASE j # Len(t)
        BY <1>1, <2>1, <4>2 DEF IsLastLong
      <4> QED BY <4>1, <4>2
    <3> QED
      BY <1>1, <2>1, <3>1 DEF IsLastLong
  <2>3. Since(r) = Len(r) - k /\ Since(t) = Len(t) - k /\ k \in Int
    BY <1>1, <2>1, <2>2, LastIsOne
  <2> QED
    BY <1>1, <1>3, <2>2, <2>3 DEF t
<1>4. CASE ~long /\ ~\E k \in DOMAIN r : r[k]
  <2>1. \A k \in DOMAIN t : ~t[k]
    BY <1>1, <1>4
  <2>2. Since(r) = Len(r) /\ Since(t) = Len(t)
    BY <1>4, <2>1 DEF Since
  <2> QED
    BY <1>1, <1>4, <2>1, <2>2 DEF t
<1> QED
  BY <1>2, <1>3, <1>4

-----------------------------------------------------------------------------
\* Nothing was called yet.
LEMMA InitIInv == Init => IInv
BY DoersAssumption
   DEF Init, IInv, Failed, Late, Scheduled, ReturnsLastError, SinceLong, Outcome

\* What the loop returns is the error of its last call.
LEMMA FailedStep == Failed /\ [Next]_vars => Failed'
<1> SUFFICES ASSUME Failed, [Next]_vars PROVE Failed'
  OBVIOUS
<1> USE DEF Failed, ReturnsLastError
<1>1. CASE Exhausted \/ CutSleep \/ FailsEnded
  BY <1>1 DEF Exhausted, CutSleep, FailsEnded, Return, Or, Outcome
<1>2. CASE NoWait \/ Awake
  BY <1>2 DEF NoWait, Awake, Call
<1>3. CASE FallAsleep
  BY <1>3 DEF FallAsleep
<1>4. CASE FnSucceeds \/ FnStops
  BY <1>4 DEF FnSucceeds, FnStops, Return, Outcome
<1>5. CASE FnFails \/ Reschedule \/ ContextEnds
  BY <1>5 DEF FnFails, Reschedule, ContextEnds
<1>6. CASE Over \/ UNCHANGED vars
  BY <1>6 DEF Over, vars
<1> QED
  BY <1>1, <1>2, <1>3, <1>4, <1>5, <1>6 DEF Next, Loop

\* A call begun after the context ended returns to a loop that ends.
LEMMA LateStep == Failed /\ Late /\ [Next]_vars => Late'
<1> SUFFICES ASSUME Failed, Late, [Next]_vars PROVE Late'
  OBVIOUS
<1> USE DEF Late
<1>1. CASE Exhausted \/ CutSleep \/ FailsEnded \/ FnSucceeds
  BY <1>1 DEF Exhausted, CutSleep, FailsEnded, FnSucceeds, Return
<1>2. CASE NoWait \/ Awake
  BY <1>2 DEF NoWait, Awake, Call
<1>3. CASE FallAsleep \/ FnStops \/ FnFails \/ Reschedule \/ ContextEnds
  BY <1>3 DEF FallAsleep, FnStops, FnFails, Reschedule, ContextEnds
<1>4. CASE Over \/ UNCHANGED vars
  BY <1>4 DEF Over, vars
<1> QED
  BY <1>1, <1>2, <1>3, <1>4 DEF Next, Loop

\* The schedule goes on with every failed call, or starts again after a long one.
LEMMA ScheduledStep == Scheduled /\ [Next]_vars => Scheduled'
<1> SUFFICES ASSUME Scheduled, [Next]_vars PROVE Scheduled'
  OBVIOUS
<1>0. ran \in Seq(BOOLEAN) /\ d \in Doers /\ d.resets \in BOOLEAN
  BY DoersAssumption DEF Scheduled
<1>1. SinceLong = Since(ran) /\ SinceLong' = Since(ran)'
  BY DEF SinceLong, Since
<1>2. ASSUME UNCHANGED <<d, ran, sched>>,
             pc' \in {"top", "asleep", "calling"} => pc \in {"top", "asleep", "calling"},
             pc' = "failed" => pc = "failed"
      PROVE  Scheduled'
  BY <1>2 DEF Scheduled, SinceLong, IsLastLong
<1>3. CASE Exhausted \/ CutSleep \/ FailsEnded \/ FnSucceeds \/ FnStops
  BY <1>2, <1>3 DEF Exhausted, CutSleep, FailsEnded, FnSucceeds, FnStops, Return
<1>4. CASE NoWait \/ Awake \/ FallAsleep \/ ContextEnds
  BY <1>2, <1>4 DEF NoWait, Awake, FallAsleep, ContextEnds, Call
<1>5. CASE FnFails
  <2>1. PICK long \in {d.resets, FALSE} : ran' = Append(ran, long)
    BY <1>5 DEF FnFails
  <2>2. /\ ran' \in Seq(BOOLEAN) /\ Len(ran') = Len(ran) + 1 /\ ran'[Len(ran')] = long
        /\ (\E k \in DOMAIN ran' : ran'[k]) => \E k \in DOMAIN ran' : IsLastLong(ran', k)
        /\ Since(ran') = IF long THEN 0 ELSE Since(ran) + 1
    BY <1>0, <2>1, OneCallMore DEF Scheduled
  <2>3. sched = IF d.resets THEN Since(ran) ELSE Len(ran)
    BY <1>1, <1>5 DEF FnFails, Scheduled
  <2>4. UNCHANGED <<d, sched>> /\ pc' = "failed"
    BY <1>5 DEF FnFails
  <2>5. Len(ran) \in Nat
    BY <1>0
  <2>6. Since(ran') = Since(ran)'
    BY DEF Since
  <2> QED
    BY <1>0, <1>1, <2>2, <2>3, <2>4, <2>5, <2>6 DEF Scheduled, IsLastLong
<1>6. CASE Reschedule
  BY <1>6 DEF Reschedule, Scheduled, SinceLong, IsLastLong
<1>7. CASE Over \/ UNCHANGED vars
  BY <1>2, <1>7 DEF Over, vars
<1> QED
  BY <1>3, <1>4, <1>5, <1>6, <1>7 DEF Next, Loop

-----------------------------------------------------------------------------
\* The inductive invariant of the loop: its last error, its context and its
\* schedule.
THEOREM Inductive == Spec => []IInv
<1>1. IInv /\ [Next]_vars => IInv'
  BY FailedStep, LateStep, ScheduledStep DEF IInv
<1> QED
  BY InitIInv, <1>1, PTL DEF Spec

\* Do returns what the last call of the function did, whatever ended the loop.
THEOREM LastError == Spec => []ReturnsLastError
<1>1. IInv => ReturnsLastError
  BY DEF IInv, Failed
<1> QED
  BY Inductive, <1>1, PTL

\* An ended context lets one more call begin at most.
THEOREM LateCalls == Spec => []EndedContextStopsCalls
<1>1. IInv => EndedContextStopsCalls
  BY DEF IInv, Late, EndedContextStopsCalls
<1> QED
  BY Inductive, <1>1, PTL

\* The next delay is that of the failures since the last call that ran long.
THEOREM Schedule == Spec => []ScheduleFollows
<1>1. IInv => ScheduleFollows
  BY DEF IInv, Scheduled, ScheduleFollows
<1> QED
  BY Inductive, <1>1, PTL

-----------------------------------------------------------------------------
\* A set of naturals has a least, since finite sets do: the induction that the
\* recursive schedule needs.
LEMMA LeastOfNaturals ==
  ASSUME NEW T, T \subseteq Nat, T # {}
  PROVE  \E m \in T : \A k \in T : m <= k
<1> DEFINE U == {1..m : m \in T}
           R == StrictSubsetOrdering(Nat)
<1>1. U \subseteq FiniteSubsetsOf(Nat) /\ U # {}
  <2>1. \A m \in T : 1..m \subseteq Nat /\ IsFiniteSet(1..m)
    BY FS_Interval
  <2> QED
    BY <2>1 DEF FiniteSubsetsOf
<1>2. IsWellFoundedOn(R, FiniteSubsetsOf(Nat))
  BY FS_StrictSubsetOrderingWellFounded
<1> HIDE DEF U, R
<1>3. \E x \in U : \A y \in U : ~(<<y, x>> \in R)
  BY <1>1, <1>2, WFMin
<1>4. PICK m \in T : \A y \in U : ~(<<y, 1..m>> \in R)
  BY <1>3 DEF U
<1>5. ASSUME NEW k \in T, k < m PROVE FALSE
  <2>1. 1..k \in U
    BY DEF U
  <2>2. 1..k \subseteq 1..m /\ m \in 1..m /\ m \notin 1..k /\ 1..k \subseteq Nat /\ 1..m \subseteq Nat
    BY <1>5
  <2>3. <<1..k, 1..m>> \in R
    BY <2>2 DEF R, StrictSubsetOrdering
  <2> QED
    BY <1>4, <2>1, <2>3
<1> QED
  BY <1>4, <1>5

\* The first h delays of base b, where one is k / e times the one before.
IsSchedule(x, h, b, k, e) ==
  x = [n \in 1..h |-> IF n = 1 THEN b ELSE (x[n - 1] * k) \div e]

\* There is such a schedule.
LEMMA ScheduleThereIs ==
  ASSUME NEW b, NEW k, NEW e, NEW h \in Nat
  PROVE  \E x : IsSchedule(x, h, b, k, e)
<1> DEFINE next(v) == (v * k) \div e
           Follows(x, m) == x = [n \in 1..m |-> IF n = 1 THEN b ELSE next(x[n - 1])]
           T == {m \in Nat : ~\E x : Follows(x, m)}
<1> HIDE DEF next
<1>1. ASSUME NEW m \in T, \A j \in T : m <= j PROVE FALSE
  <2>1. CASE m = 0
    <3> DEFINE x == [n \in 1..m |-> b]
    <3>1. Follows(x, m)
      BY <2>1
    <3> HIDE DEF x
    <3> QED
      BY <3>1
  <2>2. CASE m # 0
    <3>1. m - 1 \in Nat /\ m - 1 \notin T /\ m \in Nat
      <4>1. m \in Nat /\ m - 1 \in Nat
        BY <2>2
      <4> HIDE DEF T
      <4> QED
        BY <1>1, <4>1
    <3>2. PICK x : Follows(x, m - 1)
      BY <3>1
    <3> DEFINE y == [n \in 1..m |-> IF n = 1 THEN b ELSE next(x[n - 1])]
    <3>3. \A n \in 1..m : n # 1 => y[n - 1] = x[n - 1]
      <4> SUFFICES ASSUME NEW n \in 1..m, n # 1 PROVE y[n - 1] = x[n - 1]
        OBVIOUS
      <4>1. n - 1 \in 1..m /\ n - 1 \in 1..m - 1
        BY <3>1
      <4>2. x[n - 1] = IF n - 1 = 1 THEN b ELSE next(x[n - 1 - 1])
        BY <3>2, <4>1
      <4>3. y[n - 1] = IF n - 1 = 1 THEN b ELSE next(x[n - 1 - 1])
        BY <4>1
      <4> QED
        BY <4>2, <4>3
    <3>4. Follows(y, m)
      <4>1. \A n \in 1..m :
              (IF n = 1 THEN b ELSE next(x[n - 1])) = (IF n = 1 THEN b ELSE next(y[n - 1]))
        BY <3>3
      <4> QED
        BY <4>1
    <3> HIDE DEF y
    <3> QED
      BY <3>4
  <2> QED
    BY <2>1, <2>2
<1>2. T = {}
  <2>1. T # {} => \E m \in T : \A j \in T : m <= j
    BY LeastOfNaturals
  <2> QED
    BY <1>1, <2>1
<1>3. \E x : Follows(x, h)
  BY <1>2
<1> QED
  BY <1>3 DEF next, IsSchedule

\* Nominal is that schedule.
LEMMA NominalFollows ==
  ASSUME NEW s
  PROVE  IsSchedule(Nominal(s), Horizon, Base(s), Num(s), Den(s))
<1>1. \E x : IsSchedule(x, Horizon, Base(s), Num(s), Den(s))
  BY ScheduleThereIs, DurationsAssumption
<1>2. Nominal(s) = CHOOSE x : IsSchedule(x, Horizon, Base(s), Num(s), Den(s))
  BY DEF Nominal, IsSchedule
<1> QED
  BY <1>1, <1>2

\* It has no delay below zero.
LEMMA NominalIsNatural ==
  ASSUME NEW s, IsStrategy(s), s.type = "exponential"
  PROVE  \A n \in 1..Horizon : Nominal(s)[n] \in Nat
<1> DEFINE T == {n \in 1..Horizon : Nominal(s)[n] \notin Nat}
<1>1. Base(s) \in Nat /\ Num(s) \in Nat /\ Den(s) \in Nat \ {0} /\ Horizon \in Nat
  BY DurationsAssumption
     DEF IsStrategy, Base, Num, Den, DefaultBase, DefaultNum, DefaultDen
<1>2. \A n \in 1..Horizon :
        Nominal(s)[n] = IF n = 1 THEN Base(s) ELSE (Nominal(s)[n - 1] * Num(s)) \div Den(s)
  BY NominalFollows DEF IsSchedule
<1>3. \A a, b \in Nat, e \in Nat \ {0} : (a * b) \div e \in Nat
  <2>1. \A a \in Nat, e \in Nat \ {0} : a \div e \in Nat
    OBVIOUS
  <2>2. \A a, b \in Nat : a * b \in Nat
    OBVIOUS
  <2> QED
    BY <2>1, <2>2
<1>4. ASSUME NEW m \in T, \A j \in T : m <= j PROVE FALSE
  <2>1. CASE m = 1
    BY <1>1, <1>2, <2>1
  <2>2. CASE m # 1
    <3>1. m - 1 \in 1..Horizon /\ m - 1 \notin T
      BY <1>1, <1>4, <2>2
    <3>2. Nominal(s)[m - 1] \in Nat
      BY <3>1
    <3>3. Nominal(s)[m] = (Nominal(s)[m - 1] * Num(s)) \div Den(s)
      BY <1>2, <2>2
    <3> QED
      BY <1>1, <1>3, <3>2, <3>3
  <2> QED
    BY <2>1, <2>2
<1>5. T = {}
  <2>1. T \subseteq Nat
    BY <1>1
  <2>2. T # {} => \E m \in T : \A j \in T : m <= j
    <3> HIDE DEF T
    <3> QED
      BY <2>1, LeastOfNaturals
  <2> QED
    BY <1>4, <2>2
<1> QED
  BY <1>5

\* No delay is longer than its limit, or than a time.Duration.
LEMMA DelayInRange ==
  ASSUME NEW s, IsStrategy(s), NEW n \in 0..Horizon, NEW y \in Delay(s, n)
  PROVE  /\ y \in 0..MaxDuration
         /\ y \in 0..(IF s.type = "constant" THEN s.delay ELSE Limit(s))
<1>0. MaxDuration \in Nat \ {0} /\ Horizon \in Nat
  BY DurationsAssumption
<1>1. CASE s.type = "constant"
  BY <1>0, <1>1 DEF IsStrategy, Delay
<1>2. CASE s.type # "constant"
  <2> DEFINE l == Limit(s)
             x == Nominal(s)[n]
  <2>1. l \in 1..MaxDuration /\ s.type = "exponential" /\ s.jitter \in Int
    BY <1>0, <1>2 DEF IsStrategy, Limit
  <2>2. CASE n = 0
    BY <1>0, <1>2, <2>1, <2>2 DEF Delay
  <2>3. CASE n # 0
    <3>1. x \in Nat
      BY <1>0, <2>1, <2>3, NominalIsNatural
    <3>2. Delay(s, n) = IF x >= l THEN {l} ELSE {IF z >= l THEN l ELSE z : z \in Jittered(s, x)}
      BY <1>2, <2>3 DEF Delay
    <3> HIDE DEF l, x
    <3>3. \A z \in Jittered(s, x) : z \in Nat
      <4>1. CASE 0 < s.jitter /\ s.jitter < 100
        <5>1. x * s.jitter \in 0..x * 100
          BY <2>1, <3>1, <4>1
        <5>2. (x * s.jitter) \div 100 \in 0..x
          BY <3>1, <5>1
        <5> QED
          BY <3>1, <4>1, <5>2 DEF Jittered
      <4>2. CASE ~(0 < s.jitter /\ s.jitter < 100)
        BY <3>1, <4>2 DEF Jittered
      <4> QED
        BY <4>1, <4>2
    <3>4. y \in 0..l
      BY <2>1, <3>2, <3>3
    <3> QED
      BY <1>0, <1>2, <2>1, <3>4 DEF l
  <2> QED
    BY <2>2, <2>3
<1> QED
  BY <1>1, <1>2

-----------------------------------------------------------------------------
\* The counters of the loop.
Counted ==
  /\ i \in Nat /\ sched \in Nat /\ called \in 0..Horizon
  /\ sched <= i /\ i <= called
  /\ ~d.resets => sched = i
  /\ pc \in {"top", "asleep"} => i = called
  /\ pc \in {"calling", "failed"} => i = called - 1
  /\ pc = "asleep" => called < Horizon /\ ~Bounded
  /\ d.maxAttempts > 0 => called <= d.maxAttempts

\* One call more is within the bounds.
LEMMA CountedStep ==
  ASSUME DoerTypeOK, Counted, [Next]_vars PROVE Counted'
<1>0. d \in Doers /\ d.maxAttempts \in 0..Horizon /\ d.resets \in BOOLEAN /\ Horizon \in Nat
  BY DoersAssumption, DurationsAssumption DEF DoerTypeOK
<1> USE DEF Counted, Bounded
<1>1. CASE Exhausted \/ CutSleep \/ FailsEnded \/ FnSucceeds
  BY <1>0, <1>1 DEF Exhausted, CutSleep, FailsEnded, FnSucceeds, Return
<1>2. CASE FnStops \/ FnFails \/ ContextEnds
  BY <1>0, <1>2 DEF FnStops, FnFails, ContextEnds
<1>3. CASE NoWait \/ Awake
  BY <1>0, <1>3 DEF NoWait, Awake, Call
<1>4. CASE FallAsleep
  BY <1>0, <1>4 DEF FallAsleep
<1>5. CASE Reschedule
  BY <1>0, <1>5 DEF Reschedule
<1>6. CASE Over \/ UNCHANGED vars
  BY <1>0, <1>6 DEF Over, vars
<1> QED
  BY <1>1, <1>2, <1>3, <1>4, <1>5, <1>6 DEF Next, Loop

\* The delay drawn is one of the strategy's.
LEMMA TypeStep ==
  ASSUME DoerTypeOK, Counted, Late, [Next]_vars PROVE DoerTypeOK'
<1>0. /\ d \in Doers /\ d.maxAttempts \in 0..Horizon /\ d.resets \in BOOLEAN
      /\ Horizon \in Nat /\ MaxDuration \in Nat \ {0}
      /\ IsStrategy(d.strategy) /\ Longest \in Nat
  BY DoersAssumption, DurationsAssumption
     DEF DoerTypeOK, Longest, IsStrategy, Limit
<1>1. \A n \in 0..Horizon : \A y \in Delay(d.strategy, n) : y \in 0..Longest \cap 0..MaxDuration
  BY <1>0, DelayInRange DEF Longest
<1>2. called \in 0..Horizon /\ called \in 0..Most /\ sched \in 0..Horizon /\ i \in 0..Horizon
  BY <1>0 DEF Counted, DoerTypeOK
<1>3. ASSUME Return(Or("exhausted")) \/ Return(Or("context")) \/ Return(Outcome("nil", 0))
      PROVE  DoerTypeOK'
  <2>1. out' \in Outcomes
    BY <1>0, <1>3 DEF Return, Or, Outcome, Outcomes, DoerTypeOK
  <2> QED
    BY <1>3, <2>1 DEF Return, DoerTypeOK, Longest, Most
<1>4. CASE Exhausted \/ CutSleep \/ FailsEnded \/ FnSucceeds
  BY <1>3, <1>4 DEF Exhausted, CutSleep, FailsEnded, FnSucceeds
<1>5. CASE FnStops
  <2>1. out' \in Outcomes
    BY <1>0, <1>2, <1>5 DEF FnStops, Outcome, Outcomes, Counted
  <2> QED
    BY <1>0, <1>2, <1>5, <2>1 DEF FnStops, DoerTypeOK, Longest, Most
<1>6. CASE FnFails
  <2>1. PICK long \in {d.resets, FALSE} : ran' = Append(ran, long)
    BY <1>6 DEF FnFails
  <2>2. ran' \in Seq(BOOLEAN)
    <3>1. long \in BOOLEAN /\ ran \in Seq(BOOLEAN)
      BY <1>0, <2>1 DEF DoerTypeOK
    <3>2. Append(ran, long) \in Seq(BOOLEAN)
      BY <3>1
    <3> QED
      BY <2>1, <3>2
  <2>3. err' \in 0..Horizon
    BY <1>2, <1>6 DEF FnFails
  <2> QED
    BY <1>6, <2>2, <2>3 DEF FnFails, DoerTypeOK, Longest, Most
<1>7. CASE NoWait \/ Awake
  <2>1. /\ delay' \in {delay, 0} /\ called < Horizon /\ called' = called + 1 /\ pc' = "calling"
        /\ ~Bounded /\ late' \in {late, late + 1} /\ (late' = late + 1 => late = 0)
        /\ UNCHANGED <<d, i, sched, err, ctx, ran, slept, out>> /\ i = called
    BY <1>7 DEF NoWait, Awake, Call, Counted, Late
  <2>2. called' \in 0..Most /\ Most \in Nat
    BY <1>0, <1>2, <2>1 DEF Most, Bounded
  <2>3. delay' \in 0..Longest \cap 0..MaxDuration
    BY <1>0, <2>1 DEF DoerTypeOK
  <2>4. late' \in 0..Horizon
    BY <1>0, <1>2, <2>1 DEF DoerTypeOK
  <2> QED
    BY <2>1, <2>2, <2>3, <2>4 DEF DoerTypeOK, Longest, Most
<1>8. CASE FallAsleep
  <2>1. delay' \in 0..Longest \cap 0..MaxDuration
    BY <1>1, <1>2, <1>8 DEF FallAsleep
  <2>2. slept' \in Nat
    <3>1. delay' \in Nat /\ slept \in Nat
      BY <1>0, <2>1 DEF DoerTypeOK
    <3>2. slept' = 0 \/ slept' = slept + delay'
      BY <1>8 DEF FallAsleep
    <3>3. \A a, b \in Nat : a + b \in Nat
      OBVIOUS
    <3> QED
      BY <3>1, <3>2, <3>3
  <2> QED
    BY <1>8, <2>1, <2>2 DEF FallAsleep, DoerTypeOK, Longest, Most
<1>9. CASE Reschedule
  <2>1. i' \in 0..Horizon /\ sched' \in 0..Horizon
    BY <1>0, <1>2, <1>9 DEF Reschedule, Counted
  <2> QED
    BY <1>9, <2>1 DEF Reschedule, DoerTypeOK, Longest, Most
<1>10. CASE ContextEnds
  BY <1>10 DEF ContextEnds, DoerTypeOK, Longest, Most
<1>11. CASE Over \/ UNCHANGED vars
  BY <1>11 DEF Over, vars, DoerTypeOK, Longest, Most
<1> QED
  BY <1>4, <1>5, <1>6, <1>7, <1>8, <1>9, <1>10, <1>11 DEF Next, Loop

\* The loop starts with its counters at zero.
LEMMA InitTyped == Init => DoerTypeOK /\ Counted
<1> SUFFICES ASSUME Init PROVE DoerTypeOK /\ Counted
  OBVIOUS
<1>0. /\ d \in Doers /\ d.maxAttempts \in 0..Horizon
      /\ Horizon \in Nat /\ MaxDuration \in Nat \ {0} /\ IsStrategy(d.strategy)
  BY DoersAssumption, DurationsAssumption DEF Init
<1>1. Longest \in Nat /\ Most \in Nat
  BY <1>0 DEF Longest, Most, IsStrategy, Limit
<1>2. out \in Outcomes
  BY DEF Init, Outcome, Outcomes
<1> QED
  BY <1>0, <1>1, <1>2 DEF Init, DoerTypeOK, Counted

\* The counters keep their bounds and the delays theirs.
LEMMA Kept == Spec => [](DoerTypeOK /\ Counted)
<1>1. IInv /\ DoerTypeOK /\ Counted /\ [Next]_vars => (DoerTypeOK /\ Counted)'
  BY TypeStep, CountedStep DEF IInv
<1> QED
  BY InitTyped, Inductive, <1>1, PTL DEF Spec

\* No delay is negative or past its limit, no counter past its bound.
THEOREM Typing == Spec => []DoerTypeOK
BY Kept, PTL

-----------------------------------------------------------------------------
\* The delay of the client's schedule after n failures, and what the delays up
\* to it add up to.
DelayAfter(n) ==
  IF n = 1 THEN 113..187 ELSE IF n = 2 THEN 338..562
  ELSE IF n = 3 THEN 1013..1687 ELSE 3038..5000
Waited(n) ==
  IF n = 0 THEN 0..0 ELSE IF n = 1 THEN 113..187 ELSE IF n = 2 THEN 451..749
  ELSE IF n = 3 THEN 1464..2436 ELSE 4502..7436

Waits ==
  IsOfClient =>
    /\ pc = "asleep" => called > 0 /\ slept \in Waited(called)
    /\ pc \in {"top", "calling", "failed", "returned"} /\ called > 0
         /\ (pc = "returned" => called = DefaultAttempts) => slept \in Waited(called - 1)
    /\ called = 0 => slept = 0

\* The delays add up.
LEMMA DelaysAdd ==
  ASSUME NEW n \in 1..4, NEW v \in Waited(n - 1), NEW y \in DelayAfter(n)
  PROVE  v + y \in Waited(n)
<1>1. CASE n = 1
  BY <1>1 DEF Waited, DelayAfter
<1>2. CASE n = 2
  BY <1>2 DEF Waited, DelayAfter
<1>3. CASE n = 3
  BY <1>3 DEF Waited, DelayAfter
<1>4. CASE n = 4
  BY <1>4 DEF Waited, DelayAfter
<1> QED
  BY <1>1, <1>2, <1>3, <1>4

\* The delays of the client's schedule are such.
LEMMA DelaysOfClient ==
  ASSUME NEW n \in 1..4, 4 <= Horizon, NEW y \in Delay(OfClient, n)
  PROVE  y \in DelayAfter(n) /\ y # 0
<1>0. Horizon \in Nat
  BY DurationsAssumption
<1>1. /\ OfClient.type = "exponential" /\ OfClient.jitter = 25 /\ Limit(OfClient) = 5000
      /\ Base(OfClient) = 150 /\ Num(OfClient) = 3 /\ Den(OfClient) = 1
  BY DEF OfClient, Exponential, Limit, Base, Num, Den
<1>2. \A k \in 1..Horizon :
        Nominal(OfClient)[k] = IF k = 1 THEN 150 ELSE (Nominal(OfClient)[k - 1] * 3) \div 1
  <2>1. IsSchedule(Nominal(OfClient), Horizon, 150, 3, 1)
    BY <1>1, NominalFollows
  <2> HIDE DEF OfClient
  <2> QED
    BY <2>1 DEF IsSchedule
<1> DEFINE x == Nominal(OfClient)
<1> HIDE DEF x
<1>3. x[1] = 150 /\ x[2] = (x[1] * 3) \div 1 /\ x[3] = (x[2] * 3) \div 1 /\ x[4] = (x[3] * 3) \div 1
  BY <1>0, <1>2 DEF x
<1>4. x[1] = 150 /\ x[2] = 450 /\ x[3] = 1350 /\ x[4] = 4050
  BY <1>3
<1>5. y \in {IF z >= 5000 THEN 5000 ELSE z : z \in Jittered(OfClient, x[n])}
  BY <1>1, <1>4 DEF Delay, x
<1>6. \A v \in Int : Jittered(OfClient, v) = {v - (v * 25) \div 100, v, v + (v * 25) \div 100}
  BY <1>1 DEF Jittered
<1>7. y \in DelayAfter(n)
  <2>1. CASE n = 1
    BY <1>4, <1>5, <1>6, <2>1 DEF DelayAfter
  <2>2. CASE n = 2
    BY <1>4, <1>5, <1>6, <2>2 DEF DelayAfter
  <2>3. CASE n = 3
    BY <1>4, <1>5, <1>6, <2>3 DEF DelayAfter
  <2>4. CASE n = 4
    BY <1>4, <1>5, <1>6, <2>4 DEF DelayAfter
  <2> QED
    BY <2>1, <2>2, <2>3, <2>4
<1> QED
  BY <1>7 DEF DelayAfter

\* The schedule goes on with every failure, for it is never started again.
LEMMA WaitsStep ==
  ASSUME DoerTypeOK, Counted, Waits, [Next]_vars PROVE Waits'
<1> SUFFICES ASSUME IsOfClient' PROVE Waits'
  BY DEF Waits
<1>0. d' = d /\ IsOfClient
  BY DEF Next, Loop, Exhausted, NoWait, FallAsleep, Awake, CutSleep, FnSucceeds, FnStops, FnFails,
         FailsEnded, Reschedule, ContextEnds, Over, Return, Call, vars, IsOfClient
<1>1. /\ d.strategy = OfClient /\ ~d.resets /\ d.maxAttempts = 5 /\ Horizon \in Nat /\ 5 <= Horizon
      /\ called \in 0..5 /\ slept \in Nat
  BY <1>0, DoersAssumption, DurationsAssumption
     DEF IsOfClient, DefaultAttempts, DoerTypeOK, Counted
<1>2. \A n \in 1..4 : \A y \in Delay(OfClient, n) : y \in DelayAfter(n) /\ y # 0
  BY <1>1, DelaysOfClient
<1> USE DEF Waits, DefaultAttempts
<1>3. CASE Exhausted \/ CutSleep \/ FailsEnded \/ FnSucceeds
  BY <1>0, <1>1, <1>3 DEF Exhausted, CutSleep, FailsEnded, FnSucceeds, Return, Counted, Bounded
<1>4. CASE FnStops \/ FnFails \/ Reschedule \/ ContextEnds
  BY <1>0, <1>1, <1>4 DEF FnStops, FnFails, Reschedule, ContextEnds
<1>5. CASE NoWait
  <2>1. called = 0
    <3>1. sched = called /\ called \in 0..4 /\ 0 \in Delay(OfClient, sched)
      BY <1>0, <1>1, <1>5 DEF NoWait, Counted, Bounded
    <3> QED
      BY <1>2, <3>1
  <2> QED
    BY <1>0, <1>1, <1>5, <2>1 DEF NoWait, Call, Waited
<1>6. CASE Awake
  BY <1>0, <1>1, <1>6 DEF Awake, Call
<1>7. CASE FallAsleep
  <2>1. /\ sched = called /\ called \in 0..4 /\ delay' \in Delay(OfClient, called) \ {0}
        /\ slept' = slept + delay' /\ pc = "top" /\ pc' = "asleep" /\ called' = called
    BY <1>0, <1>1, <1>7 DEF FallAsleep, Counted, Bounded
  <2>2. called # 0
    BY <2>1 DEF Delay
  <2>3. slept \in Waited(called - 1)
    BY <1>0, <2>1, <2>2
  <2>4. slept' \in Waited(called)
    <3>1. called \in 1..4 /\ delay' \in Delay(OfClient, called)
      BY <2>1, <2>2
    <3>2. delay' \in DelayAfter(called)
      BY <1>2, <3>1
    <3>3. slept + delay' \in Waited(called)
      BY <2>3, <3>1, <3>2, DelaysAdd
    <3> QED
      BY <2>1, <3>3
  <2> QED
    BY <2>1, <2>2, <2>4
<1>8. CASE Over \/ UNCHANGED vars
  BY <1>0, <1>8 DEF Over, vars
<1> QED
  BY <1>3, <1>4, <1>5, <1>6, <1>7, <1>8 DEF Next, Loop

\* The retries of the client's schedule wait about 6s in all, however the
\* delays were drawn.
THEOREM ClientWaits == Spec => []WaitOfCall
<1>1. Init => Waits
  BY DEF Init, Waits, IsOfClient
<1>2. DoerTypeOK /\ Counted /\ Waits /\ [Next]_vars => Waits'
  BY WaitsStep
<1>3. DoerTypeOK /\ Counted /\ Waits => WaitOfCall
  <2> SUFFICES ASSUME DoerTypeOK, Counted, Waits, IsOfClient, called = 5 PROVE slept \in 4500..7500
    BY DEF WaitOfCall, DefaultAttempts
  <2>1. pc # "asleep" /\ pc \in {"top", "asleep", "calling", "failed", "returned"}
    BY DEF Counted, Bounded, IsOfClient, DefaultAttempts, DoerTypeOK
  <2> QED
    BY <2>1 DEF Waits, DefaultAttempts, Waited
<1> QED
  BY <1>1, <1>2, <1>3, Kept, PTL DEF Spec
=============================================================================
