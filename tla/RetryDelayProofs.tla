--------------------------- MODULE RetryDelayProofs ---------------------------
(***************************************************************************)
(* Theorems about RetryDelay, for every policy the table accepts and any   *)
(* number of attempts.                                                     *)
(***************************************************************************)
EXTENDS RetryDelay, FiniteSetTheorems, WellFoundedInduction, TLAPS

-----------------------------------------------------------------------------
(* Powers *)

\* A set with one more element has twice as many subsets, which is what the
\* library has to say of powers.
LEMMA PowerDoubles ==
    ASSUME NEW n \in Nat
    PROVE  2^n \in Nat /\ 2^(n + 1) = 2 * 2^n
  <1> DEFINE S == 1 .. n
             Without == SUBSET S
             With == {A \cup {n + 1} : A \in Without}
             f == [A \in Without |-> A \cup {n + 1}]
  <1>1. /\ IsFiniteSet(S) /\ Cardinality(S) = n
        /\ IsFiniteSet(1 .. n + 1) /\ Cardinality(1 .. n + 1) = n + 1
    BY FS_Interval
  <1>2. /\ IsFiniteSet(Without) /\ Cardinality(Without) = 2^n
        /\ Cardinality(SUBSET (1 .. n + 1)) = 2^(n + 1)
    BY <1>1, FS_SUBSET
  <1>3. Cardinality(Without) \in Nat
    BY <1>2, FS_CardinalityType
  <1>4. IsFiniteSet(With) /\ Cardinality(With) = Cardinality(Without)
    <2>1. f \in Bijection(Without, With)
      <3>1. ASSUME NEW A \in Without, NEW B \in Without, f[A] = f[B] PROVE A = B
        <4>1. n + 1 \notin A /\ n + 1 \notin B
          OBVIOUS
        <4>2. A \cup {n + 1} = B \cup {n + 1}
          BY <3>1
        <4>3. QED
          BY <4>1, <4>2
      <3>2. f \in [Without -> With] /\ \A B \in With : \E A \in Without : f[A] = B
        OBVIOUS
      <3>3. QED
        BY <3>1, <3>2 DEF Bijection, Injection, Surjection, IsInjective
    <2>2. QED
      BY <1>2, <2>1, FS_Bijection DEF ExistsBijection
  <1>5. SUBSET (1 .. n + 1) = Without \cup With
    <2>1. ASSUME NEW A \in SUBSET (1 .. n + 1) PROVE A \in Without \cup With
      <3>1. CASE n + 1 \in A
        <4>1. A \ {n + 1} \in Without /\ A = (A \ {n + 1}) \cup {n + 1}
          BY <3>1
        <4>2. QED
          BY <4>1
      <3>2. CASE n + 1 \notin A
        BY <3>2
      <3>3. QED
        BY <3>1, <3>2
    <2>2. ASSUME NEW A \in Without PROVE A \in SUBSET (1 .. n + 1)
                                      /\ A \cup {n + 1} \in SUBSET (1 .. n + 1)
      OBVIOUS
    <2>3. Without \subseteq SUBSET (1 .. n + 1) /\ With \subseteq SUBSET (1 .. n + 1)
      BY <2>2
    <2> HIDE DEF Without, With
    <2>4. QED
      BY <2>1, <2>3, Zenon
  <1>6. Without \cap With = {} /\ Cardinality({}) = 0
    BY FS_EmptySet
  <1> HIDE DEF Without, With
  <1>7. Cardinality(Without \cup With) = Cardinality(Without) + Cardinality(With)
    <2>1. Cardinality(Without \cup With)
            = Cardinality(Without) + Cardinality(With) - Cardinality(Without \cap With)
      BY <1>2, <1>4, FS_Union
    <2>2. QED
      BY <1>3, <1>4, <1>6, <2>1
  <1>8. Cardinality(Without \cup With) = 2^(n + 1)
    BY <1>2, <1>5
  <1>9. QED
    BY <1>2, <1>3, <1>4, <1>7, <1>8

-----------------------------------------------------------------------------
(* The schedule and its closed forms *)

Grown(f, n) ==
    CASE policy.strategy = "fixed" -> f[n - 1]
      [] policy.strategy = "linear" -> f[n - 1] + 2 * policy.base
      [] policy.strategy = "exponential" -> 2 * f[n - 1]

\* The definition of Schedule, as a property of a function.
IsSchedule(f) ==
    f = [n \in Nat |-> IF n <= 1 THEN 2 * policy.base
                       ELSE IF Grown(f, n) <= 2 * policy.cap THEN Grown(f, n)
                            ELSE 2 * policy.cap]

\* The delays the code computes, attempt by attempt.
Closed == [n \in Nat |-> IF n = 0 THEN 2 * policy.base ELSE Delay(n)]

LEMMA RawDelayIsNat ==
    ASSUME policy \in Policy, NEW n \in Nat
    PROVE  /\ policy.base \in Nat /\ policy.cap \in Nat /\ policy.base <= policy.cap
           /\ policy.strategy \in Strategy
           /\ RawDelay(policy.strategy, n, policy.base) \in Nat
           /\ Delay(n) \in Nat /\ Delay(n) <= 2 * policy.cap
  <1>1. /\ policy.base \in Nat /\ policy.cap \in Nat /\ policy.base <= policy.cap
        /\ policy.strategy \in Strategy
    BY BoundsAssumption DEF Policy
  <1>2. 2 * policy.base * n \in Nat /\ 2^n \in Nat
    BY <1>1, PowerDoubles
  <1>3. policy.base * 2^n \in Nat
    BY <1>1, <1>2
  <1>4. RawDelay(policy.strategy, n, policy.base) \in Nat
    BY <1>1, <1>2, <1>3
       DEF RawDelay, Strategy, FixedDelay, LinearDelay, ExponentialDelay
  <1>5. QED
    BY <1>1, <1>4 DEF Delay, CalculateRetryDelay, Capped

\* The first retry comes after base_delay_sec whatever the strategy.
LEMMA FirstDelayIsBase ==
    ASSUME policy \in Policy
    PROVE  Delay(1) = 2 * policy.base
  <1>1. 2^1 = 2
    <2>1. 2^0 = 1 /\ 2^(0 + 1) = 2 * 2^0
      BY PowerDoubles
    <2>2. QED
      BY <2>1
  <1>2. RawDelay(policy.strategy, 1, policy.base) = 2 * policy.base
    BY <1>1, RawDelayIsNat DEF RawDelay, Strategy, FixedDelay, LinearDelay, ExponentialDelay
  <1>3. QED
    BY <1>2, RawDelayIsNat DEF Delay, CalculateRetryDelay, Capped

\* From one attempt to the next: the raw delay stays, is longer by the base, or
\* doubles.
LEMMA RawDelayGrows ==
    ASSUME policy \in Policy, NEW n \in Nat
    PROVE  LET raw == RawDelay(policy.strategy, n, policy.base)
               next == RawDelay(policy.strategy, n + 1, policy.base)
           IN  /\ policy.strategy = "fixed" => next = raw
               /\ policy.strategy = "linear" => next = raw + 2 * policy.base
               /\ policy.strategy = "exponential" => next = 2 * raw
  <1>1. policy.base \in Nat
    BY RawDelayIsNat
  <1>2. 2 * policy.base * (n + 1) = 2 * policy.base * n + 2 * policy.base
    <2>1. \A a \in Nat : a * (n + 1) = a * n + a
      OBVIOUS
    <2>2. 2 * policy.base \in Nat
      BY <1>1
    <2>3. QED
      BY <2>1, <2>2
  <1>3. policy.base * 2^(n + 1) = 2 * (policy.base * 2^n)
    <2>1. \A b, p \in Nat : b * (2 * p) = 2 * (b * p)
      OBVIOUS
    <2>2. QED
      BY <1>1, <2>1, PowerDoubles
  <1>4. QED
    BY <1>2, <1>3 DEF RawDelay, FixedDelay, LinearDelay, ExponentialDelay

\* Capping each delay by itself gives what capping all along the way gives.
LEMMA ClosedIsSchedule == policy \in Policy => IsSchedule(Closed)
  <1> SUFFICES ASSUME policy \in Policy, NEW n \in Nat
               PROVE  Closed[n] = IF n <= 1 THEN 2 * policy.base
                                  ELSE IF Grown(Closed, n) <= 2 * policy.cap
                                       THEN Grown(Closed, n) ELSE 2 * policy.cap
    BY DEF IsSchedule, Closed
  <1>1. CASE n <= 1
    BY <1>1, FirstDelayIsBase DEF Closed
  <1>2. CASE n > 1
    <2> DEFINE raw == RawDelay(policy.strategy, n - 1, policy.base)
               next == RawDelay(policy.strategy, n, policy.base)
    <2>1. n - 1 \in Nat /\ n - 1 # 0 /\ (n - 1) + 1 = n /\ ~(n <= 1)
      BY <1>2
    <2>2. Closed[n] = Capped(next, policy.cap) /\ Closed[n - 1] = Capped(raw, policy.cap)
      BY <2>1 DEF Closed, Delay, CalculateRetryDelay
    <2>3. /\ policy.strategy = "fixed" => next = raw
          /\ policy.strategy = "linear" => next = raw + 2 * policy.base
          /\ policy.strategy = "exponential" => next = 2 * raw
      BY <2>1, RawDelayGrows
    <2>4. /\ raw \in Nat /\ next \in Nat /\ policy.base \in Nat /\ policy.cap \in Nat
          /\ policy.strategy \in Strategy
      BY <2>1, RawDelayIsNat
    <2> HIDE DEF raw, next
    <2>5. QED
      BY <2>1, <2>2, <2>3, <2>4 DEF Grown, Capped, Strategy
  <1>3. QED
    BY <1>1, <1>2

LEMMA ScheduleIsSchedule == policy \in Policy => IsSchedule(Schedule)
  BY ClosedIsSchedule DEF Schedule, IsSchedule, Grown

\* There is one schedule only, or there would be a first attempt at which two
\* differ.
LEMMA SchedulesAreEqual ==
    ASSUME policy \in Policy, NEW f, NEW g, IsSchedule(f), IsSchedule(g), NEW n \in Nat
    PROVE  f[n] = g[n]
  <1> DEFINE Differ == {m \in Nat : f[m] # g[m]}
  <1> SUFFICES ASSUME Differ # {} PROVE FALSE
    BY Zenon
  <1>1. PICK m \in Differ : \A k \in Differ : ~(<<k, m>> \in OpToRel(<, Nat))
    BY NatLessThanWellFounded, WFMin
  <1>2. CASE m <= 1
    BY <1>2 DEF IsSchedule
  <1>3. CASE m > 1
    <2>1. m \in Nat /\ m - 1 \in Nat /\ m - 1 < m
      BY <1>3
    <2>2. f[m - 1] = g[m - 1]
      BY <1>1, <2>1 DEF OpToRel
    <2>3. Grown(f, m) = Grown(g, m)
      BY <2>2, Zenon DEF Grown
    <2>4. f[m] = g[m]
      BY <2>1, <2>3 DEF IsSchedule
    <2>5. QED
      BY <2>4
  <1>4. QED
    BY <1>2, <1>3

-----------------------------------------------------------------------------
DelayInv == policy \in Policy /\ attempt \in Nat

LEMMA DelayInvHolds == Spec => []DelayInv
  <1>1. Init => DelayInv
    BY DEF Init, DelayInv
  <1>2. DelayInv /\ [FailAgain]_vars => DelayInv'
    BY DEF DelayInv, FailAgain, vars, Policy
  <1>3. QED
    BY <1>1, <1>2, PTL DEF Spec

\* The closed form of each strategy gives the schedule of the comments of
\* RetryPolicy at every attempt, before and after the cap is reached.
THEOREM DelaysAreScheduled == Spec => []DelayFollowsSchedule
  <1>1. DelayInv => DelayFollowsSchedule
    <2> SUFFICES ASSUME DelayInv, attempt >= 1 PROVE Delay(attempt) = Schedule[attempt]
      BY DEF DelayFollowsSchedule
    <2>1. Closed[attempt] = Schedule[attempt]
      BY ClosedIsSchedule, ScheduleIsSchedule, SchedulesAreEqual DEF DelayInv
    <2>2. QED
      BY <2>1 DEF Closed, DelayInv
  <1>2. QED
    BY <1>1, DelayInvHolds, PTL

\* A job that keeps failing waits as long as before or longer, and never longer
\* than max_delay_sec.
THEOREM DelaysNeverShrink == Spec => DelayNeverShrinks
  <1>1. ASSUME DelayInv, [FailAgain]_vars
        PROVE  [/\ Delay(attempt) <= Delay(attempt')
                /\ Delay(attempt') <= 2 * policy.cap]_vars
    <2> SUFFICES ASSUME FailAgain
                 PROVE  /\ Delay(attempt) <= Delay(attempt')
                        /\ Delay(attempt') <= 2 * policy.cap
      BY <1>1
    <2> DEFINE raw == RawDelay(policy.strategy, attempt, policy.base)
               next == RawDelay(policy.strategy, attempt + 1, policy.base)
    <2>1. policy \in Policy /\ attempt \in Nat /\ attempt + 1 \in Nat
          /\ attempt' = attempt + 1
      BY <1>1 DEF DelayInv, FailAgain
    <2>2. /\ raw \in Nat /\ next \in Nat /\ policy.base \in Nat /\ policy.cap \in Nat
          /\ policy.strategy \in Strategy /\ Delay(attempt') <= 2 * policy.cap
      BY <2>1, RawDelayIsNat
    <2>3. /\ policy.strategy = "fixed" => next = raw
          /\ policy.strategy = "linear" => next = raw + 2 * policy.base
          /\ policy.strategy = "exponential" => next = 2 * raw
      BY <2>1, RawDelayGrows
    <2>4. /\ Delay(attempt) = Capped(raw, policy.cap)
          /\ Delay(attempt') = Capped(next, policy.cap)
      BY <2>1 DEF Delay, CalculateRetryDelay
    <2> HIDE DEF raw, next
    <2>5. raw <= next
      BY <2>2, <2>3 DEF Strategy
    <2>6. QED
      BY <2>2, <2>4, <2>5 DEF Capped
  <1>2. QED
    BY <1>1, DelayInvHolds, PTL DEF Spec, DelayNeverShrinks
=============================================================================
