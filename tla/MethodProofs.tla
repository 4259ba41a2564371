---------------------------- MODULE MethodProofs ----------------------------
(***************************************************************************)
(* What the methods of a rollout and of a gate return and preserve, for    *)
(* every bucket function, stage list and limit.                            *)
(***************************************************************************)
EXTENDS RolloutOps, GateOps, FiniteSetTheorems, TLAPS

(* Rollouts.                                                               *)

(* A bucket is a number below one hundred, salted or not.                  *)
LEMMA BucketInRange ==
    ASSUME NEW u \in Subjects, NEW s \in Salts
    PROVE  BucketOf(u, s) \in 0..99
BY BucketAssumption DEF BucketOf

(* With the salt unchanged a larger percentage exposes at least the same   *)
(* subjects (rollout_decision).                                            *)
LEMMA CohortMonotone ==
    ASSUME NEW r \in Rollouts, NEW q \in Rollouts,
           r.salt = q.salt, r.percentage <= q.percentage
    PROVE  Cohort(r) \subseteq Cohort(q)
<1> SUFFICES ASSUME NEW u \in Subjects, Evaluate(r, u).enabled
             PROVE  Evaluate(q, u).enabled
    BY DEF Cohort
<1>1. /\ r.percentage \in 0..100 /\ q.percentage \in 0..100
      /\ r.salt \in Salts
    BY DEF Rollouts, Percent
<1>2. BucketOf(u, r.salt) \in 0..99
    BY <1>1, BucketInRange
<1>3. r.percentage >= 100 \/ BucketOf(u, r.salt) < r.percentage
    BY DEF Evaluate, Decision
<1>4. BucketOf(u, q.salt) = BucketOf(u, r.salt)
    OBVIOUS
<1>5. q.percentage >= 100 \/ BucketOf(u, q.salt) < q.percentage
    <2>1. ASSUME NEW a \in 0..100, NEW b \in 0..100, NEW k \in 0..99,
                 a <= b, a >= 100 \/ k < a
          PROVE  b >= 100 \/ k < b
        BY <2>1
    <2> QED BY <1>1, <1>2, <1>3, <1>4, <2>1
<1> QED BY <1>5 DEF Evaluate, Decision

(* What the methods return is a rollout again: the range check is what     *)
(* keeps the percentage in 0..100.                                         *)
LEMMA OpsTypes ==
    ASSUME NEW r \in Rollouts, NEW p \in Byte, NEW s \in Salts
    PROVE  /\ InRange(p) => NewRollout(p, s) \in Rollouts
           /\ Advanced(r, p) \in Rollouts
           /\ RolledBack(r, p) \in Rollouts
           /\ ExposureReset(r) \in Rollouts
           /\ NewCycle(r, s) \in Rollouts
<1>1. InRange(p) => p \in Percent
    BY DEF InRange, Percent, Byte
<1>2. r.salt \in Salts /\ r.high_water_mark \in Percent
    BY DEF Rollouts
<1>3. InRange(p) => NewRollout(p, s) \in Rollouts
    BY <1>1 DEF NewRollout, Rollouts
<1>4. Advanced(r, p) \in Rollouts
    BY <1>1 DEF Advanced, CanAdvance, Rollouts
<1>5. RolledBack(r, p) \in Rollouts
    BY <1>1 DEF RolledBack, Rollouts
<1>6. 0 \in Percent
    BY DEF Percent
<1>7. ExposureReset(r) \in Rollouts /\ NewCycle(r, s) \in Rollouts
    BY <1>2, <1>6 DEF ExposureReset, NewCycle, Rollouts
<1> QED BY <1>3, <1>4, <1>5, <1>7

LEMMA CohortType == ASSUME NEW r PROVE Cohort(r) \subseteq Subjects
BY DEF Cohort

(* Advancing to the mark itself is accepted and exposes the mark.          *)
LEMMA AdvanceToMark ==
    ASSUME NEW r \in Rollouts
    PROVE  Advanced(r, r.high_water_mark) =
               [r EXCEPT !.percentage = r.high_water_mark]
<1>1. CanAdvance(r, r.high_water_mark)
    BY DEF CanAdvance, InRange, Rollouts, Percent
<1>2. [r EXCEPT !.percentage = r.high_water_mark,
                !.high_water_mark = r.high_water_mark]
        = [r EXCEPT !.percentage = r.high_water_mark]
    BY DEF Rollouts
<1> QED BY <1>1, <1>2 DEF Advanced

-----------------------------------------------------------------------------
(* Gates.                                                                  *)

(* A gate is nothing but its four fields.                                  *)
LEMMA SameFieldsSameGate ==
    ASSUME NEW g \in Gates, NEW h \in Gates,
           g.stages = h.stages, g.failure_limit = h.failure_limit,
           g.consecutive_failures = h.consecutive_failures,
           g.stage_index = h.stage_index
    PROVE  g = h
<1>1. g = [stages |-> g.stages, failure_limit |-> g.failure_limit,
           consecutive_failures |-> g.consecutive_failures,
           stage_index |-> g.stage_index]
    BY DEF Gates
<1>2. h = [stages |-> h.stages, failure_limit |-> h.failure_limit,
           consecutive_failures |-> h.consecutive_failures,
           stage_index |-> h.stage_index]
    BY DEF Gates
<1> QED BY <1>1, <1>2

(* Judging a window yields one of the reasons.                             *)
LEMMA ReasonType ==
    ASSUME NEW s, NEW w
    PROVE  ReasonFor(s, w) \in Reasons
BY DEF ReasonFor, Reasons, Failures, NoEvidence

LEMMA DecisionType ==
    ASSUME NEW g, NEW reason
    PROVE  DecisionFor(g, reason) \in Decisions
BY DEF DecisionFor, Decisions

LEMMA NonEmptyLength ==
    ASSUME NEW T, NEW l \in Seq(T), l # <<>>
    PROVE  Len(l) \in Nat /\ Len(l) >= 1
OBVIOUS

(* A new gate is valid, whatever limit it is given.                        *)
LEMMA NewGateValid ==
    ASSUME NEW r, ValidRelease(r)
    PROVE  /\ ValidGate(NewGate(r.stages, r.failure_limit))
           /\ NewGate(r.stages, r.failure_limit).consecutive_failures = 0
           /\ NewGate(r.stages, r.failure_limit).stage_index = 0
           /\ NewGate(r.stages, r.failure_limit).stages = r.stages
<1>1. /\ r.stages \in Seq(Stages) /\ r.stages # <<>>
      /\ Len(r.stages) \in Nat /\ Len(r.stages) >= 1
    BY NonEmptyLength DEF ValidRelease
<1>2. (IF r.failure_limit < 1 THEN 1 ELSE r.failure_limit) \in 0..MaxStreak
    BY MaxStreakAssumption DEF ValidRelease
<1>3. 0 \in 0..MaxStreak /\ 0 \in Nat
    BY MaxStreakAssumption
<1>4. NewGate(r.stages, r.failure_limit) \in Gates
    BY <1>1, <1>2, <1>3 DEF NewGate, Gates
<1> QED BY <1>1, <1>4 DEF ValidGate, NewGate

(* Below u32::MAX the unchecked addition is the addition of integers.      *)
LEMMA CountUp ==
    ASSUME NEW n \in Nat, n < MaxStreak
    PROVE  (n + 1) % (MaxStreak + 1) = n + 1
BY MaxStreakAssumption

(* A judged window keeps stages, limit and index, and leaves a count below *)
(* u32::MAX: a count that reached the limit has been taken back.           *)
LEMMA ObservedValid ==
    ASSUME NEW g, NEW reason \in Reasons,
           ValidGate(g), g.consecutive_failures < MaxStreak
    PROVE  /\ ValidGate(Observed(g, reason))
           /\ Observed(g, reason).consecutive_failures < MaxStreak
           /\ Observed(g, reason).stages = g.stages
           /\ Observed(g, reason).stage_index = g.stage_index
           /\ CountAfter(g, reason) \in 0..MaxStreak
<1> DEFINE c == g.consecutive_failures
           n == IF DecisionFor(g, reason) = "Rollback" THEN 0
                ELSE CountAfter(g, reason)
<1>1. c \in Nat /\ c < MaxStreak /\ g.failure_limit \in 0..MaxStreak
    BY MaxStreakAssumption DEF ValidGate, Gates
<1>2. CountAfter(g, reason) =
          IF reason \in Failures THEN c + 1
          ELSE IF reason = "Healthy" THEN 0 ELSE c
    BY <1>1, CountUp DEF CountAfter
<1>3. CountAfter(g, reason) \in 0..MaxStreak
    BY <1>1, <1>2, MaxStreakAssumption
<1>4. ASSUME reason \in Failures
      PROVE  n \in 0..MaxStreak /\ n < MaxStreak
    <2>1. reason # "Healthy" /\ CountAfter(g, reason) = c + 1
        BY <1>2, <1>4 DEF Failures
    <2>2. CASE c + 1 >= g.failure_limit
        <3>1. n = 0
            BY <1>4, <2>1, <2>2 DEF DecisionFor
        <3> QED BY <3>1, MaxStreakAssumption
    <2>3. CASE ~(c + 1 >= g.failure_limit)
        <3>1. n = c + 1
            BY <1>4, <2>1, <2>3 DEF DecisionFor
        <3> QED BY <3>1, <1>1, <2>3, MaxStreakAssumption
    <2> QED BY <2>2, <2>3
<1>5. ASSUME reason \notin Failures
      PROVE  n \in 0..MaxStreak /\ n < MaxStreak
    <2>1. n \in {0, c}
        BY <1>2, <1>5
    <2> QED BY <2>1, <1>1, MaxStreakAssumption
<1>6. n \in 0..MaxStreak /\ n < MaxStreak
    BY <1>4, <1>5
<1>7. /\ Observed(g, reason) = [g EXCEPT !.consecutive_failures = n]
      /\ g \in Gates
    BY DEF Observed, ValidGate
<1> HIDE DEF n
<1>8. /\ Observed(g, reason) \in Gates
      /\ Observed(g, reason).consecutive_failures = n
      /\ Observed(g, reason).stages = g.stages
      /\ Observed(g, reason).stage_index = g.stage_index
    BY <1>6, <1>7 DEF Gates
<1> QED BY <1>3, <1>6, <1>8 DEF ValidGate

(* Advancing stays within the stages and leaves the count alone.           *)
LEMMA NextStageValid ==
    ASSUME NEW g, ValidGate(g)
    PROVE  /\ ValidGate(NextStage(g))
           /\ NextStage(g).consecutive_failures = g.consecutive_failures
           /\ NextStage(g).stages = g.stages
           /\ ~IsComplete(g) => NextStage(g).stage_index = g.stage_index + 1
<1>1. /\ g \in Gates /\ g.stage_index \in Nat
      /\ Len(g.stages) \in Nat
    BY NonEmptyLength DEF ValidGate, Gates
<1>2. CASE IsComplete(g)
    BY <1>2 DEF NextStage
<1>3. CASE ~IsComplete(g)
    <2>1. g.stage_index + 1 < Len(g.stages) /\ g.stage_index + 1 \in Nat
        BY <1>1, <1>3 DEF IsComplete
    <2>2. NextStage(g) = [g EXCEPT !.stage_index = g.stage_index + 1]
        BY <1>3 DEF NextStage
    <2>3. /\ NextStage(g) \in Gates
          /\ NextStage(g).stage_index = g.stage_index + 1
          /\ NextStage(g).stages = g.stages
          /\ NextStage(g).consecutive_failures = g.consecutive_failures
        BY <1>1, <2>1, <2>2 DEF Gates
    <2> QED BY <2>1, <2>3 DEF ValidGate
<1> QED BY <1>2, <1>3

LEMMA RestartedValid ==
    ASSUME NEW g, ValidGate(g)
    PROVE  /\ ValidGate(Restarted(g))
           /\ Restarted(g).consecutive_failures = 0
           /\ Restarted(g).stage_index = 0
           /\ Restarted(g).stages = g.stages
<1>1. /\ g \in Gates /\ Len(g.stages) \in Nat /\ Len(g.stages) >= 1
    BY NonEmptyLength DEF ValidGate, Gates
<1>2. 0 \in 0..MaxStreak /\ 0 \in Nat
    BY MaxStreakAssumption
<1>3. /\ Restarted(g) \in Gates
      /\ Restarted(g).consecutive_failures = 0
      /\ Restarted(g).stage_index = 0
      /\ Restarted(g).stages = g.stages
    BY <1>1, <1>2 DEF Restarted, Gates
<1> QED BY <1>1, <1>3 DEF ValidGate

(* A clamped index is a valid one.                                         *)
LEMMA ClampValid ==
    ASSUME NEW l \in Seq(Stages), l # <<>>, NEW i \in Nat
    PROVE  /\ Clamp(i, l) \in Nat
           /\ Clamp(i, l) < Len(l)
           /\ i < Len(l) => Clamp(i, l) = i
<1>1. Len(l) \in Nat /\ Len(l) >= 1
    BY NonEmptyLength
<1> QED BY <1>1 DEF Clamp, LastIndex

(* Restoring any index and any recorded count gives a valid gate, of any   *)
(* release.                                                                *)
LEMMA RestoredValid ==
    ASSUME NEW g, ValidGate(g), NEW i \in Nat, NEW n \in 0..MaxStreak
    PROVE  /\ ValidGate(RestoreStreak(RestoreStage(g, i), n))
           /\ RestoreStreak(RestoreStage(g, i), n).consecutive_failures = n
           /\ RestoreStreak(RestoreStage(g, i), n).stage_index = Clamp(i, g.stages)
           /\ RestoreStreak(RestoreStage(g, i), n).stages = g.stages
           /\ RestoreStreak(RestoreStage(g, i), n).failure_limit = g.failure_limit
<1>1. /\ g \in Gates
      /\ Clamp(i, g.stages) \in Nat
      /\ Clamp(i, g.stages) < Len(g.stages)
    BY ClampValid DEF ValidGate, Gates
<1>2. /\ RestoreStage(g, i) \in Gates
      /\ RestoreStage(g, i).stage_index = Clamp(i, g.stages)
      /\ RestoreStage(g, i).stages = g.stages
      /\ RestoreStage(g, i).failure_limit = g.failure_limit
    BY <1>1 DEF RestoreStage, Gates
<1>3. /\ RestoreStreak(RestoreStage(g, i), n) \in Gates
      /\ RestoreStreak(RestoreStage(g, i), n).consecutive_failures = n
      /\ RestoreStreak(RestoreStage(g, i), n).stage_index = Clamp(i, g.stages)
      /\ RestoreStreak(RestoreStage(g, i), n).stages = g.stages
      /\ RestoreStreak(RestoreStage(g, i), n).failure_limit = g.failure_limit
    BY <1>2 DEF RestoreStreak, Gates
<1> QED BY <1>1, <1>3 DEF ValidGate

(* The stage a valid gate stands at is one of its stages.                  *)
LEMMA StageOfType ==
    ASSUME NEW g, ValidGate(g)
    PROVE  /\ StageOf(g) = g.stages[g.stage_index + 1]
           /\ g.stage_index + 1 \in 1..Len(g.stages)
           /\ StageOf(g) \in Stages
<1>1. /\ g.stages \in Seq(Stages) /\ g.stages # <<>>
      /\ g.stage_index \in Nat /\ g.stage_index < Len(g.stages)
    BY DEF ValidGate, Gates
<1>2. Clamp(g.stage_index, g.stages) = g.stage_index
    BY <1>1, ClampValid
<1>3. g.stage_index + 1 \in 1..Len(g.stages)
    BY <1>1, NonEmptyLength
<1>4. g.stages[g.stage_index + 1] \in Stages
    BY <1>1, <1>3
<1> QED BY <1>2, <1>3, <1>4 DEF StageOf

-----------------------------------------------------------------------------
(* Among natural numbers there is a least: the intervals that end in them  *)
(* are finite, and ordered by inclusion.                                   *)
LEMMA LeastNatural ==
    ASSUME NEW S \in SUBSET Nat, S # {}
    PROVE  \E m \in S : \A n \in S : m <= n
<1> DEFINE I == {0..n : n \in S}
<1>1. I # {} /\ I \subseteq FiniteSubsetsOf(Nat)
    <2>1. ASSUME NEW n \in S
          PROVE  0..n \in FiniteSubsetsOf(Nat)
        BY FS_Interval DEF FiniteSubsetsOf
    <2> QED BY <2>1
<1> HIDE DEF I
<1>2. \E x \in I : \A y \in I : ~ (<<y, x>> \in StrictSubsetOrdering(Nat))
    BY <1>1, FS_StrictSubsetOrderingWellFounded, WFMin
<1>3. PICK x \in I : \A y \in I : ~ (<<y, x>> \in StrictSubsetOrdering(Nat))
    BY <1>2
<1>4. PICK m \in S : x = 0..m
    BY <1>3 DEF I
<1>5. ASSUME NEW n \in S, n < m
      PROVE  FALSE
    <2>1. 0..n \subseteq x /\ m \in x /\ m \notin 0..n
        BY <1>4, <1>5
    <2>2. 0..n \in SUBSET Nat /\ x \in SUBSET Nat
        BY <1>4
    <2>3. 0..n \in I
        BY DEF I
    <2> QED BY <1>3, <2>1, <2>2, <2>3 DEF StrictSubsetOrdering
<1> QED BY <1>5

(* Two natural numbers have a common bound.                                *)
LEMMA CommonBound ==
    ASSUME NEW x \in Nat, NEW y \in Nat
    PROVE  \E c \in Nat : x <= c /\ y <= c
<1>1. CASE x <= y
    BY <1>1
<1>2. CASE y < x
    BY <1>2
<1> QED BY <1>1, <1>2

(* A sequence of natural numbers has an upper bound.                       *)
LEMMA Bounded ==
    ASSUME NEW l \in Seq(Nat)
    PROVE  \E b \in Nat : \A i \in DOMAIN l : l[i] <= b
<1> DEFINE IsBound(k, b) == \A i \in 1..k : l[i] <= b
           Unbounded == {k \in 0..Len(l) : ~ \E b \in Nat : IsBound(k, b)}
<1>1. /\ Len(l) \in Nat /\ DOMAIN l = 1..Len(l)
      /\ \A i \in DOMAIN l : l[i] \in Nat
    OBVIOUS
<1>2. ASSUME Unbounded # {}
      PROVE  FALSE
    <2>1. Unbounded \in SUBSET Nat
        BY <1>1
    <2>2. PICK k \in Unbounded : \A j \in Unbounded : k <= j
        <3> HIDE DEF Unbounded
        <3> QED BY <1>2, <2>1, LeastNatural
    <2>3. k \in 0..Len(l) /\ ~ \E b \in Nat : IsBound(k, b)
        BY <2>2
    <2>4. k # 0
        <3>1. ASSUME k = 0 PROVE IsBound(k, 0)
            BY <3>1
        <3> HIDE DEF IsBound
        <3> QED BY <2>3, <3>1
    <2>5. k \in 1..Len(l) /\ k - 1 \in 0..Len(l) /\ k - 1 < k
        BY <1>1, <2>3, <2>4
    <2>6. k - 1 \notin Unbounded
        <3> HIDE DEF Unbounded
        <3>1. k \in Nat
            BY <2>1, <2>2
        <3> QED BY <2>2, <2>5, <3>1
    <2>7. PICK b \in Nat : IsBound(k - 1, b)
        BY <2>5, <2>6
    <2>8. l[k] \in Nat
        BY <1>1, <2>5
    <2>9. \E c \in Nat : b <= c /\ l[k] <= c
        <3> HIDE DEF IsBound, Unbounded
        <3> QED BY <2>8, CommonBound
    <2>10. PICK c \in Nat : b <= c /\ l[k] <= c
        BY <2>9
    <2>11. ASSUME NEW i \in 1..k
           PROVE  l[i] <= c
        <3>1. i \in 1..(k - 1) \/ i = k
            BY <1>1, <2>5
        <3>2. i \in DOMAIN l
            BY <1>1, <2>5
        <3>3. l[i] \in Nat
            BY <1>1, <3>2
        <3>4. CASE i \in 1..(k - 1)
            <4>1. l[i] <= b
                BY <2>7, <3>4
            <4> HIDE DEF IsBound, Unbounded
            <4> QED BY <2>10, <3>3, <4>1
        <3>5. CASE i = k
            BY <2>10, <3>5
        <3> QED BY <3>1, <3>4, <3>5
    <2>12. IsBound(k, c)
        BY <2>11
    <2> HIDE DEF IsBound
    <2> QED BY <2>3, <2>10, <2>12
<1>3. PICK b \in Nat : IsBound(Len(l), b)
    <2> HIDE DEF IsBound
    <2>1. Len(l) \in 0..Len(l)
        BY <1>1
    <2> QED BY <1>2, <2>1
<1> QED BY <1>1, <1>3

(* The samples up to a value, and those beyond it.                         *)
UpTo(l, v) == {i \in DOMAIN l : l[i] <= v}
Below(l, v) == {i \in DOMAIN l : l[i] < v}
Beyond(l, v) == {i \in DOMAIN l : l[i] > v}

LEMMA SampleCounts ==
    ASSUME NEW l \in Seq(Nat), NEW v \in Int
    PROVE  /\ IsFiniteSet(UpTo(l, v)) /\ Cardinality(UpTo(l, v)) \in Nat
           /\ IsFiniteSet(Below(l, v)) /\ Cardinality(Below(l, v)) \in Nat
           /\ Cardinality(Beyond(l, v)) = Len(l) - Cardinality(UpTo(l, v))
<1>1. /\ DOMAIN l = 1..Len(l) /\ Len(l) \in Nat
      /\ IsFiniteSet(DOMAIN l) /\ Cardinality(DOMAIN l) = Len(l)
    <2>1. DOMAIN l = 1..Len(l) /\ Len(l) \in Nat
        OBVIOUS
    <2> QED BY <2>1, FS_Interval
<1>2. UpTo(l, v) \in SUBSET (DOMAIN l) /\ Below(l, v) \in SUBSET (DOMAIN l)
    BY DEF UpTo, Below
<1>3. /\ IsFiniteSet(UpTo(l, v)) /\ IsFiniteSet(Below(l, v))
    BY <1>1, <1>2, FS_Subset
<1>4. Cardinality(UpTo(l, v)) \in Nat /\ Cardinality(Below(l, v)) \in Nat
    BY <1>3, FS_CardinalityType
<1>5. \A i \in DOMAIN l : l[i] \in Nat
    OBVIOUS
<1>6. Beyond(l, v) = DOMAIN l \ UpTo(l, v) /\ DOMAIN l \cap UpTo(l, v) = UpTo(l, v)
    BY <1>5 DEF UpTo, Beyond
<1> QED BY <1>1, <1>3, <1>4, <1>6, FS_Difference

(* The nearest rank is that of a sample, one per cent from the top.        *)
LEMMA RankBounds ==
    ASSUME NEW n \in Nat, n > 0
    PROVE  /\ P99Rank(n) \in 1..n
           /\ 100 * P99Rank(n) >= 99 * n
           /\ 100 * P99Rank(n) <= 99 * n + 99
BY DEF P99Rank

(* The percentile is one of the samples: fewer than its rank lie below it, *)
(* at least as many do not exceed it.                                      *)
LEMMA PercentileIsSample ==
    ASSUME NEW l \in Seq(Nat), l # <<>>
    PROVE  /\ P99(l) \in {l[i] : i \in DOMAIN l}
           /\ Cardinality(Below(l, P99(l))) < P99Rank(Len(l))
           /\ P99Rank(Len(l)) <= Cardinality(UpTo(l, P99(l)))
<1> DEFINE rank == P99Rank(Len(l))
           Reach == {v \in Nat : rank <= Cardinality(UpTo(l, v))}
<1>1. /\ Len(l) \in Nat /\ Len(l) > 0
      /\ DOMAIN l = 1..Len(l)
      /\ \A i \in DOMAIN l : l[i] \in Nat
    OBVIOUS
<1>2. rank \in 1..Len(l)
    BY <1>1, RankBounds
<1> HIDE DEF rank
<1>3. Reach # {}
    <2>1. PICK b \in Nat : \A i \in DOMAIN l : l[i] <= b
        BY Bounded
    <2>2. UpTo(l, b) = 1..Len(l)
        BY <1>1, <2>1 DEF UpTo
    <2>3. Cardinality(UpTo(l, b)) = Len(l)
        BY <1>1, <2>2, FS_Interval
    <2> QED BY <1>1, <1>2, <2>3
<1>4. PICK v \in Reach : \A u \in Reach : v <= u
    BY <1>3, LeastNatural
<1>5. v \in Nat /\ rank <= Cardinality(UpTo(l, v))
    BY <1>4
<1>6. Cardinality(Below(l, v)) < rank
    <2>1. CASE v = 0
        <3>1. Below(l, v) = {}
            BY <1>1, <2>1 DEF Below
        <3> QED BY <1>2, <3>1, FS_EmptySet
    <2>2. CASE v > 0
        <3>1. v - 1 \in Nat /\ v - 1 \notin Reach
            BY <1>4, <1>5, <2>2
        <3>2. Below(l, v) = UpTo(l, v - 1)
            BY <1>1, <1>5 DEF Below, UpTo
        <3> QED BY <1>2, <3>1, <3>2, SampleCounts
    <2> QED BY <1>5, <2>1, <2>2
<1>7. v \in {l[i] : i \in DOMAIN l}
    <2>1. ASSUME v \notin {l[i] : i \in DOMAIN l}
          PROVE  FALSE
        <3>1. Below(l, v) = UpTo(l, v)
            BY <1>1, <1>5, <2>1 DEF Below, UpTo
        <3> QED BY <1>2, <1>5, <1>6, <3>1, SampleCounts
    <2> QED BY <2>1
<1> QED BY <1>5, <1>6, <1>7 DEF P99, Below, UpTo, rank

(* The percentile exceeds a ceiling exactly when more than one sample in a *)
(* hundred does.                                                           *)
LEMMA PercentileIsTail ==
    ASSUME NEW l \in Seq(Nat), l # <<>>, NEW c \in Nat
    PROVE  P99(l) > c <=> 100 * Cardinality(Beyond(l, c)) > Len(l)
<1> DEFINE v == P99(l)
           rank == P99Rank(Len(l))
<1>1. /\ Len(l) \in Nat /\ Len(l) > 0
      /\ DOMAIN l = 1..Len(l)
      /\ \A i \in DOMAIN l : l[i] \in Nat
    OBVIOUS
<1>2. /\ rank \in 1..Len(l)
      /\ 100 * rank >= 99 * Len(l) /\ 100 * rank <= 99 * Len(l) + 99
    BY <1>1, RankBounds
<1>3. /\ v \in Nat
      /\ Cardinality(Below(l, v)) < rank
      /\ rank <= Cardinality(UpTo(l, v))
    BY <1>1, PercentileIsSample
<1> HIDE DEF v, rank
<1>4. /\ Cardinality(UpTo(l, c)) \in Nat
      /\ Cardinality(Beyond(l, c)) = Len(l) - Cardinality(UpTo(l, c))
      /\ IsFiniteSet(UpTo(l, c))
    <2>1. c \in Int
        OBVIOUS
    <2> QED BY <2>1, SampleCounts
<1>5. ASSUME v > c
      PROVE  100 * Cardinality(Beyond(l, c)) > Len(l)
    <2>1. UpTo(l, c) \in SUBSET Below(l, v)
        BY <1>1, <1>3, <1>5 DEF UpTo, Below
    <2>2. Cardinality(UpTo(l, c)) <= Cardinality(Below(l, v))
        BY <1>3, <2>1, SampleCounts, FS_Subset
    <2>3. Cardinality(Below(l, v)) \in Nat
        BY <1>3, SampleCounts
    <2> QED BY <1>1, <1>2, <1>3, <1>4, <2>2, <2>3
<1>6. ASSUME v <= c
      PROVE  ~ (100 * Cardinality(Beyond(l, c)) > Len(l))
    <2>1. UpTo(l, v) \in SUBSET UpTo(l, c)
        BY <1>1, <1>3, <1>6 DEF UpTo
    <2>2. Cardinality(UpTo(l, v)) <= Cardinality(UpTo(l, c))
        BY <1>4, <2>1, FS_Subset
    <2>3. Cardinality(UpTo(l, v)) \in Nat
        BY <1>3, SampleCounts
    <2> QED BY <1>1, <1>2, <1>3, <1>4, <2>2, <2>3
<1> QED BY <1>3, <1>5, <1>6 DEF v
=============================================================================
