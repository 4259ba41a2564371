-------------------------- MODULE HealthGateProofs --------------------------
(***************************************************************************)
(* Proofs about HealthGate for every set of releases, limits and windows,  *)
(* every number of crashes and every length of history.                    *)
(***************************************************************************)
EXTENDS HealthGate, MethodProofs

(* A history has one number of trailing failures.                          *)
LEMMA TrailingUnique ==
    ASSUME NEW l \in Seq({"fail", "pass"}), NEW k, IsTrailing(l, k)
    PROVE  TrailingFailures(l) = k
<1>1. Len(l) \in Nat /\ k \in 0..Len(l)
    BY DEF IsTrailing
<1>2. ASSUME NEW a \in 0..Len(l), NEW b \in 0..Len(l),
             IsTrailing(l, a), IsTrailing(l, b), a < b
      PROVE  FALSE
    <2>1. /\ l[Len(l) - a] # "fail"
          /\ Len(l) - a \in (Len(l) - b + 1)..Len(l)
        BY <1>1, <1>2 DEF IsTrailing
    <2> QED BY <1>2, <2>1 DEF IsTrailing
<1>3. ASSUME NEW j \in 0..Len(l), IsTrailing(l, j)
      PROVE  j = k
    <2>1. ~(j < k) /\ ~(k < j)
        BY <1>1, <1>2, <1>3
    <2> QED BY <1>1, <2>1
<1> QED BY <1>1, <1>3 DEF TrailingFailures

LEMMA TrailingEmpty == IsTrailing(<<>>, 0)
BY DEF IsTrailing

(* One more failing window adds one, a healthy one starts from zero.       *)
LEMMA TrailingAppend ==
    ASSUME NEW l \in Seq({"fail", "pass"}), NEW k, IsTrailing(l, k)
    PROVE  /\ IsTrailing(Append(l, "fail"), k + 1)
           /\ IsTrailing(Append(l, "pass"), 0)
<1>1. Len(l) \in Nat /\ k \in 0..Len(l)
    BY DEF IsTrailing
<1>2. ASSUME NEW x \in {"fail", "pass"}
      PROVE  /\ Len(Append(l, x)) = Len(l) + 1
             /\ Append(l, x)[Len(l) + 1] = x
             /\ \A i \in 1..Len(l) : Append(l, x)[i] = l[i]
    OBVIOUS
<1>3. IsTrailing(Append(l, "fail"), k + 1)
    <2> DEFINE m == Append(l, "fail")
    <2>1. /\ Len(m) = Len(l) + 1 /\ m[Len(l) + 1] = "fail"
          /\ \A i \in 1..Len(l) : m[i] = l[i]
        BY <1>2
    <2> HIDE DEF m
    <2>2. k + 1 \in 0..Len(m)
        BY <1>1, <2>1
    <2>3. ASSUME NEW i \in (Len(m) - (k + 1) + 1)..Len(m)
          PROVE  m[i] = "fail"
        <3>1. i = Len(l) + 1 \/ (i \in 1..Len(l) /\ i \in (Len(l) - k + 1)..Len(l))
            BY <1>1, <2>1
        <3> QED BY <2>1, <3>1 DEF IsTrailing
    <2>4. ASSUME k + 1 < Len(m)
          PROVE  m[Len(m) - (k + 1)] # "fail"
        <3>1. /\ k < Len(l) /\ Len(m) - (k + 1) = Len(l) - k
              /\ Len(l) - k \in 1..Len(l)
            BY <1>1, <2>1, <2>4
        <3> QED BY <2>1, <3>1 DEF IsTrailing
    <2>5. IsTrailing(m, k + 1)
        BY <2>2, <2>3, <2>4 DEF IsTrailing
    <2> QED BY <2>5 DEF m
<1>4. IsTrailing(Append(l, "pass"), 0)
    <2> DEFINE m == Append(l, "pass")
    <2>1. Len(m) = Len(l) + 1 /\ m[Len(l) + 1] = "pass"
        BY <1>2
    <2> HIDE DEF m
    <2>2. /\ 0 \in 0..Len(m) /\ Len(m) - 0 = Len(l) + 1
          /\ (Len(m) - 0 + 1)..Len(m) = {}
        BY <1>1, <2>1
    <2>3. IsTrailing(m, 0)
        BY <2>1, <2>2 DEF IsTrailing
    <2> QED BY <2>3 DEF m
<1> QED BY <1>3, <1>4

-----------------------------------------------------------------------------
(* The inductive invariant: the count of the gate, and the persisted one,  *)
(* are the trailing failures of their histories, and below u32::MAX.       *)
GateInv ==
    /\ TypeOK
    /\ CountNeverOverflows
    /\ IsTrailing(log, gate.consecutive_failures)
    /\ IsTrailing(savedLog, saved.consecutive_failures)

LEMMA PositionType ==
    ASSUME NEW g, ValidGate(g)
    PROVE  Position(g) \in [stage_index : Nat, consecutive_failures : 0..MaxStreak]
BY DEF ValidGate, Gates, Position

LEMMA InitInv == Init => GateInv
<1> SUFFICES ASSUME Init PROVE GateInv
    OBVIOUS
<1>1. /\ ValidGate(gate)
      /\ gate.consecutive_failures = 0
    BY ReleasesAssumption, NewGateValid DEF Init
<1>2. saved.consecutive_failures = 0
    BY <1>1 DEF Init, Position
<1>3. verdict \in [decision : Decisions, reason : Reasons,
                   consecutive_failures : 0..MaxStreak]
    BY MaxStreakAssumption
       DEF Init, NoVerdict, Decisions, Reasons, NoEvidence, Failures
<1>4. TypeOK
    BY <1>1, <1>3, PositionType DEF Init, TypeOK
<1>5. CountNeverOverflows
    BY <1>1, <1>2, MaxStreakAssumption DEF CountNeverOverflows
<1> QED BY <1>1, <1>2, <1>4, <1>5, TrailingEmpty DEF GateInv, Init

(* The history of a window: extended, or started over on a rollback.       *)
LEMMA ObserveInv ==
    ASSUME GateInv, NEW w \in Windows, Observe(w)
    PROVE  GateInv'
<1> DEFINE reason == ReasonFor(StageOf(gate), w)
<1>1. reason \in Reasons
    BY ReasonType
<1> HIDE DEF reason
<1>2. /\ gate' = Observed(gate, reason)
      /\ verdict' = VerdictOn(gate, reason)
      /\ log' = IF verdict'.decision = "Rollback" THEN <<>>
                ELSE Extended(log, reason)
      /\ UNCHANGED <<saved, savedLog>>
    BY DEF Observe, Judge, reason
<1>3. /\ ValidGate(gate) /\ gate.consecutive_failures < MaxStreak
      /\ log \in Seq({"fail", "pass"})
      /\ IsTrailing(log, gate.consecutive_failures)
      /\ gate.consecutive_failures \in Nat
    BY MaxStreakAssumption DEF GateInv, TypeOK, CountNeverOverflows, ValidGate, Gates
<1>4. /\ ValidGate(gate') /\ gate'.consecutive_failures < MaxStreak
      /\ CountAfter(gate, reason) \in 0..MaxStreak
    BY <1>1, <1>2, <1>3, ObservedValid
<1>5. /\ verdict'.decision = DecisionFor(gate, reason)
      /\ verdict' \in [decision : Decisions, reason : Reasons,
                       consecutive_failures : 0..MaxStreak]
    BY <1>1, <1>2, <1>4, DecisionType DEF VerdictOn
<1>6. gate'.consecutive_failures =
          IF DecisionFor(gate, reason) = "Rollback" THEN 0
          ELSE CountAfter(gate, reason)
    BY <1>2, <1>3 DEF Observed, ValidGate, Gates
<1>7. log' \in Seq({"fail", "pass"}) /\ IsTrailing(log', gate'.consecutive_failures)
    <2>1. CASE DecisionFor(gate, reason) = "Rollback"
        BY <1>2, <1>5, <1>6, <2>1, TrailingEmpty
    <2>2. CASE DecisionFor(gate, reason) # "Rollback" /\ reason \in Failures
        <3>1. /\ gate'.consecutive_failures = gate.consecutive_failures + 1
              /\ log' = Append(log, "fail")
            BY <1>2, <1>3, <1>5, <1>6, <2>2, CountUp
               DEF CountAfter, Extended, Failures, NoEvidence
        <3> QED BY <1>3, <3>1, TrailingAppend
    <2>3. CASE DecisionFor(gate, reason) # "Rollback" /\ reason = "Healthy"
        <3>1. /\ gate'.consecutive_failures = 0
              /\ log' = Append(log, "pass")
            BY <1>2, <1>5, <1>6, <2>3 DEF CountAfter, Extended, Failures, NoEvidence
        <3> QED BY <1>3, <3>1, TrailingAppend
    <2>4. CASE DecisionFor(gate, reason) # "Rollback" /\ reason \in NoEvidence
        <3>1. /\ gate'.consecutive_failures = gate.consecutive_failures
              /\ log' = log
            BY <1>2, <1>5, <1>6, <2>4 DEF CountAfter, Extended, Failures, NoEvidence
        <3> QED BY <1>3, <3>1
    <2> QED BY <1>1, <2>1, <2>2, <2>3, <2>4 DEF Reasons
<1>8. /\ saved' = saved /\ savedLog' = savedLog
      /\ saved \in [stage_index : Nat, consecutive_failures : 0..MaxStreak]
      /\ savedLog \in Seq({"fail", "pass"})
      /\ saved.consecutive_failures < MaxStreak
      /\ IsTrailing(savedLog, saved.consecutive_failures)
    BY <1>2 DEF GateInv, TypeOK, CountNeverOverflows
<1> QED BY <1>4, <1>5, <1>7, <1>8 DEF GateInv, TypeOK, CountNeverOverflows

LEMMA CrashInv ==
    ASSUME GateInv, NEW r \in Releases, CrashAndRecover(r)
    PROVE  GateInv'
<1>1. /\ saved.stage_index \in Nat
      /\ saved.consecutive_failures \in 0..MaxStreak
      /\ ValidGate(NewGate(r.stages, r.failure_limit))
    BY ReleasesAssumption, NewGateValid DEF GateInv, TypeOK
<1>2. /\ ValidGate(gate')
      /\ gate'.consecutive_failures = saved.consecutive_failures
    BY <1>1, RestoredValid DEF CrashAndRecover, Recover
<1> QED BY <1>2 DEF GateInv, TypeOK, CountNeverOverflows, CrashAndRecover

LEMMA StepInv == GateInv /\ [Next]_vars => GateInv'
<1> SUFFICES ASSUME GateInv, [Next]_vars
             PROVE  GateInv'
    OBVIOUS
<1> USE DEF GateInv, TypeOK, CountNeverOverflows
<1>1. ASSUME NEW w \in Windows, Observe(w)
      PROVE  GateInv'
    BY <1>1, ObserveInv
<1>2. CASE Advance
    BY <1>2, NextStageValid DEF Advance
<1>3. CASE Restart
    BY <1>3, RestartedValid, TrailingEmpty, MaxStreakAssumption DEF Restart
<1>4. ASSUME NEW n \in Limits, SetFailureLimit(n)
      PROVE  GateInv'
    <2>1. /\ n \in 0..MaxStreak
          /\ gate' = [gate EXCEPT !.failure_limit = n]
        BY <1>4, LimitsAssumption DEF SetFailureLimit
    <2>2. ValidGate(gate') /\ gate'.consecutive_failures = gate.consecutive_failures
        BY <2>1 DEF ValidGate, Gates
    <2> QED BY <1>4, <2>2 DEF SetFailureLimit
<1>5. CASE Persist
    <2>1. saved'.consecutive_failures = gate.consecutive_failures
        BY <1>5 DEF Persist, Position
    <2> QED BY <1>5, <2>1, PositionType DEF Persist
<1>6. ASSUME NEW r \in Releases, CrashAndRecover(r)
      PROVE  GateInv'
    BY <1>6, CrashInv
<1>7. CASE UNCHANGED vars
    BY <1>7 DEF vars
<1> QED BY <1>1, <1>2, <1>3, <1>4, <1>5, <1>6, <1>7 DEF Next

(* A gate stays well formed: in particular its index points at a stage,    *)
(* whatever list a later release restores a recorded index into.           *)
THEOREM GateTypes == Spec => []TypeOK
BY InitInv, StepInv, PTL DEF Spec, GateInv

(* The unchecked u32 addition of the failure count cannot overflow.        *)
THEOREM CountsStayBelowMax == Spec => []CountNeverOverflows
BY InitInv, StepInv, PTL DEF Spec, GateInv

(* The gate rolls back exactly at the limit-th failing window in a row.    *)
THEOREM RollsBackExactlyAtLimit == Spec => RollbackExactlyAtLimit
<1>1. ASSUME GateInv, NEW reason \in Reasons, Judge(reason)
      PROVE  (verdict'.decision = "Rollback")
                <=> /\ reason \in Failures
                    /\ TrailingFailures(Extended(log, reason))
                            >= gate.failure_limit
    <2>1. verdict' = VerdictOn(gate, reason)
        BY <1>1 DEF Judge
    <2>2. /\ verdict'.reason = reason
          /\ verdict'.decision = DecisionFor(gate, reason)
        BY <2>1 DEF VerdictOn
    <2>3. /\ gate.consecutive_failures \in Nat
          /\ gate.consecutive_failures < MaxStreak
          /\ log \in Seq({"fail", "pass"})
          /\ IsTrailing(log, gate.consecutive_failures)
        BY <1>1, MaxStreakAssumption
           DEF GateInv, TypeOK, CountNeverOverflows, ValidGate, Gates
    <2>4. CASE reason \in Failures
        <3>1. CountAfter(gate, reason) = gate.consecutive_failures + 1
            BY <2>3, <2>4, CountUp DEF CountAfter
        <3>2. /\ Extended(log, reason) = Append(log, "fail")
              /\ Append(log, "fail") \in Seq({"fail", "pass"})
            BY <2>3, <2>4 DEF Extended, Failures, NoEvidence
        <3>3. TrailingFailures(Extended(log, reason)) = gate.consecutive_failures + 1
            BY <2>3, <3>2, TrailingAppend, TrailingUnique
        <3>4. (DecisionFor(gate, reason) = "Rollback")
                <=> CountAfter(gate, reason) >= gate.failure_limit
            BY <2>4 DEF DecisionFor, Failures
        <3> QED BY <2>2, <2>4, <3>1, <3>3, <3>4
    <2>5. CASE reason \notin Failures
        BY <2>2, <2>5 DEF DecisionFor
    <2> QED BY <2>4, <2>5
<1>2. GateInv /\ [Next]_vars =>
        [ \A reason \in Reasons :
            Judge(reason) =>
              ((verdict'.decision = "Rollback")
                <=> /\ reason \in Failures
                    /\ TrailingFailures(Extended(log, reason))
                            >= gate.failure_limit) ]_vars
    BY <1>1
<1> QED BY <1>2, InitInv, StepInv, PTL DEF Spec, RollbackExactlyAtLimit

(* Restoring an up-to-date save on the same stages and limit gives back    *)
(* the very gate that was lost.                                            *)
THEOREM RestartTransparent == Spec => RestartIsTransparent
<1>1. ASSUME GateInv, NEW r \in Releases, CrashAndRecover(r),
             saved = Position(gate), r.stages = gate.stages,
             gate.failure_limit = NewGate(r.stages, r.failure_limit).failure_limit
      PROVE  gate' = gate
    <2>1. /\ ValidGate(gate) /\ gate \in Gates
          /\ gate.stages \in Seq(Stages) /\ gate.stages # <<>>
          /\ gate.stage_index \in Nat /\ gate.stage_index < Len(gate.stages)
          /\ saved.stage_index = gate.stage_index
          /\ saved.consecutive_failures = gate.consecutive_failures
          /\ gate.consecutive_failures \in 0..MaxStreak
        BY <1>1 DEF GateInv, TypeOK, ValidGate, Gates, Position
    <2>2. /\ ValidGate(NewGate(r.stages, r.failure_limit))
          /\ NewGate(r.stages, r.failure_limit).stages = gate.stages
        BY <1>1, ReleasesAssumption, NewGateValid
    <2>3. Clamp(gate.stage_index, gate.stages) = gate.stage_index
        BY <2>1, ClampValid
    <2>4. /\ ValidGate(gate')
          /\ gate'.consecutive_failures = gate.consecutive_failures
          /\ gate'.stage_index = gate.stage_index
          /\ gate'.stages = gate.stages
          /\ gate'.failure_limit = gate.failure_limit
        <3> DEFINE n == NewGate(r.stages, r.failure_limit)
        <3>1. gate' = RestoreStreak(RestoreStage(n, gate.stage_index),
                                    gate.consecutive_failures)
            BY <1>1, <2>1 DEF CrashAndRecover, Recover
        <3>2. ValidGate(n) /\ n.stages = gate.stages
              /\ n.failure_limit = gate.failure_limit
            BY <1>1, <2>2
        <3> HIDE DEF n
        <3>3. /\ ValidGate(gate')
              /\ gate'.consecutive_failures = gate.consecutive_failures
              /\ gate'.stage_index = Clamp(gate.stage_index, n.stages)
              /\ gate'.stages = n.stages
              /\ gate'.failure_limit = n.failure_limit
            <4>1. /\ gate.stage_index \in Nat
                  /\ gate.consecutive_failures \in 0..MaxStreak
                BY <2>1
            <4> QED BY <4>1, <3>1, <3>2, RestoredValid
        <3> QED BY <2>3, <3>2, <3>3
    <2>5. gate' \in Gates
        BY <2>4 DEF ValidGate
    <2> QED BY <2>1, <2>4, <2>5, SameFieldsSameGate
<1>2. GateInv /\ [Next]_vars =>
        [ \A r \in Releases :
          (/\ CrashAndRecover(r)
           /\ saved = Position(gate)
           /\ r.stages = gate.stages
           /\ gate.failure_limit = NewGate(r.stages, r.failure_limit).failure_limit)
              => gate' = gate ]_vars
    BY <1>1
<1> QED BY <1>2, InitInv, StepInv, PTL DEF Spec, RestartIsTransparent

(* A window is blamed for its latencies, or promoted, by the same tail     *)
(* budget: one request in a hundred may be slower than the ceiling.        *)
THEOREM TailBudgetKept == Spec => LatencyBreachIsTail
<1>1. ASSUME GateInv, NEW w \in Windows, Observe(w)
      PROVE  LET over == OverTail(w, StageOf(gate).max_latency_p99_ms) IN
             /\ verdict'.decision = "Promote" => ~over
             /\ verdict'.reason = "LatencyTooHigh" => over
    <2> DEFINE s == StageOf(gate)
               ceiling == s.max_latency_p99_ms
               l == w.latencies_ms
    <2>1. ValidGate(gate)
        BY <1>1 DEF GateInv, TypeOK
    <2>2. ceiling \in Nat
        <3>1. s \in Stages
            BY <2>1, StageOfType
        <3> QED BY <3>1 DEF Stages
    <2>3. l \in Seq(Nat)
        BY WindowsAssumption DEF MeasurementWindows
    <2>4. LatencyTooHigh(s, w) <=> OverTail(w, ceiling)
        <3>1. CASE l = <<>>
            <4>1. Len(l) = 0 /\ {i \in DOMAIN l : l[i] > ceiling} = {}
                BY <3>1
            <4> QED BY <3>1, <4>1, FS_EmptySet DEF LatencyTooHigh, OverTail
        <3>2. CASE l # <<>>
            <4>1. P99(l) > ceiling <=> 100 * Cardinality(Beyond(l, ceiling)) > Len(l)
                BY <2>2, <2>3, <3>2, PercentileIsTail
            <4> QED BY <3>2, <4>1 DEF LatencyTooHigh, OverTail, Beyond
        <3> QED BY <3>1, <3>2
    <2>5. /\ verdict'.decision = DecisionFor(gate, ReasonFor(s, w))
          /\ verdict'.reason = ReasonFor(s, w)
        BY <1>1 DEF Observe, Judge, VerdictOn
    <2>6. ReasonFor(s, w) = "Healthy" => ~LatencyTooHigh(s, w)
        BY DEF ReasonFor
    <2>7. ReasonFor(s, w) = "LatencyTooHigh" => LatencyTooHigh(s, w)
        BY DEF ReasonFor
    <2>8. verdict'.decision = "Promote" => ReasonFor(s, w) = "Healthy"
        BY <2>5 DEF DecisionFor
    <2> QED BY <2>4, <2>5, <2>6, <2>7, <2>8
<1>2. GateInv /\ [Next]_vars =>
        [ \A w \in Windows :
            Observe(w) =>
              LET over == OverTail(w, StageOf(gate).max_latency_p99_ms) IN
              /\ verdict'.decision = "Promote" => ~over
              /\ verdict'.reason = "LatencyTooHigh" => over ]_vars
    BY <1>1
<1> QED BY <1>2, InitInv, StepInv, PTL DEF Spec, LatencyBreachIsTail

=============================================================================
