------------------------------ MODULE GateOps ------------------------------
(***************************************************************************)
(* The value types of gate.rs and the methods of HealthGate, as operators  *)
(* on records.  A measurement window carries the snapshot handed to        *)
(* HealthGate::observe together with observed_for.  An error rate is kept  *)
(* as the pair errors/total and compared with a budget in thousandths by   *)
(* cross multiplication; latencies are whole milliseconds.                 *)
(***************************************************************************)
EXTENDS Integers, Sequences, FiniteSets

CONSTANT MaxStreak      \* u32::MAX, the largest failure count

ASSUME MaxStreakAssumption == MaxStreak \in Nat \ {0}

Stages == [percentage : 0..100, min_duration : Nat, min_samples : Nat,
           max_error_rate : 0..1000, max_latency_p99_ms : Nat]

MeasurementWindows ==
    [observed_for : Nat, total : Nat, errors : Nat, latencies_ms : Seq(Nat)]

Failures == {"ErrorRateTooHigh", "LatencyTooHigh"}
NoEvidence == {"TooSoon", "TooFewSamples"}
Reasons == Failures \cup NoEvidence \cup {"Healthy"}
Decisions == {"Promote", "Hold", "Rollback"}

-----------------------------------------------------------------------------
(* A gate: an ordered, non-empty stage list, the limit, and its position.  *)
NewGate(stages, limit) ==
    [stages |-> stages,
     failure_limit |-> IF limit < 1 THEN 1 ELSE limit,
     consecutive_failures |-> 0,
     stage_index |-> 0]

(* What a caller can hold: stages are never empty, the index points at one *)
(* of them, and limit and count fit a u32.                                 *)
Gates == [stages : Seq(Stages), failure_limit : 0..MaxStreak,
          consecutive_failures : 0..MaxStreak, stage_index : Nat]

ValidGate(g) ==
    /\ g \in Gates
    /\ g.stages # <<>>
    /\ g.stage_index < Len(g.stages)

ValidRelease(r) ==
    /\ r.stages \in Seq(Stages)
    /\ r.stages # <<>>
    /\ r.failure_limit \in 0..MaxStreak

LastIndex(stages) == Len(stages) - 1

(* A faulty variant: one past the end is let through.                      *)
ClampPastEnd(i, stages) == IF i <= Len(stages) THEN i ELSE LastIndex(stages)

Clamp(i, stages) == IF i <= LastIndex(stages) THEN i ELSE LastIndex(stages)

(* HealthGate::stage.  The code counts stages from 0.                      *)
StageOf(g) == g.stages[Clamp(g.stage_index, g.stages) + 1]

IsComplete(g) == g.stage_index + 1 >= Len(g.stages)

-----------------------------------------------------------------------------
(* A faulty variant: the rank is rounded down.                             *)
P99RankFloor(n) == IF n = 1 THEN 1 ELSE (99 * n) \div 100

(* HealthSnapshot::latency_p99_ms: the nearest-rank percentile, the value  *)
(* at position ceil(0.99 n) of the sorted samples.                         *)
P99Rank(n) == (99 * n + 99) \div 100

P99(l) ==
    CHOOSE v \in {l[i] : i \in DOMAIN l} :
        /\ Cardinality({i \in DOMAIN l : l[i] < v}) < P99Rank(Len(l))
        /\ P99Rank(Len(l)) <= Cardinality({i \in DOMAIN l : l[i] <= v})

ErrorRateTooHigh(s, w) ==
    w.total # 0 /\ w.errors * 1000 > s.max_error_rate * w.total

LatencyTooHigh(s, w) ==
    w.latencies_ms # <<>> /\ P99(w.latencies_ms) > s.max_latency_p99_ms

(* What HealthGate::observe makes of a window: evidence before verdict,    *)
(* errors before latency.                                                  *)
ReasonFor(s, w) ==
    CASE w.observed_for < s.min_duration -> "TooSoon"
      [] w.observed_for >= s.min_duration /\ w.total < s.min_samples ->
            "TooFewSamples"
      [] OTHER -> IF ErrorRateTooHigh(s, w) THEN "ErrorRateTooHigh"
                  ELSE IF LatencyTooHigh(s, w) THEN "LatencyTooHigh"
                  ELSE "Healthy"

(* A faulty variant: a window without evidence clears the count.           *)
CountAfterHoldClears(g, reason) ==
    IF reason \in Failures THEN (g.consecutive_failures + 1) % (MaxStreak + 1)
    ELSE 0

(* The failure count once a window is judged: a breach adds one (in u32),  *)
(* a healthy window clears it, a window without evidence leaves it.        *)
CountAfter(g, reason) ==
    IF reason \in Failures THEN (g.consecutive_failures + 1) % (MaxStreak + 1)
    ELSE IF reason = "Healthy" THEN 0
    ELSE g.consecutive_failures

(* A faulty variant: one failure too many is tolerated.                    *)
DecisionOneLate(g, reason) ==
    IF reason = "Healthy" THEN "Promote"
    ELSE IF reason \in Failures /\ CountAfter(g, reason) > g.failure_limit
    THEN "Rollback"
    ELSE "Hold"

DecisionFor(g, reason) ==
    IF reason = "Healthy" THEN "Promote"
    ELSE IF reason \in Failures /\ CountAfter(g, reason) >= g.failure_limit
    THEN "Rollback"
    ELSE "Hold"

VerdictOn(g, reason) ==
    [decision |-> DecisionFor(g, reason),
     reason |-> reason,
     consecutive_failures |-> CountAfter(g, reason)]

(* A faulty variant: the count is reported but not kept.                   *)
ObservedForgets(g, reason) == g

(* The gate HealthGate::observe leaves: a rollback verdict starts over.    *)
Observed(g, reason) ==
    [g EXCEPT !.consecutive_failures =
        IF DecisionFor(g, reason) = "Rollback" THEN 0 ELSE CountAfter(g, reason)]

-----------------------------------------------------------------------------
(* A faulty variant: no end to the stages.                                 *)
NextStageUnchecked(g) == [g EXCEPT !.stage_index = @ + 1]

(* HealthGate::advance refuses on the last stage.                          *)
NextStage(g) ==
    IF IsComplete(g) THEN g ELSE [g EXCEPT !.stage_index = @ + 1]

RestoreStreak(g, n) == [g EXCEPT !.consecutive_failures = n]

RestoreStage(g, i) == [g EXCEPT !.stage_index = Clamp(i, g.stages)]

(* A faulty variant: only the streak is cleared.                           *)
RestartedInPlace(g) == [g EXCEPT !.consecutive_failures = 0]

Restarted(g) == [g EXCEPT !.stage_index = 0, !.consecutive_failures = 0]
=============================================================================
