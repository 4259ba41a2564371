----------------------------- MODULE HealthGate -----------------------------
(***************************************************************************)
(* One HealthGate driven by a caller that feeds it windows, persists its   *)
(* position, crashes, and comes back, possibly as another release with     *)
(* another stage list and limit.  All methods take &mut self: each call is *)
(* one step.  What the caller persists is what the getters give it         *)
(* (stage_index and consecutive_failures), what it restores is what it     *)
(* persisted last.                                                         *)
(***************************************************************************)
EXTENDS GateOps

CONSTANTS
    Releases,   \* stage lists and limits of the releases of the program
    Limits,     \* values written to the public field failure_limit
    Windows,    \* measurement windows
    MaxWindows  \* bound: windows between two fresh starts of the history

ASSUME ReleasesAssumption == \A r \in Releases : ValidRelease(r)

ASSUME LimitsAssumption == Limits \subseteq 0..MaxStreak

ASSUME WindowsAssumption == Windows \subseteq MeasurementWindows

VARIABLES
    gate,       \* the HealthGate
    saved,      \* what the caller persisted of it
    verdict,    \* the last verdict
    log,        \* history: "fail" or "pass" for each window judged since a
                \* rollback or restart
    savedLog    \* history: the log when the caller persisted

vars == <<gate, saved, verdict, log, savedLog>>

Position(g) ==
    [stage_index |-> g.stage_index,
     consecutive_failures |-> g.consecutive_failures]

NoVerdict == [decision |-> "Hold", reason |-> "TooSoon", consecutive_failures |-> 0]

TypeOK ==
    /\ ValidGate(gate)
    /\ saved \in [stage_index : Nat, consecutive_failures : 0..MaxStreak]
    /\ verdict \in [decision : Decisions, reason : Reasons,
                    consecutive_failures : 0..MaxStreak]
    /\ log \in Seq({"fail", "pass"})
    /\ savedLog \in Seq({"fail", "pass"})

-----------------------------------------------------------------------------
Init ==
    /\ \E r \in Releases : gate = NewGate(r.stages, r.failure_limit)
    /\ saved = Position(gate)
    /\ verdict = NoVerdict
    /\ log = <<>>
    /\ savedLog = <<>>

(* The history with a window of this reason added, if it was evidence.     *)
Extended(l, reason) ==
    IF reason \in NoEvidence THEN l
    ELSE Append(l, IF reason \in Failures THEN "fail" ELSE "pass")

Judge(reason) ==
    /\ Len(log) < MaxWindows
    /\ gate' = Observed(gate, reason)
    /\ verdict' = VerdictOn(gate, reason)
    /\ log' = IF verdict'.decision = "Rollback" THEN <<>>
              ELSE Extended(log, reason)
    /\ UNCHANGED <<saved, savedLog>>

Observe(w) == Judge(ReasonFor(StageOf(gate), w))

Advance ==
    /\ gate' = NextStage(gate)
    /\ UNCHANGED <<saved, verdict, log, savedLog>>

Restart ==
    /\ gate' = Restarted(gate)
    /\ log' = <<>>
    /\ UNCHANGED <<saved, verdict, savedLog>>

SetFailureLimit(n) ==
    /\ gate' = [gate EXCEPT !.failure_limit = n]
    /\ UNCHANGED <<saved, verdict, log, savedLog>>

Persist ==
    /\ saved' = Position(gate)
    /\ savedLog' = log
    /\ UNCHANGED <<gate, verdict, log>>

(* A faulty variant: the streak is not restored.                           *)
RecoverWithoutStreak(r) ==
    RestoreStage(NewGate(r.stages, r.failure_limit), saved.stage_index)

(* A crash and the restart after it: a new gate of release r, to which     *)
(* the persisted stage and streak are given back.                          *)
Recover(r) ==
    RestoreStreak(RestoreStage(NewGate(r.stages, r.failure_limit),
                               saved.stage_index),
                  saved.consecutive_failures)

CrashAndRecover(r) ==
    /\ gate' = Recover(r)
    /\ log' = savedLog
    /\ UNCHANGED <<saved, verdict, savedLog>>

Next ==
    \/ \E w \in Windows : Observe(w)
    \/ Advance
    \/ Restart
    \/ \E n \in Limits : SetFailureLimit(n)
    \/ Persist
    \/ \E r \in Releases : CrashAndRecover(r)

Spec == Init /\ [][Next]_vars

-----------------------------------------------------------------------------
(* The failing windows at the end of a history: what "consecutive failing  *)
(* intervals" means.                                                       *)
IsTrailing(l, k) ==
    /\ k \in 0..Len(l)
    /\ \A i \in (Len(l) - k + 1)..Len(l) : l[i] = "fail"
    /\ k < Len(l) => l[Len(l) - k] # "fail"

TrailingFailures(l) == CHOOSE k \in 0..Len(l) : IsTrailing(l, k)

(* The gate rolls back exactly when the window fails and is at least the   *)
(* limit-th failure in a row since the last rollback or restart: windows   *)
(* without evidence neither break nor extend the row, leaving a stage does *)
(* not, and a crash loses only what was not persisted (HealthGate::observe,*)
(* restore_streak).                                                        *)
RollbackExactlyAtLimit ==
    [][ \A reason \in Reasons :
          Judge(reason) =>
            ((verdict'.decision = "Rollback")
                <=> /\ reason \in Failures
                    /\ TrailingFailures(Extended(log, reason))
                            >= gate.failure_limit) ]_vars

(* The count never reaches u32::MAX, so the unchecked += 1 cannot overflow,*)
(* even when a release lowers or raises the limit under a restored streak. *)
CountNeverOverflows ==
    /\ gate.consecutive_failures < MaxStreak
    /\ saved.consecutive_failures < MaxStreak

(* A restart on the same stages after an up-to-date save is invisible: the *)
(* gate that comes back is the gate that went away, so no later verdict    *)
(* differs (restore_stage, restore_streak).                                *)
RestartIsTransparent ==
    [][ \A r \in Releases :
          (/\ CrashAndRecover(r)
           /\ saved = Position(gate)
           /\ r.stages = gate.stages
           /\ gate.failure_limit = NewGate(r.stages, r.failure_limit).failure_limit)
              => gate' = gate ]_vars

(* The latency verdict is a tail budget: no window promotes in which more  *)
(* than one request in a hundred was slower than the ceiling of the stage  *)
(* it was judged in, and latency is blamed for nothing less                *)
(* (HealthSnapshot::latency_p99_ms, HealthGate::observe).                  *)
OverTail(w, ceiling) ==
    100 * Cardinality({i \in DOMAIN w.latencies_ms : w.latencies_ms[i] > ceiling})
        > Len(w.latencies_ms)

LatencyBreachIsTail ==
    [][ \A w \in Windows :
          Observe(w) =>
            LET over == OverTail(w, StageOf(gate).max_latency_p99_ms) IN
            /\ verdict'.decision = "Promote" => ~over
            /\ verdict'.reason = "LatencyTooHigh" => over ]_vars
=============================================================================
