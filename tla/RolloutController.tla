-------------------------- MODULE RolloutController --------------------------
(***************************************************************************)
(* RolloutController of gate.rs: a HealthGate and a Rollout behind one     *)
(* observe call, which is one step (&mut self).  Around it, the caller     *)
(* that feeds windows, persists what the getters show, crashes, and builds *)
(* a new controller from what it persisted, perhaps in another release     *)
(* with another stage list.  The climate is the traffic's health: while it *)
(* is "healthy" no window fails, while it is "failing" none is healthy.    *)
(***************************************************************************)
EXTENDS RolloutOps, GateOps

CONSTANTS
    Releases,   \* stage lists and limits of the releases of the program
    Starts,     \* percentage and salt a caller creates the rollout with
    Windows,    \* measurement windows
    MaxCrashes  \* bound: crashes of the caller

ASSUME ReleasesAssumption == \A r \in Releases : ValidRelease(r)

ASSUME StartsAssumption == Starts \subseteq [percentage : Percent, salt : Salts]

ASSUME MaxCrashesAssumption == MaxCrashes \in Nat

VARIABLES
    rollout,    \* the Rollout
    gate,       \* the HealthGate
    decision,   \* the last decision observe returned
    saved,      \* what the caller persisted
    climate,    \* the health of the traffic
    crashes,    \* crashes so far
    tested      \* history: the cohort first exposed at each percentage

vars == <<rollout, gate, decision, saved, climate, crashes, tested>>

TypeOK ==
    /\ rollout \in Rollouts
    /\ ValidGate(gate)
    /\ decision \in Decisions
    /\ saved \in [percentage : Percent, salt : Salts, stage_index : Nat,
                  consecutive_failures : 0..MaxStreak]
    /\ climate \in {"mixed", "healthy", "failing"}
    /\ crashes \in 0..MaxCrashes
    /\ DOMAIN tested \subseteq Percent
    /\ \A p \in DOMAIN tested : tested[p] \subseteq Subjects

-----------------------------------------------------------------------------
Snapshot(r, g) ==
    [percentage |-> r.percentage,
     salt |-> r.salt,
     stage_index |-> g.stage_index,
     consecutive_failures |-> g.consecutive_failures]

(* The history of cohorts, with the one a rollout exposes if it is new.    *)
Recorded(h, r) ==
    [p \in DOMAIN h \cup {r.percentage} |->
        IF p \in DOMAIN h THEN h[p] ELSE Cohort(r)]

Init ==
    /\ \E s \in Starts : rollout = NewRollout(s.percentage, s.salt)
    /\ \E r \in Releases : gate = NewGate(r.stages, r.failure_limit)
    /\ decision = "Hold"
    /\ saved = Snapshot(rollout, gate)
    /\ climate = "mixed"
    /\ crashes = 0
    /\ tested = [p \in {rollout.percentage} |-> Cohort(rollout)]

(* Faulty variants of Apply: exposure mirrors the stage before the gate    *)
(* moves, or follows the gate although it refused to advance.              *)
ApplyMirrorsFirst(d, judged) ==
    \/ /\ d = "Promote"
       /\ gate' = NextStage(judged)
       /\ rollout' = IF IsComplete(judged) THEN rollout
                     ELSE Advanced(rollout, StageOf(judged).percentage)
    \/ /\ d = "Rollback"
       /\ gate' = Restarted(judged)
       /\ rollout' = ExposureReset(rollout)
    \/ d = "Hold" /\ gate' = judged /\ UNCHANGED rollout

ApplyIgnoresRefusal(d, judged) ==
    \/ /\ d = "Promote"
       /\ gate' = NextStage(judged)
       /\ rollout' = Advanced(rollout, StageOf(gate').percentage)
    \/ /\ d = "Rollback"
       /\ gate' = Restarted(judged)
       /\ rollout' = ExposureReset(rollout)
    \/ d = "Hold" /\ gate' = judged /\ UNCHANGED rollout

(* What the controller does with a verdict.  On a promote the gate goes    *)
(* first and exposure follows its new stage; an advance the rollout        *)
(* refuses is ignored.  A complete gate moves neither.                     *)
Apply(d, judged) ==
    \/ /\ d = "Promote"
       /\ ~IsComplete(judged)
       /\ gate' = NextStage(judged)
       /\ rollout' = Advanced(rollout, StageOf(gate').percentage)
    \/ /\ d = "Promote"
       /\ IsComplete(judged)
       /\ gate' = judged
       /\ UNCHANGED rollout
    \/ /\ d = "Rollback"
       /\ gate' = Restarted(judged)
       /\ rollout' = ExposureReset(rollout)
    \/ /\ d = "Hold"
       /\ gate' = judged
       /\ UNCHANGED rollout

Plausible(reason) ==
    /\ climate = "healthy" => reason \notin Failures
    /\ climate = "failing" => reason # "Healthy"

Judge(reason) ==
    /\ Plausible(reason)
    /\ decision' = DecisionFor(gate, reason)
    /\ Apply(DecisionFor(gate, reason), Observed(gate, reason))
    /\ tested' = Recorded(tested, rollout')
    /\ UNCHANGED <<saved, climate, crashes>>

Observe(w) == Judge(ReasonFor(StageOf(gate), w))

Persist ==
    /\ saved' = Snapshot(rollout, gate)
    /\ UNCHANGED <<rollout, gate, decision, climate, crashes, tested>>

(* A crash, and the controller release r builds from what was persisted.   *)
CrashAndRecover(r) ==
    /\ crashes < MaxCrashes
    /\ crashes' = crashes + 1
    /\ rollout' = NewRollout(saved.percentage, saved.salt)
    /\ gate' = RestoreStreak(RestoreStage(NewGate(r.stages, r.failure_limit),
                                          saved.stage_index),
                             saved.consecutive_failures)
    /\ UNCHANGED <<decision, saved, climate, tested>>

ClimateTurns(c) ==
    /\ climate' = c
    /\ UNCHANGED <<rollout, gate, decision, saved, crashes, tested>>

Next ==
    \/ \E w \in Windows : Observe(w)
    \/ Persist
    \/ \E r \in Releases : CrashAndRecover(r)
    \/ \E c \in {"mixed", "healthy", "failing"} : ClimateTurns(c)

Spec == Init /\ [][Next]_vars

(* The caller goes on feeding windows with enough evidence to be judged.   *)
ObserveEvidence ==
    \E w \in Windows : /\ ReasonFor(StageOf(gate), w) \notin NoEvidence
                       /\ Observe(w)

FairSpec == Spec /\ WF_vars(ObserveEvidence)

-----------------------------------------------------------------------------
(* Inside a controller the exposure is its own high water mark.  So the    *)
(* restart through Rollout::new forgets nothing, and no promotion can      *)
(* shrink the exposure.                                                    *)
ExposureIsMark == rollout.percentage = rollout.high_water_mark

(* Exposure shrinks in one way only: to zero, on a rollback, with the gate *)
(* back at its first stage with a clean streak.  Every other window leaves *)
(* each exposed subject exposed (RolloutController::observe).              *)
OnlyRollbackShrinks ==
    [][ crashes' = crashes =>
          \/ Cohort(rollout) \subseteq Cohort(rollout')
          \/ /\ decision' = "Rollback"
             /\ rollout'.percentage = 0
             /\ Snapshot(rollout', gate') =
                    [percentage |-> 0, salt |-> rollout.salt,
                     stage_index |-> 0, consecutive_failures |-> 0] ]_vars

(* After rollbacks and restarts a percentage exposes the subjects it       *)
(* exposed the first time, and not a fresh cohort (reset_exposure).        *)
SameSubjectsRetested == tested[rollout.percentage] = Cohort(rollout)

(* Once rolled back on a complete gate, a controller stays at zero: a      *)
(* single-stage rollout does not climb again by itself (HealthGate::advance*)
(* refuses, and exposure only follows an advance).                         *)
CompleteGateKeepsZero ==
    [][ (IsComplete(gate) /\ rollout.percentage = 0 /\ crashes' = crashes)
            => rollout'.percentage = 0 ]_vars

-----------------------------------------------------------------------------
(* The intended set-up: one stage list, in ascending order, and a rollout  *)
(* created at the percentage of the first stage.                           *)
Ladder == LET r == CHOOSE r \in Releases : TRUE
          IN  [i \in DOMAIN r.stages |-> r.stages[i].percentage]

IntendedSetUp ==
    /\ \A r \in Releases : /\ DOMAIN r.stages = DOMAIN Ladder
                           /\ \A i \in DOMAIN Ladder :
                                  r.stages[i].percentage = Ladder[i]
    /\ \A i, j \in DOMAIN Ladder : i <= j => Ladder[i] <= Ladder[j]
    /\ \A s \in Starts : s.percentage = Ladder[1]

(* Gate and exposure are in step: exposure is the percentage of the gate's *)
(* stage, or zero on the first stage after a rollback.                     *)
InStep ==
    \/ rollout.percentage = StageOf(gate).percentage
    \/ rollout.percentage = 0 /\ gate.stage_index = 0

(* In the intended set-up the controller implements StagedRollout: no      *)
(* promotion is lost to a refused advance, no stage is skipped by the gate,*)
(* and a rollback is one step for gate and exposure together.              *)
Staged == INSTANCE StagedRollout WITH
    Ladder <- Ladder,
    position <- [level |-> gate.stage_index, exposure |-> rollout.percentage],
    kept <- [level |-> saved.stage_index, exposure |-> saved.percentage]

ImplementsStagedRollout == Staged!Spec

(* If traffic is healthy from some point on, the rollout reaches its last  *)
(* stage and stays there; if it keeps failing, exposure goes to zero and   *)
(* stays there.                                                            *)
HealthyTrafficCompletes ==
    <>[](climate = "healthy")
        => <>[](rollout.percentage = Ladder[Len(Ladder)])

FailingTrafficStops ==
    <>[](climate = "failing") => <>[](rollout.percentage = 0)
=============================================================================
