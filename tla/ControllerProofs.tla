-------------------------- MODULE ControllerProofs --------------------------
(***************************************************************************)
(* Proofs about RolloutController for every set of releases, starts and    *)
(* windows, every bucket function and every number of crashes.  The first  *)
(* part assumes nothing of the stage lists; the second part assumes the    *)
(* intended set-up and ends in the refinement of StagedRollout.            *)
(***************************************************************************)
EXTENDS RolloutController, MethodProofs

-----------------------------------------------------------------------------
(* The inductive invariant for any stage lists: types, exposure equal to   *)
(* the mark, counts below u32::MAX, and one salt, with which every cohort  *)
(* on record was drawn.                                                    *)
CohortAt(p, s) == {u \in Subjects : Decision(u, p, s).enabled}

CountsBounded ==
    /\ gate.consecutive_failures < MaxStreak
    /\ saved.consecutive_failures < MaxStreak

RecordedCohorts ==
    /\ saved.salt = rollout.salt
    /\ rollout.percentage \in DOMAIN tested
    /\ saved.percentage \in DOMAIN tested
    /\ \A p \in DOMAIN tested : tested[p] = CohortAt(p, rollout.salt)

ControllerInv == TypeOK /\ ExposureIsMark /\ CountsBounded /\ RecordedCohorts

LEMMA CohortIsAt == ASSUME NEW r PROVE Cohort(r) = CohortAt(r.percentage, r.salt)
BY DEF Cohort, CohortAt, Evaluate

LEMMA SnapshotType ==
    ASSUME NEW r \in Rollouts, NEW g, ValidGate(g)
    PROVE  Snapshot(r, g) \in [percentage : Percent, salt : Salts,
                               stage_index : Nat,
                               consecutive_failures : 0..MaxStreak]
<1>1. g.stage_index \in Nat /\ g.consecutive_failures \in 0..MaxStreak
    BY DEF ValidGate, Gates
<1> QED BY <1>1 DEF Snapshot, Rollouts

(* What one judged window does: nothing to the exposure, or a climb by one *)
(* stage, or a rollback.                                                   *)
Stays == /\ rollout' = rollout
         /\ gate'.stage_index = gate.stage_index

Climbs == /\ gate'.stage_index = gate.stage_index + 1
          /\ rollout' = Advanced(rollout, StageOf(gate').percentage)

Trips == /\ decision' = "Rollback"
         /\ gate'.stage_index = 0
         /\ gate'.consecutive_failures = 0
         /\ rollout' = ExposureReset(rollout)

LEMMA JudgeCases ==
    ASSUME ValidGate(gate), gate.consecutive_failures < MaxStreak,
           NEW reason \in Reasons, Judge(reason)
    PROVE  /\ ValidGate(gate')
           /\ gate'.consecutive_failures < MaxStreak
           /\ gate'.stages = gate.stages
           /\ decision' \in Decisions
           /\ Stays \/ Climbs \/ Trips
<1> DEFINE judged == Observed(gate, reason)
<1>1. /\ ValidGate(judged)
      /\ judged.consecutive_failures < MaxStreak
      /\ judged.stages = gate.stages
      /\ judged.stage_index = gate.stage_index
    BY ObservedValid
<1>2. /\ decision' \in Decisions
      /\ decision' = DecisionFor(gate, reason)
      /\ Apply(decision', judged)
    BY DecisionType DEF Judge
<1> HIDE DEF judged
<1>3. CASE /\ ~IsComplete(judged)
           /\ gate' = NextStage(judged)
           /\ rollout' = Advanced(rollout, StageOf(gate').percentage)
    BY <1>1, <1>2, <1>3, NextStageValid DEF Climbs
<1>4. CASE gate' = judged /\ rollout' = rollout
    BY <1>1, <1>2, <1>4 DEF Stays
<1>5. CASE /\ decision' = "Rollback"
           /\ gate' = Restarted(judged)
           /\ rollout' = ExposureReset(rollout)
    BY <1>1, <1>2, <1>5, RestartedValid, MaxStreakAssumption DEF Trips
<1> QED BY <1>2, <1>3, <1>4, <1>5 DEF Apply

(* Exposure equal to the mark survives every judged window, and only the   *)
(* rollback lowers it.                                                     *)
LEMMA ExposureStep ==
    ASSUME rollout \in Rollouts, ExposureIsMark, ValidGate(gate'),
           Stays \/ Climbs \/ Trips
    PROVE  /\ rollout' \in Rollouts
           /\ ExposureIsMark'
           /\ rollout'.salt = rollout.salt
           /\ \/ rollout.percentage <= rollout'.percentage
              \/ Trips /\ rollout'.percentage = 0
<1>1. CASE Stays
    BY <1>1 DEF Stays, ExposureIsMark, Rollouts, Percent
<1>2. CASE Climbs
    <2> DEFINE p == StageOf(gate').percentage
    <2>1. p \in Percent /\ p \in Byte
        <3>1. StageOf(gate') \in Stages
            BY StageOfType
        <3> QED BY <3>1 DEF Stages, Percent, Byte
    <2>2. rollout' = Advanced(rollout, p)
        BY <1>2 DEF Climbs
    <2> HIDE DEF p
    <2>3. rollout' \in Rollouts
        BY <2>1, <2>2, OpsTypes DEF Rollouts
    <2>4. CASE CanAdvance(rollout, p)
        <3>1. /\ rollout'.percentage = p
              /\ rollout'.high_water_mark = p
              /\ rollout'.salt = rollout.salt
            BY <2>1, <2>2, <2>4 DEF Advanced, Rollouts
        <3>2. rollout.percentage <= p
            BY <2>4 DEF CanAdvance, ExposureIsMark
        <3> QED BY <2>3, <3>1, <3>2 DEF ExposureIsMark
    <2>5. CASE ~CanAdvance(rollout, p)
        <3>1. rollout' = rollout
            BY <2>2, <2>5 DEF Advanced
        <3> QED BY <3>1 DEF ExposureIsMark, Rollouts, Percent
    <2> QED BY <2>4, <2>5
<1>3. CASE Trips
    <2>1. /\ rollout' = ExposureReset(rollout)
          /\ ExposureReset(rollout) \in Rollouts
        <3>1. 0 \in Byte /\ rollout.salt \in Salts
            BY DEF Byte, Rollouts
        <3> QED BY <1>3, <3>1, OpsTypes DEF Trips
    <2>2. /\ rollout'.percentage = 0
          /\ rollout'.high_water_mark = 0
          /\ rollout'.salt = rollout.salt
        BY <2>1 DEF ExposureReset, Rollouts
    <2> QED BY <1>3, <2>1, <2>2 DEF ExposureIsMark
<1> QED BY <1>1, <1>2, <1>3

(* Recording keeps what is on record and adds the present cohort.          *)
LEMMA RecordedKeeps ==
    ASSUME rollout \in Rollouts, rollout' \in Rollouts,
           rollout'.salt = rollout.salt,
           DOMAIN tested \subseteq Percent,
           RecordedCohorts, tested' = Recorded(tested, rollout'),
           saved' = saved
    PROVE  /\ RecordedCohorts'
           /\ DOMAIN tested' \subseteq Percent
           /\ \A p \in DOMAIN tested' : tested'[p] \subseteq Subjects
<1>1. /\ DOMAIN tested' = DOMAIN tested \cup {rollout'.percentage}
      /\ \A p \in DOMAIN tested' :
            tested'[p] = IF p \in DOMAIN tested THEN tested[p] ELSE Cohort(rollout')
    BY DEF Recorded
<1>2. \A p \in DOMAIN tested' : tested'[p] = CohortAt(p, rollout'.salt)
    BY <1>1, CohortIsAt DEF RecordedCohorts
<1>3. \A p \in DOMAIN tested' : tested'[p] \subseteq Subjects
    BY <1>2 DEF CohortAt
<1>4. DOMAIN tested' \subseteq Percent
    BY <1>1 DEF Rollouts
<1> QED BY <1>1, <1>2, <1>3, <1>4 DEF RecordedCohorts

-----------------------------------------------------------------------------
LEMMA InitInv == Init => ControllerInv
<1> SUFFICES ASSUME Init,
                    NEW s \in Starts, rollout = NewRollout(s.percentage, s.salt),
                    NEW r \in Releases, gate = NewGate(r.stages, r.failure_limit)
             PROVE  ControllerInv
    BY DEF Init
<1>1. /\ rollout \in Rollouts
      /\ rollout.percentage \in Percent
      /\ ExposureIsMark
    BY StartsAssumption DEF NewRollout, Rollouts, ExposureIsMark
<1>2. ValidGate(gate) /\ gate.consecutive_failures = 0
    BY ReleasesAssumption, NewGateValid
<1>3. /\ saved = Snapshot(rollout, gate)
      /\ saved \in [percentage : Percent, salt : Salts, stage_index : Nat,
                    consecutive_failures : 0..MaxStreak]
    BY <1>1, <1>2, SnapshotType DEF Init
<1>4. /\ DOMAIN tested = {rollout.percentage}
      /\ tested[rollout.percentage] = Cohort(rollout)
    BY DEF Init
<1>5. TypeOK
    BY <1>1, <1>2, <1>3, <1>4, CohortType, MaxCrashesAssumption
       DEF Init, TypeOK, Decisions
<1>6. CountsBounded
    BY <1>2, <1>3, MaxStreakAssumption DEF CountsBounded, Snapshot
<1>7. RecordedCohorts
    BY <1>3, <1>4, CohortIsAt DEF RecordedCohorts, Snapshot
<1> QED BY <1>1, <1>5, <1>6, <1>7 DEF ControllerInv

LEMMA ObserveInv ==
    ASSUME ControllerInv, NEW w \in Windows, Observe(w)
    PROVE  /\ ControllerInv'
           /\ gate'.stages = gate.stages
           /\ rollout'.salt = rollout.salt
           /\ saved' = saved
           /\ Stays \/ Climbs \/ Trips
           /\ \/ rollout.percentage <= rollout'.percentage
              \/ Trips /\ rollout'.percentage = 0
<1> DEFINE reason == ReasonFor(StageOf(gate), w)
<1>1. reason \in Reasons /\ Judge(reason)
    BY ReasonType DEF Observe
<1> HIDE DEF reason
<1>2. /\ ValidGate(gate) /\ gate.consecutive_failures < MaxStreak
      /\ rollout \in Rollouts /\ ExposureIsMark
    BY DEF ControllerInv, TypeOK, CountsBounded
<1>3. /\ ValidGate(gate')
      /\ gate'.consecutive_failures < MaxStreak
      /\ gate'.stages = gate.stages
      /\ decision' \in Decisions
      /\ Stays \/ Climbs \/ Trips
    BY <1>1, <1>2, JudgeCases
<1>4. /\ rollout' \in Rollouts
      /\ ExposureIsMark'
      /\ rollout'.salt = rollout.salt
      /\ \/ rollout.percentage <= rollout'.percentage
         \/ Trips /\ rollout'.percentage = 0
    BY <1>2, <1>3, ExposureStep
<1>5. /\ UNCHANGED <<saved, climate, crashes>>
      /\ tested' = Recorded(tested, rollout')
    BY <1>1 DEF Judge
<1>6. /\ RecordedCohorts'
      /\ DOMAIN tested' \subseteq Percent
      /\ \A p \in DOMAIN tested' : tested'[p] \subseteq Subjects
    BY <1>2, <1>4, <1>5, RecordedKeeps DEF ControllerInv, TypeOK
<1>7. TypeOK' /\ CountsBounded'
    BY <1>3, <1>4, <1>5, <1>6 DEF ControllerInv, TypeOK, CountsBounded
<1> QED BY <1>3, <1>4, <1>5, <1>6, <1>7 DEF ControllerInv

LEMMA PersistInv ==
    ASSUME ControllerInv, Persist
    PROVE  ControllerInv'
<1>1. /\ saved' = Snapshot(rollout, gate)
      /\ saved' \in [percentage : Percent, salt : Salts, stage_index : Nat,
                     consecutive_failures : 0..MaxStreak]
      /\ UNCHANGED <<rollout, gate, decision, climate, crashes, tested>>
    BY SnapshotType DEF Persist, ControllerInv, TypeOK
<1>2. /\ saved'.salt = rollout.salt
      /\ saved'.percentage = rollout.percentage
      /\ saved'.consecutive_failures = gate.consecutive_failures
    BY <1>1 DEF Snapshot
<1>3. TypeOK' /\ ExposureIsMark'
    BY <1>1 DEF ControllerInv, TypeOK, ExposureIsMark
<1> QED BY <1>1, <1>2, <1>3 DEF ControllerInv, CountsBounded, RecordedCohorts

LEMMA CrashInv ==
    ASSUME ControllerInv, NEW r \in Releases, CrashAndRecover(r)
    PROVE  /\ ControllerInv'
           /\ gate'.stages = r.stages
           /\ gate'.stage_index = Clamp(saved.stage_index, r.stages)
           /\ rollout'.percentage = saved.percentage
           /\ saved' = saved
<1>1. /\ saved.percentage \in Percent /\ saved.salt \in Salts
      /\ saved.stage_index \in Nat
      /\ saved.consecutive_failures \in 0..MaxStreak
    BY DEF ControllerInv, TypeOK
<1>2. /\ rollout' = NewRollout(saved.percentage, saved.salt)
      /\ crashes < MaxCrashes /\ crashes' = crashes + 1
      /\ UNCHANGED <<decision, saved, climate, tested>>
    BY DEF CrashAndRecover
<1>3. /\ rollout' \in Rollouts
      /\ rollout'.percentage = saved.percentage
      /\ rollout'.high_water_mark = saved.percentage
      /\ rollout'.salt = saved.salt
    BY <1>1, <1>2 DEF NewRollout, Rollouts
<1>4. /\ ValidGate(NewGate(r.stages, r.failure_limit))
      /\ NewGate(r.stages, r.failure_limit).stages = r.stages
    BY ReleasesAssumption, NewGateValid
<1>5. /\ ValidGate(gate')
      /\ gate'.consecutive_failures = saved.consecutive_failures
      /\ gate'.stage_index = Clamp(saved.stage_index, r.stages)
      /\ gate'.stages = r.stages
    <2> DEFINE n == NewGate(r.stages, r.failure_limit)
    <2>1. gate' = RestoreStreak(RestoreStage(n, saved.stage_index),
                                saved.consecutive_failures)
        BY DEF CrashAndRecover
    <2>2. ValidGate(n) /\ n.stages = r.stages
        BY <1>4
    <2> HIDE DEF n
    <2>3. /\ ValidGate(gate')
          /\ gate'.consecutive_failures = saved.consecutive_failures
          /\ gate'.stage_index = Clamp(saved.stage_index, n.stages)
          /\ gate'.stages = n.stages
        BY <1>1, <2>1, <2>2, RestoredValid
    <2> QED BY <2>2, <2>3
<1>6. crashes' \in 0..MaxCrashes
    BY <1>2, MaxCrashesAssumption DEF ControllerInv, TypeOK
<1>7. TypeOK'
    BY <1>2, <1>3, <1>5, <1>6 DEF ControllerInv, TypeOK
<1>8. CountsBounded' /\ ExposureIsMark'
    BY <1>2, <1>3, <1>5 DEF ControllerInv, CountsBounded, ExposureIsMark
<1>9. RecordedCohorts'
    BY <1>2, <1>3 DEF ControllerInv, RecordedCohorts
<1> QED BY <1>2, <1>3, <1>5, <1>7, <1>8, <1>9 DEF ControllerInv

LEMMA StepInv == ControllerInv /\ [Next]_vars => ControllerInv'
<1> SUFFICES ASSUME ControllerInv, [Next]_vars
             PROVE  ControllerInv'
    OBVIOUS
<1>1. ASSUME NEW w \in Windows, Observe(w)
      PROVE  ControllerInv'
    BY <1>1, ObserveInv
<1>2. CASE Persist
    BY <1>2, PersistInv
<1>3. ASSUME NEW r \in Releases, CrashAndRecover(r)
      PROVE  ControllerInv'
    BY <1>3, CrashInv
<1>4. ASSUME NEW c \in {"mixed", "healthy", "failing"}, ClimateTurns(c)
      PROVE  ControllerInv'
    BY <1>4 DEF ClimateTurns, ControllerInv, TypeOK, ExposureIsMark,
                CountsBounded, RecordedCohorts
<1>5. CASE UNCHANGED vars
    BY <1>5 DEF vars, ControllerInv, TypeOK, ExposureIsMark, CountsBounded,
                RecordedCohorts
<1> QED BY <1>1, <1>2, <1>3, <1>4, <1>5 DEF Next

(* The controller's state stays well typed in any set-up.                  *)
THEOREM ControllerTypes == Spec => []TypeOK
BY InitInv, StepInv, PTL DEF Spec, ControllerInv

(* Exposure is its own high water mark in any set-up, so a restart through *)
(* Rollout::new forgets nothing.                                           *)
THEOREM ExposureEqualsMark == Spec => []ExposureIsMark
BY InitInv, StepInv, PTL DEF Spec, ControllerInv

(* A percentage exposes the subjects it exposed first, through rollbacks   *)
(* and restarts.                                                           *)
THEOREM SameSubjectsAgain == Spec => []SameSubjectsRetested
<1>1. ControllerInv => SameSubjectsRetested
    BY CohortIsAt DEF ControllerInv, RecordedCohorts, SameSubjectsRetested
<1> QED BY <1>1, InitInv, StepInv, PTL DEF Spec

(* Without a crash, exposure shrinks only by a rollback to zero, however   *)
(* the stages are ordered.                                                 *)
THEOREM ShrinksOnlyByRollback == Spec => OnlyRollbackShrinks
<1> DEFINE Shrink ==
        \/ Cohort(rollout) \subseteq Cohort(rollout')
        \/ /\ decision' = "Rollback"
           /\ rollout'.percentage = 0
           /\ Snapshot(rollout', gate') =
                  [percentage |-> 0, salt |-> rollout.salt,
                   stage_index |-> 0, consecutive_failures |-> 0]
<1>1. ASSUME ControllerInv, NEW w \in Windows, Observe(w)
      PROVE  Shrink
    <2>1. /\ rollout \in Rollouts /\ rollout' \in Rollouts
          /\ rollout'.salt = rollout.salt
          /\ \/ rollout.percentage <= rollout'.percentage
             \/ Trips /\ rollout'.percentage = 0
        BY <1>1, ObserveInv DEF ControllerInv, TypeOK
    <2>2. CASE rollout.percentage <= rollout'.percentage
        BY <2>1, <2>2, CohortMonotone
    <2>3. CASE Trips /\ rollout'.percentage = 0
        BY <2>1, <2>3 DEF Trips, Snapshot
    <2> QED BY <2>1, <2>2, <2>3
<1>2. ASSUME ControllerInv, NEW r \in Releases, CrashAndRecover(r)
      PROVE  crashes' # crashes
    BY <1>2 DEF CrashAndRecover, ControllerInv, TypeOK
<1>3. ASSUME rollout' = rollout
      PROVE  Shrink
    BY <1>3
<1>4. ControllerInv /\ [Next]_vars => [crashes' = crashes => Shrink]_vars
    BY <1>1, <1>2, <1>3 DEF Next, Persist, ClimateTurns
<1> QED BY <1>4, InitInv, StepInv, PTL DEF Spec, OnlyRollbackShrinks

(* On a complete gate nothing lifts an exposure of zero: the gate cannot   *)
(* climb, and only a climb raises exposure.                                *)
THEOREM CompleteGateStaysAtZero == Spec => CompleteGateKeepsZero
<1>1. ASSUME ControllerInv, NEW w \in Windows, Observe(w),
             IsComplete(gate), rollout.percentage = 0
      PROVE  rollout'.percentage = 0
    <2>1. /\ ControllerInv'
          /\ gate'.stages = gate.stages
          /\ Stays \/ Climbs \/ Trips
        BY <1>1, ObserveInv
    <2>2. /\ ValidGate(gate) /\ ValidGate(gate')
          /\ rollout \in Rollouts
        BY <1>1, <2>1 DEF ControllerInv, TypeOK
    <2>3. ~Climbs
        <3>1. /\ gate.stage_index + 1 >= Len(gate.stages)
              /\ gate.stage_index \in Nat
            BY <1>1, <2>2 DEF IsComplete, ValidGate, Gates
        <3>2. gate'.stage_index < Len(gate.stages) /\ Len(gate.stages) \in Nat
            BY <2>1, <2>2 DEF ValidGate, Gates
        <3>3. gate'.stage_index # gate.stage_index + 1
            BY <3>1, <3>2
        <3> QED BY <3>3 DEF Climbs
    <2>4. CASE Stays
        BY <1>1, <2>4 DEF Stays
    <2>5. CASE Trips
        BY <2>2, <2>5 DEF Trips, ExposureReset, Rollouts
    <2> QED BY <2>1, <2>3, <2>4, <2>5
<1>2. ASSUME ControllerInv, NEW r \in Releases, CrashAndRecover(r)
      PROVE  crashes' # crashes
    BY <1>2 DEF CrashAndRecover, ControllerInv, TypeOK
<1>3. ControllerInv /\ [Next]_vars =>
        [ (IsComplete(gate) /\ rollout.percentage = 0 /\ crashes' = crashes)
            => rollout'.percentage = 0 ]_vars
    BY <1>1, <1>2 DEF Next, Persist, ClimateTurns
<1> QED BY <1>3, InitInv, StepInv, PTL DEF Spec, CompleteGateKeepsZero

-----------------------------------------------------------------------------
(* The intended set-up.  StepAt is what the state and the kept state have  *)
(* in common: a step of the ladder, with its percentage, or the first step *)
(* with exposure zero.                                                     *)
StepAt(l, e) ==
    /\ l \in Nat
    /\ l < Len(Ladder)
    /\ e = Ladder[l + 1] \/ (e = 0 /\ l = 0)

OnLadder(stages) ==
    /\ Len(stages) = Len(Ladder)
    /\ \A i \in 1..Len(Ladder) : stages[i].percentage = Ladder[i]

SetUpInv ==
    /\ ControllerInv
    /\ OnLadder(gate.stages)
    /\ StepAt(gate.stage_index, rollout.percentage)
    /\ StepAt(saved.stage_index, saved.percentage)

LEMMA LadderIsSeq ==
    ASSUME IntendedSetUp, NEW r \in Releases
    PROVE  /\ OnLadder(r.stages)
           /\ Len(Ladder) \in Nat \ {0}
           /\ DOMAIN Ladder = 1..Len(Ladder)
           /\ \A i \in 1..Len(Ladder) : Ladder[i] \in Percent
           /\ \A i, j \in 1..Len(Ladder) : i <= j => Ladder[i] <= Ladder[j]
<1>1. r.stages \in Seq(Stages) /\ r.stages # <<>>
    BY ReleasesAssumption DEF ValidRelease
<1>2. DOMAIN r.stages = DOMAIN Ladder
    BY DEF IntendedSetUp
<1>3. \A i \in DOMAIN Ladder : r.stages[i].percentage = Ladder[i]
    BY DEF IntendedSetUp
<1>4. DOMAIN Ladder = 1..Len(r.stages) /\ Len(r.stages) \in Nat
    BY <1>1, <1>2
<1>5. \A i \in DOMAIN Ladder : r.stages[i].percentage \in Percent
    <2>1. \A i \in DOMAIN Ladder : r.stages[i] \in Stages
        BY <1>1, <1>4
    <2> QED BY <2>1 DEF Stages, Percent
<1>6. Ladder \in Seq(Percent)
    <2>1. Ladder = [i \in DOMAIN Ladder |-> Ladder[i]]
        BY DEF Ladder
    <2>2. Ladder \in [1..Len(r.stages) -> Percent]
        BY <1>3, <1>4, <1>5, <2>1
    <2> QED BY <1>4, <2>2
<1>7. Len(Ladder) = Len(r.stages)
    BY <1>4, <1>6
<1>8. \A i, j \in DOMAIN Ladder : i <= j => Ladder[i] <= Ladder[j]
    BY DEF IntendedSetUp
<1> QED BY <1>1, <1>3, <1>4, <1>5, <1>7, <1>8, NonEmptyLength DEF OnLadder

(* On the ladder, the stage a gate is at has the ladder's percentage.      *)
LEMMA StageOnLadder ==
    ASSUME NEW g, ValidGate(g), OnLadder(g.stages)
    PROVE  /\ StageOf(g).percentage = Ladder[g.stage_index + 1]
           /\ g.stage_index \in Nat
           /\ g.stage_index < Len(Ladder)
<1>1. /\ StageOf(g) = g.stages[g.stage_index + 1]
      /\ g.stage_index + 1 \in 1..Len(g.stages)
    BY StageOfType
<1>2. g.stage_index \in Nat
    BY DEF ValidGate, Gates
<1> QED BY <1>1, <1>2 DEF OnLadder

(* A climb is never refused on the ladder: the mark is at or below the     *)
(* next percentage.                                                        *)
LEMMA ClimbAccepted ==
    ASSUME IntendedSetUp, Releases # {}, rollout \in Rollouts, ExposureIsMark,
           StepAt(gate.stage_index, rollout.percentage),
           ValidGate(gate'), OnLadder(gate'.stages), Climbs
    PROVE  /\ gate.stage_index + 1 < Len(Ladder)
           /\ rollout'.percentage = Ladder[gate.stage_index + 2]
<1> DEFINE l == gate.stage_index
           p == StageOf(gate').percentage
<1>1. /\ p = Ladder[gate'.stage_index + 1]
      /\ gate'.stage_index < Len(Ladder)
      /\ gate'.stage_index = l + 1
      /\ rollout' = Advanced(rollout, p)
    BY StageOnLadder DEF Climbs
<1>2. /\ l \in Nat
      /\ rollout.percentage = Ladder[l + 1] \/ rollout.percentage = 0
    BY DEF StepAt
<1>3. rollout.high_water_mark = rollout.percentage
    BY DEF ExposureIsMark
<1> HIDE DEF p, l
<1>4. /\ \A i \in 1..Len(Ladder) : Ladder[i] \in Percent
      /\ \A i, j \in 1..Len(Ladder) : i <= j => Ladder[i] <= Ladder[j]
      /\ Len(Ladder) \in Nat
    BY LadderIsSeq
<1>5. p = Ladder[l + 2] /\ l + 1 < Len(Ladder)
    BY <1>1, <1>2
<1>6. /\ l + 1 \in 1..Len(Ladder) /\ l + 2 \in 1..Len(Ladder)
    BY <1>2, <1>4, <1>5
<1>7. Ladder[l + 1] <= Ladder[l + 2] /\ Ladder[l + 2] \in 0..100
    BY <1>2, <1>4, <1>6 DEF Percent
<1>8. p \in 0..100 /\ rollout.high_water_mark <= p
    <2>1. p \in 0..100
        BY <1>5, <1>7
    <2>2. Ladder[l + 1] <= p
        BY <1>5, <1>7
    <2>3. 0 <= p
        BY <2>1
    <2> QED BY <1>2, <1>3, <2>1, <2>2, <2>3
<1>9. CanAdvance(rollout, p)
    BY <1>8 DEF CanAdvance, InRange
<1>10. rollout'.percentage = p
    BY <1>1, <1>9 DEF Advanced, Rollouts
<1> QED BY <1>5, <1>10 DEF l

LEMMA SetUpInit ==
    ASSUME IntendedSetUp, Init
    PROVE  /\ SetUpInv
           /\ gate.stage_index = 0 /\ rollout.percentage = Ladder[1]
           /\ saved.stage_index = 0 /\ saved.percentage = Ladder[1]
<1>1. PICK s \in Starts, r \in Releases :
          /\ rollout = NewRollout(s.percentage, s.salt)
          /\ gate = NewGate(r.stages, r.failure_limit)
    BY DEF Init
<1>2. /\ gate.stage_index = 0
      /\ gate.stages = r.stages
      /\ rollout.percentage = s.percentage
    BY <1>1 DEF NewRollout, NewGate
<1>3. s.percentage = Ladder[1]
    BY DEF IntendedSetUp
<1>4. /\ OnLadder(r.stages)
      /\ Len(Ladder) \in Nat \ {0}
    BY LadderIsSeq
<1>5. saved = Snapshot(rollout, gate)
    BY DEF Init
<1>6. /\ saved.stage_index = 0
      /\ saved.percentage = Ladder[1]
    BY <1>2, <1>3, <1>5 DEF Snapshot
<1>7. 0 + 1 = 1 /\ 0 < Len(Ladder)
    BY <1>4
<1>8. StepAt(0, Ladder[1])
    BY <1>7 DEF StepAt
<1> QED BY InitInv, <1>2, <1>3, <1>4, <1>6, <1>8 DEF SetUpInv

(* One judged window, seen on the ladder.                                  *)
LEMMA SetUpObserve ==
    ASSUME IntendedSetUp, Releases # {}, SetUpInv,
           NEW w \in Windows, Observe(w)
    PROVE  /\ SetUpInv'
           /\ saved' = saved
           /\ \/ /\ gate'.stage_index = gate.stage_index
                 /\ rollout'.percentage = rollout.percentage
              \/ /\ gate.stage_index + 1 < Len(Ladder)
                 /\ gate'.stage_index = gate.stage_index + 1
                 /\ rollout'.percentage = Ladder[gate.stage_index + 2]
              \/ gate'.stage_index = 0 /\ rollout'.percentage = 0
<1>1. /\ ControllerInv
      /\ OnLadder(gate.stages)
      /\ StepAt(gate.stage_index, rollout.percentage)
      /\ StepAt(saved.stage_index, saved.percentage)
    BY DEF SetUpInv
<1>2. /\ ControllerInv'
      /\ gate'.stages = gate.stages
      /\ saved' = saved
      /\ Stays \/ Climbs \/ Trips
    BY <1>1, ObserveInv
<1>3. /\ OnLadder(gate'.stages)
      /\ StepAt(saved'.stage_index, saved'.percentage)
    BY <1>1, <1>2
<1>4. /\ rollout \in Rollouts /\ ExposureIsMark /\ ValidGate(gate')
    BY <1>1, <1>2 DEF ControllerInv, TypeOK
<1>5. CASE Stays
    <2>1. /\ gate'.stage_index = gate.stage_index
          /\ rollout'.percentage = rollout.percentage
        BY <1>5 DEF Stays
    <2>2. StepAt(gate'.stage_index, rollout'.percentage)
        BY <1>1, <2>1
    <2> QED BY <1>2, <1>3, <2>1, <2>2 DEF SetUpInv
<1>6. CASE Climbs
    <2>1. /\ gate.stage_index + 1 < Len(Ladder)
          /\ rollout'.percentage = Ladder[gate.stage_index + 2]
        BY <1>1, <1>3, <1>4, <1>6, ClimbAccepted
    <2>2. gate'.stage_index = gate.stage_index + 1
        BY <1>6 DEF Climbs
    <2>3. gate.stage_index \in Nat
        BY <1>1 DEF StepAt
    <2>4. gate.stage_index + 1 \in Nat /\ (gate.stage_index + 1) + 1 = gate.stage_index + 2
        BY <2>3
    <2>5. StepAt(gate'.stage_index, rollout'.percentage)
        BY <2>1, <2>2, <2>4 DEF StepAt
    <2> QED BY <1>2, <1>3, <2>1, <2>2, <2>5 DEF SetUpInv
<1>7. CASE Trips
    <2>1. gate'.stage_index = 0 /\ rollout'.percentage = 0
        BY <1>4, <1>7 DEF Trips, ExposureReset, Rollouts
    <2>2. 0 < Len(Ladder)
        BY LadderIsSeq
    <2>3. StepAt(gate'.stage_index, rollout'.percentage)
        BY <2>1, <2>2 DEF StepAt
    <2> QED BY <1>2, <1>3, <2>1, <2>3 DEF SetUpInv
<1> QED BY <1>2, <1>5, <1>6, <1>7

LEMMA SetUpPersist ==
    ASSUME SetUpInv, Persist
    PROVE  /\ SetUpInv'
           /\ gate' = gate /\ rollout' = rollout
           /\ saved'.stage_index = gate.stage_index
           /\ saved'.percentage = rollout.percentage
<1>1. /\ gate' = gate /\ rollout' = rollout
      /\ saved'.stage_index = gate.stage_index
      /\ saved'.percentage = rollout.percentage
    BY DEF Persist, Snapshot
<1>2. ControllerInv'
    BY PersistInv DEF SetUpInv
<1> QED BY <1>1, <1>2 DEF SetUpInv

LEMMA SetUpCrash ==
    ASSUME IntendedSetUp, SetUpInv, NEW r \in Releases, CrashAndRecover(r)
    PROVE  /\ SetUpInv'
           /\ saved' = saved
           /\ gate'.stage_index = saved.stage_index
           /\ rollout'.percentage = saved.percentage
<1>1. /\ ControllerInv'
      /\ gate'.stages = r.stages
      /\ gate'.stage_index = Clamp(saved.stage_index, r.stages)
      /\ rollout'.percentage = saved.percentage
      /\ saved' = saved
    BY CrashInv DEF SetUpInv
<1>2. OnLadder(r.stages) /\ Len(r.stages) = Len(Ladder) /\ Len(Ladder) \in Nat
    BY LadderIsSeq DEF OnLadder
<1>3. StepAt(saved.stage_index, saved.percentage)
    BY DEF SetUpInv
<1>4. saved.stage_index \in Nat /\ saved.stage_index < Len(Ladder)
    BY <1>3 DEF StepAt
<1>5. Clamp(saved.stage_index, r.stages) = saved.stage_index
    BY <1>2, <1>4 DEF Clamp, LastIndex
<1> QED BY <1>1, <1>2, <1>3, <1>5 DEF SetUpInv

(* Without a release there is no behaviour to speak of.                    *)
LEMMA SomeRelease == Init => Releases # {}
BY DEF Init

(* The refinement mapping of Staged, by name.                              *)
Position == [level |-> gate.stage_index, exposure |-> rollout.percentage]
Kept == [level |-> saved.stage_index, exposure |-> saved.percentage]

(* Each step keeps the invariant, and is a step of StagedRollout or none.  *)
LEMMA SetUpStep ==
    ASSUME IntendedSetUp, Releases # {}, SetUpInv, [Next]_vars
    PROVE  /\ SetUpInv'
           /\ [Staged!Next]_<<Position, Kept>>
<1>1. ASSUME NEW w \in Windows, Observe(w)
      PROVE  SetUpInv' /\ [Staged!Next]_<<Position, Kept>>
    <2>1. SetUpInv' /\ saved' = saved
        BY <1>1, SetUpObserve
    <2>2. Kept' = Kept
        BY <2>1 DEF Kept
    <2>3. ASSUME gate'.stage_index = gate.stage_index,
                 rollout'.percentage = rollout.percentage
          PROVE  Position' = Position
        BY <2>3 DEF Position
    <2>4. ASSUME gate.stage_index + 1 < Len(Ladder),
                 gate'.stage_index = gate.stage_index + 1,
                 rollout'.percentage = Ladder[gate.stage_index + 2]
          PROVE  Staged!Climb
        BY <2>2, <2>4 DEF Staged!Climb, Kept
    <2>5. ASSUME gate'.stage_index = 0, rollout'.percentage = 0
          PROVE  Staged!Trip
        BY <2>2, <2>5 DEF Staged!Trip, Staged!Bottom, Kept
    <2>6. \/ Position' = Position
          \/ Staged!Climb
          \/ Staged!Trip
        BY <1>1, <2>3, <2>4, <2>5, SetUpObserve
    <2> QED BY <2>1, <2>2, <2>6 DEF Staged!Next
<1>2. CASE Persist
    <2>1. /\ SetUpInv'
          /\ gate' = gate /\ rollout' = rollout
          /\ saved'.stage_index = gate.stage_index
          /\ saved'.percentage = rollout.percentage
        BY <1>2, SetUpPersist
    <2>2. Staged!Keep
        BY <2>1 DEF Staged!Keep
    <2> QED BY <2>1, <2>2 DEF Staged!Next
<1>3. ASSUME NEW r \in Releases, CrashAndRecover(r)
      PROVE  SetUpInv' /\ [Staged!Next]_<<Position, Kept>>
    <2>1. /\ SetUpInv'
          /\ saved' = saved
          /\ gate'.stage_index = saved.stage_index
          /\ rollout'.percentage = saved.percentage
        BY <1>3, SetUpCrash
    <2>2. Staged!Crash
        BY <2>1 DEF Staged!Crash
    <2> QED BY <2>1, <2>2 DEF Staged!Next
<1>4. ASSUME ControllerInv', UNCHANGED <<rollout, gate, saved>>
      PROVE  SetUpInv' /\ [Staged!Next]_<<Position, Kept>>
    <2>1. Position' = Position /\ Kept' = Kept
        BY <1>4 DEF Position, Kept
    <2> QED BY <1>4, <2>1 DEF SetUpInv
<1>5. ControllerInv'
    BY StepInv DEF SetUpInv
<1>6. ASSUME NEW c \in {"mixed", "healthy", "failing"}, ClimateTurns(c)
      PROVE  UNCHANGED <<rollout, gate, saved>>
    BY <1>6 DEF ClimateTurns
<1>7. CASE UNCHANGED vars
    BY <1>4, <1>5, <1>7 DEF vars
<1> QED BY <1>1, <1>2, <1>3, <1>4, <1>5, <1>6, <1>7 DEF Next

(* In the intended set-up gate and exposure stay in step.                  *)
THEOREM StaysInStep == ASSUME IntendedSetUp PROVE Spec => []InStep
<1>1. SetUpInv => InStep
    <2> SUFFICES ASSUME SetUpInv PROVE InStep
        OBVIOUS
    <2>1. /\ ValidGate(gate) /\ OnLadder(gate.stages)
          /\ StepAt(gate.stage_index, rollout.percentage)
        BY DEF SetUpInv, ControllerInv, TypeOK
    <2>2. StageOf(gate).percentage = Ladder[gate.stage_index + 1]
        BY <2>1, StageOnLadder
    <2> QED BY <2>1, <2>2 DEF StepAt, InStep
<1>2. Init => SetUpInv
    BY SetUpInit
<1>3. CASE Releases # {}
    <2>1. SetUpInv /\ [Next]_vars => SetUpInv'
        BY <1>3, SetUpStep
    <2> QED BY <1>1, <1>2, <2>1, PTL DEF Spec
<1>4. CASE Releases = {}
    <2>1. ~Init
        BY <1>4, SomeRelease
    <2> QED BY <2>1, PTL DEF Spec
<1> QED BY <1>3, <1>4

(* In the intended set-up the controller implements StagedRollout: every   *)
(* judged window, save and crash is one of its steps or changes nothing.   *)
THEOREM ControllerRefinesStaged ==
    ASSUME IntendedSetUp PROVE Spec => ImplementsStagedRollout
<1>1. Init => SetUpInv /\ Staged!Init
    BY SetUpInit DEF Staged!Init, Staged!Start
<1>2. CASE Releases # {}
    <2>1. SetUpInv /\ [Next]_vars => SetUpInv' /\ [Staged!Next]_<<Position, Kept>>
        BY <1>2, SetUpStep
    <2> QED BY <1>1, <2>1, PTL
            DEF Spec, ImplementsStagedRollout, Staged!Spec, Position, Kept
<1>3. CASE Releases = {}
    <2>1. ~Init
        BY <1>3, SomeRelease
    <2> QED BY <2>1, PTL DEF Spec
<1> QED BY <1>2, <1>3
=============================================================================
