---------------------------- MODULE RolloutProofs ----------------------------
(***************************************************************************)
(* Proofs about Rollout for every set of subjects, salts and requests and  *)
(* every bucket function.                                                  *)
(***************************************************************************)
EXTENDS Rollout, MethodProofs

(* The inductive invariant: types, the mark as the highest grant, and all  *)
(* that a promotion has exposed within the cohort of the mark.             *)
AtMark(r) == [r EXCEPT !.percentage = r.high_water_mark]

RolloutInv ==
    /\ TypeOK
    /\ MarkIsHighestGrant
    /\ exposed \subseteq Cohort(AtMark(rollout))

LEMMA InitInv == Init => RolloutInv
<1> SUFFICES ASSUME NEW p \in Requests, NEW s \in Salts, New(p, s)
             PROVE  RolloutInv
    BY DEF Init
<1>1. p \in Percent /\ rollout \in Rollouts
    <2>1. p \in Byte /\ InRange(p)
        BY RequestsAssumption DEF New
    <2>2. p \in Percent
        BY <2>1 DEF InRange, Percent, Byte
    <2>3. NewRollout(p, s) \in Rollouts
        BY <2>2 DEF NewRollout, Rollouts
    <2> QED BY <2>2, <2>3 DEF New
<1>2. AtMark(rollout) = rollout
    BY <1>1 DEF New, NewRollout, AtMark
<1>3. TypeOK
    BY <1>1, CohortType DEF New, TypeOK
<1>4. MarkIsHighestGrant
    BY <1>1 DEF New, NewRollout, MarkIsHighestGrant, Percent
<1> QED BY <1>2, <1>3, <1>4 DEF RolloutInv, New

(* An accepted promotion is at or above the mark, so it exposes all that   *)
(* earlier ones did; a refused one changes nothing.                        *)
LEMMA PromoteInv ==
    ASSUME RolloutInv, NEW p \in Requests, Promote(p), answer' \in BOOLEAN
    PROVE  RolloutInv'
<1> p \in Byte
    BY RequestsAssumption
<1> USE DEF RolloutInv, TypeOK
<1>1. rollout' \in Rollouts
    BY OpsTypes DEF Promote, Rollouts
<1>2. CASE CanAdvance(rollout, p)
    <2>1. p \in Percent /\ p >= rollout.high_water_mark
        BY <1>2 DEF CanAdvance, InRange, Percent, Byte
    <2>2. /\ rollout' = [rollout EXCEPT !.percentage = p, !.high_water_mark = p]
          /\ granted' = granted \cup {p}
          /\ exposed' = exposed \cup Cohort(rollout')
        BY <1>2 DEF Promote, Advanced
    <2>3. /\ AtMark(rollout') = rollout'
          /\ rollout'.high_water_mark = p
          /\ rollout'.percentage = p
          /\ rollout'.salt = rollout.salt
        BY <2>1, <2>2 DEF AtMark, Rollouts
    <2>4. /\ AtMark(rollout) \in Rollouts
          /\ AtMark(rollout).salt = rollout.salt
          /\ AtMark(rollout).percentage = rollout.high_water_mark
        BY DEF AtMark, Rollouts
    <2>5. Cohort(AtMark(rollout)) \subseteq Cohort(rollout')
        BY <1>1, <2>1, <2>3, <2>4, CohortMonotone
           DEF Percent, Rollouts
    <2>6. exposed' \subseteq Cohort(AtMark(rollout'))
        BY <2>2, <2>3, <2>5
    <2>7. MarkIsHighestGrant'
        <3>1. \A g \in granted : g <= rollout.high_water_mark
            BY DEF MarkIsHighestGrant
        <3>2. \A g \in granted : g <= p
            BY <2>1, <3>1 DEF Percent, Rollouts
        <3> QED BY <2>1, <2>2, <2>3, <3>2 DEF MarkIsHighestGrant, Percent
    <2>8. TypeOK'
        BY <1>1, <2>1, <2>2, CohortType
    <2> QED BY <2>6, <2>7, <2>8
<1>3. CASE ~CanAdvance(rollout, p)
    BY <1>3 DEF Promote, Advanced, MarkIsHighestGrant
<1> QED BY <1>2, <1>3

LEMMA RollbackInv ==
    ASSUME RolloutInv, NEW p \in Requests, Rollback(p)
    PROVE  RolloutInv'
<1> p \in Byte
    BY RequestsAssumption
<1> USE DEF RolloutInv, TypeOK
<1>1. rollout' \in Rollouts
    BY OpsTypes DEF Rollback, Rollouts
<1>2. /\ rollout'.high_water_mark = rollout.high_water_mark
      /\ AtMark(rollout') = AtMark(rollout)
    BY DEF Rollback, RolledBack, AtMark, Rollouts
<1>3. TypeOK'
    BY <1>1 DEF Rollback, InRange
<1> QED BY <1>2, <1>3 DEF Rollback, MarkIsHighestGrant

(* Zero exposure with a cleared mark starts the history again.             *)
LEMMA FreshInv ==
    ASSUME RolloutInv, FreshHistory,
           rollout' \in Rollouts, rollout'.high_water_mark = 0
    PROVE  RolloutInv'
BY DEF RolloutInv, TypeOK, FreshHistory, MarkIsHighestGrant, Percent

LEMMA RecreateInv ==
    ASSUME RolloutInv, Recreate
    PROVE  RolloutInv'
<1> USE DEF RolloutInv, TypeOK
<1>1. rollout' \in Rollouts /\ rollout.percentage \in Percent
    BY DEF Recreate, NewRollout, Rollouts
<1>2. AtMark(rollout') = rollout'
    BY <1>1 DEF Recreate, NewRollout, AtMark
<1>3. MarkIsHighestGrant'
    BY <1>1 DEF Recreate, NewRollout, MarkIsHighestGrant, Percent
<1>4. TypeOK'
    BY <1>1, CohortType DEF Recreate
<1> QED BY <1>2, <1>3, <1>4 DEF Recreate

LEMMA StepInv == RolloutInv /\ [Next]_vars => RolloutInv'
<1> SUFFICES ASSUME RolloutInv, [Next]_vars
             PROVE  RolloutInv'
    OBVIOUS
<1>0. \A s \in Salts :
          /\ ExposureReset(rollout) \in Rollouts
          /\ ExposureReset(rollout).high_water_mark = 0
          /\ NewCycle(rollout, s) \in Rollouts
          /\ NewCycle(rollout, s).high_water_mark = 0
    <2> TAKE s \in Salts
    <2>1. rollout \in Rollouts /\ 0 \in Byte
        BY DEF RolloutInv, TypeOK, Byte
    <2>2. ExposureReset(rollout) \in Rollouts /\ NewCycle(rollout, s) \in Rollouts
        BY <2>1, OpsTypes
    <2> QED BY <2>1, <2>2 DEF ExposureReset, NewCycle, Rollouts
<1>1. ASSUME NEW p \in Requests, Advance(p)
      PROVE  RolloutInv'
    <2>1. answer' \in BOOLEAN
        BY <1>1 DEF Advance, CanAdvance, InRange
    <2> QED BY <1>1, <2>1, PromoteInv DEF Advance
<1>2. ASSUME NEW p \in Requests, NEW passes \in BOOLEAN,
             AdvanceIfHealthy(p, passes)
      PROVE  RolloutInv'
    <2>1. answer' \in BOOLEAN
        BY <1>2 DEF AdvanceIfHealthy
    <2> QED BY <1>2, <2>1, PromoteInv DEF AdvanceIfHealthy
<1>3. ASSUME NEW p \in Requests, Rollback(p)
      PROVE  RolloutInv'
    BY <1>3, RollbackInv
<1>4. CASE ResetExposure
    BY <1>4, <1>0, EmptySaltAssumption, FreshInv DEF ResetExposure
<1>5. ASSUME NEW s \in Salts, StartCycle(s)
      PROVE  RolloutInv'
    BY <1>5, <1>0, FreshInv DEF StartCycle
<1>6. CASE Recreate
    BY <1>6, RecreateInv
<1>7. CASE UNCHANGED vars
    BY <1>7 DEF vars, RolloutInv, TypeOK, MarkIsHighestGrant
<1> QED BY <1>1, <1>2, <1>3, <1>4, <1>5, <1>6, <1>7 DEF Next

(* Rollout's state stays well typed: whatever u8 callers pass, percentage  *)
(* and mark stay in 0..100.                                                *)
THEOREM RolloutTypes == Spec => []TypeOK
BY InitInv, StepInv, PTL DEF Spec, RolloutInv

(* The mark is the highest percentage granted in the cycle, whatever       *)
(* rollbacks came in between.                                              *)
THEOREM MarkRemembers == Spec => []MarkIsHighestGrant
BY InitInv, StepInv, PTL DEF Spec, RolloutInv

(* Going back to the mark exposes again every subject that promotions of   *)
(* the cycle exposed.                                                      *)
THEOREM SubjectsComeBack == Spec => []NextPromotionRestoresSubjects
<1>1. RolloutInv => NextPromotionRestoresSubjects
    BY AdvanceToMark DEF RolloutInv, TypeOK, AtMark, NextPromotionRestoresSubjects
<1> QED BY <1>1, InitInv, StepInv, PTL DEF Spec

(* A promotion keeps every exposed subject as long as the exposure is not  *)
(* above the mark.                                                         *)
THEOREM PromotionsKeepSubjects == Spec => PromotionKeepsSubjects
<1>1. ASSUME RolloutInv, NEW p \in Requests, Promote(p),
             rollout.percentage <= rollout.high_water_mark
      PROVE  Cohort(rollout) \subseteq Cohort(rollout')
    <2> rollout \in Rollouts /\ p \in Byte
        BY <1>1, RequestsAssumption DEF RolloutInv, TypeOK
    <2>1. rollout' = Advanced(rollout, p) /\ rollout' \in Rollouts
        BY <1>1, OpsTypes DEF Promote, Rollouts
    <2>2. CASE CanAdvance(rollout, p)
        <3>1. rollout'.salt = rollout.salt /\ rollout'.percentage = p
            BY <2>1, <2>2 DEF Advanced, Rollouts
        <3>2. rollout.percentage <= p
            BY <1>1, <2>2 DEF CanAdvance, Rollouts, Percent, Byte
        <3> QED BY <2>1, <3>1, <3>2, CohortMonotone
    <2>3. CASE ~CanAdvance(rollout, p)
        BY <2>1, <2>3 DEF Advanced
    <2> QED BY <2>2, <2>3
<1>2. RolloutInv /\ [Next]_vars =>
        [ (IsPromotion /\ rollout.percentage <= rollout.high_water_mark)
            => Cohort(rollout) \subseteq Cohort(rollout') ]_vars
    BY <1>1 DEF IsPromotion, Advance, AdvanceIfHealthy
<1> QED BY <1>2, InitInv, StepInv, PTL DEF Spec, PromotionKeepsSubjects

(* A promotion that moves the rollout goes at least as high as every level *)
(* the cycle was granted before.                                           *)
THEOREM NothingClimbsBelowMark == Spec => NoClimbBelowMark
<1>1. ASSUME RolloutInv, NEW p \in Requests, Promote(p), rollout' # rollout
      PROVE  \A g \in granted : rollout'.percentage >= g
    <2>1. rollout \in Rollouts /\ granted \subseteq Percent
          /\ \A g \in granted : g <= rollout.high_water_mark
        BY <1>1 DEF RolloutInv, TypeOK, MarkIsHighestGrant
    <2>2. rollout' = Advanced(rollout, p)
        BY <1>1 DEF Promote
    <2>3. CanAdvance(rollout, p)
        BY <1>1, <2>2 DEF Advanced
    <2>4. rollout'.percentage = p
        BY <2>1, <2>2, <2>3 DEF Advanced, Rollouts
    <2>5. /\ rollout.high_water_mark \in Int
          /\ p \in Int
          /\ rollout.high_water_mark <= p
        BY <2>1, <2>3, RequestsAssumption DEF CanAdvance, Rollouts, Percent, Byte
    <2>6. ASSUME NEW g \in granted
          PROVE  rollout'.percentage >= g
        <3>1. g \in Int /\ g <= rollout.high_water_mark
            BY <2>1 DEF Percent
        <3> QED BY <2>4, <2>5, <3>1
    <2> QED BY <2>6
<1>2. RolloutInv /\ [Next]_vars =>
        [ (IsPromotion /\ rollout' # rollout)
            => \A g \in granted : rollout'.percentage >= g ]_vars
    BY <1>1 DEF IsPromotion, Advance, AdvanceIfHealthy
<1> QED BY <1>2, InitInv, StepInv, PTL DEF Spec, NoClimbBelowMark

(* A bucket is below 100, so the shortcut that each of the four paths takes*)
(* at 0 or at 100 percent is what the comparison alone would have said.    *)
LEMMA UncycledPaths ==
    ASSUME NEW r \in Rollouts, r.salt = EmptySalt, NEW u \in Subjects
    PROVE  LET stored == [enabled |-> TRUE, percentage |-> r.percentage] IN
           /\ u \in Cohort(r) <=> UnsaltedBucket[u] < r.percentage
           /\ Eval!EnabledFor([n \in {Flag} |-> stored], Flag, u)
                 <=> UnsaltedBucket[u] < r.percentage
           /\ Eval!BulkDecision(stored, Flag, u)
                 <=> UnsaltedBucket[u] < r.percentage
           /\ Eval!InRollout(Flag, u, r.percentage)
                 <=> UnsaltedBucket[u] < r.percentage
           /\ Eval!InRolloutForOrg(Flag, u, NoOrg, r.percentage)
                 <=> UnsaltedBucket[u] < r.percentage
<1> DEFINE p == r.percentage
           b == UnsaltedBucket[u]
           stored == [enabled |-> TRUE, percentage |-> p]
           m == [n \in {Flag} |-> stored]
<1>1. p \in 0..100 /\ b \in 0..99
    BY BucketAssumption DEF Rollouts, Percent
<1>2. p >= 100 => b < p
    BY <1>1
<1>3. p = 0 => ~(b < p)
    BY <1>1
<1>4. u \in Cohort(r) <=> b < p
    <2>1. Evaluate(r, u).enabled = (p >= 100 \/ b < p)
        BY DEF Evaluate, Decision, BucketOf
    <2> QED BY <2>1, <1>2 DEF Cohort
<1>5. m[Flag] = stored /\ Flag \in DOMAIN m /\ stored.enabled = TRUE /\ stored.percentage = p
    OBVIOUS
<1>6. [n \in {Flag} |-> UnsaltedBucket][Flag][u] = b
    OBVIOUS
<1>7. Eval!EnabledFor(m, Flag, u) <=> (p # 0 /\ (p = 100 \/ b < p))
    BY <1>5, <1>6 DEF Eval!EnabledFor, Eval!Enabled
<1>8. Eval!BulkDecision(stored, Flag, u)
          <=> (IF p = 0 THEN FALSE ELSE p = 100 \/ b < p)
    BY <1>5, <1>6 DEF Eval!BulkDecision
<1>9. Eval!InRollout(Flag, u, p) <=> b < p
    BY <1>6 DEF Eval!InRollout
<1>10. Eval!InRolloutForOrg(Flag, u, NoOrg, p) <=> b < p
    BY <1>6 DEF Eval!InRolloutForOrg, Eval!BucketWithOrg
<1>11. /\ (p # 0 /\ (p = 100 \/ b < p)) <=> b < p
       /\ (IF p = 0 THEN FALSE ELSE p = 100 \/ b < p) <=> b < p
    BY <1>1
<1> QED BY <1>4, <1>7, <1>8, <1>9, <1>10, <1>11

(* A rollout that never got a salt answers as a stored flag of the same    *)
(* percentage does, through the evaluator, for one flag or for all, and    *)
(* through both helpers (rollout_decision).                                *)
THEOREM UncycledIsPlainFlag == Spec => []UncycledDecidesLikeFlag
<1>1. TypeOK => UncycledDecidesLikeFlag
    BY UncycledPaths DEF TypeOK, UncycledDecidesLikeFlag
<1> QED BY <1>1, RolloutTypes, PTL
=============================================================================
