------------------------------ MODULE Rollout ------------------------------
(***************************************************************************)
(* One Rollout in the hands of its owner.  Every method takes &mut self,   *)
(* so calls are sequential and each is one step; a caller may make any     *)
(* call with any u8 at any time.  Recreate is a process restart: the mark  *)
(* is private and has no setter, so what comes back is Rollout::new on the *)
(* percentage and salt the owner kept.                                     *)
(***************************************************************************)
EXTENDS RolloutOps

CONSTANTS
    Requests,       \* the percentages callers ask for
    Orgs, NoOrg,    \* organisations, and none
    OrgBucket       \* the unsalted bucket with an organisation

ASSUME RequestsAssumption == Requests \subseteq Byte

VARIABLES
    rollout,    \* the Rollout
    answer,     \* what the last call told its caller: accepted or not
    granted,    \* history: percentages granted by new/advance in this cycle
    exposed     \* history: subjects a grant has exposed in this cycle

vars == <<rollout, answer, granted, exposed>>

TypeOK ==
    /\ rollout \in Rollouts
    /\ answer \in BOOLEAN
    /\ granted \in SUBSET Percent
    /\ exposed \in SUBSET Subjects

-----------------------------------------------------------------------------
New(p, s) ==
    /\ InRange(p)
    /\ rollout = NewRollout(p, s)
    /\ answer = TRUE
    /\ granted = {p}
    /\ exposed = Cohort(rollout)

Init == \E p \in Requests, s \in Salts : New(p, s)

(* A call of advance and what it adds to the history.                      *)
Promote(p) ==
    /\ rollout' = Advanced(rollout, p)
    /\ IF CanAdvance(rollout, p)
       THEN /\ granted' = granted \cup {p}
            /\ exposed' = exposed \cup Cohort(rollout')
       ELSE UNCHANGED <<granted, exposed>>

Advance(p) ==
    /\ Promote(p)
    /\ answer' = CanAdvance(rollout, p)

(* The gate closure is asked only once the advance is done, and its answer *)
(* is the caller's answer.                                                 *)
AdvanceIfHealthy(p, passes) ==
    /\ Promote(p)
    /\ answer' = (CanAdvance(rollout, p) /\ passes)

Rollback(p) ==
    /\ rollout' = RolledBack(rollout, p)
    /\ answer' = InRange(p)
    /\ UNCHANGED <<granted, exposed>>

(* Zero exposure opens a new history: nothing is granted but zero.         *)
FreshHistory ==
    /\ answer' = TRUE
    /\ granted' = {0}
    /\ exposed' = {}

ResetExposure ==
    /\ rollout' = ExposureReset(rollout)
    /\ FreshHistory

StartCycle(s) ==
    /\ rollout' = NewCycle(rollout, s)
    /\ FreshHistory

Recreate ==
    /\ rollout' = NewRollout(rollout.percentage, rollout.salt)
    /\ answer' = TRUE
    /\ granted' = {rollout.percentage}
    /\ exposed' = Cohort(rollout')

Next ==
    \/ \E p \in Requests : Advance(p)
    \/ \E p \in Requests, passes \in BOOLEAN : AdvanceIfHealthy(p, passes)
    \/ \E p \in Requests : Rollback(p)
    \/ ResetExposure
    \/ \E s \in Salts : StartCycle(s)
    \/ Recreate

Spec == Init /\ [][Next]_vars

-----------------------------------------------------------------------------
(* The mark remembers the cycle across rollbacks: it is the highest level  *)
(* granted since the cycle began, however often the exposure was rolled    *)
(* back in between (high_water_mark, lifecycle.rs).                        *)
MarkIsHighestGrant ==
    /\ rollout.high_water_mark \in granted
    /\ \A g \in granted : g <= rollout.high_water_mark

(* Nobody a promotion exposed is lost for good: whatever rollbacks came in *)
(* between, the lowest promotion the mark still admits exposes again every *)
(* subject that any promotion of this cycle exposed.                       *)
NextPromotionRestoresSubjects ==
    exposed \subseteq Cohort(Advanced(rollout, rollout.high_water_mark))

(* "salt == "" is equivalent to the unsalted bucket, so an uncycled flag   *)
(* behaves exactly as it did before this module existed" (lifecycle.rs,    *)
(* rollout_decision): whoever a rollout without a cycle exposes gets the   *)
(* same answer from a stored flag with its percentage, from the evaluator  *)
(* for one flag or for all, and from either helper.                        *)
Flag == "flag"

Eval == INSTANCE EvalOps WITH
    Names <- {Flag}, Users <- Subjects,
    NameBucket <- [n \in {Flag} |-> UnsaltedBucket]

UncycledDecidesLikeFlag ==
    rollout.salt = EmptySalt =>
        LET stored == [enabled |-> TRUE, percentage |-> rollout.percentage] IN
        \A u \in Subjects :
            /\ u \in Cohort(rollout)
                   <=> Eval!EnabledFor([n \in {Flag} |-> stored], Flag, u)
            /\ u \in Cohort(rollout) <=> Eval!BulkDecision(stored, Flag, u)
            /\ u \in Cohort(rollout) <=> Eval!InRollout(Flag, u, rollout.percentage)
            /\ u \in Cohort(rollout)
                   <=> Eval!InRolloutForOrg(Flag, u, NoOrg, rollout.percentage)

(* A step that keeps the salt and raises the mark is a promotion.          *)
IsPromotion ==
    \E p \in Requests : Advance(p) \/ \E b \in BOOLEAN : AdvanceIfHealthy(p, b)

(* A promotion never drops a subject, as long as no rollback has lifted    *)
(* the exposure above the mark (Rollout::advance "never silently shrinks").*)
PromotionKeepsSubjects ==
    [][ (IsPromotion /\ rollout.percentage <= rollout.high_water_mark)
            => Cohort(rollout) \subseteq Cohort(rollout') ]_vars

(* After a rollback below the mark only a promotion back to the mark, a    *)
(* reset, a new cycle or a restart gets out: no call creeps up in between  *)
(* except another explicit rollback.                                       *)
NoClimbBelowMark ==
    [][ (IsPromotion /\ rollout' # rollout)
            => \A g \in granted : rollout'.percentage >= g ]_vars

-----------------------------------------------------------------------------
(* "Rollback is deliberately not reachable through this method: a rollout  *)
(* never silently shrinks" (lifecycle.rs, Rollout::advance), without the   *)
(* condition of PromotionKeepsSubjects.                                    *)
PromotionNeverShrinks ==
    [][IsPromotion => rollout'.percentage >= rollout.percentage]_vars

(* "Advances only while gate passes, returning whether it promoted"        *)
(* (lifecycle.rs, Rollout::advance_if_healthy): a call that returns false  *)
(* has not moved the exposure.                                             *)
RefusedGateKeepsExposure ==
    [][ \A p \in Requests :
          (AdvanceIfHealthy(p, FALSE) /\ ~answer')
              => rollout'.percentage = rollout.percentage ]_vars
=============================================================================
