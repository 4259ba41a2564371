----------------------------- MODULE RolloutOps -----------------------------
(***************************************************************************)
(* The value type Rollout of lifecycle.rs and its methods, as operators on *)
(* a record: what each method returns and the record it leaves behind.     *)
(* A rollout belongs to one flag, so the flag's name is left out and the   *)
(* bucket of a subject depends on the salt alone.                          *)
(***************************************************************************)
EXTENDS Integers

CONSTANTS
    Subjects,       \* user ids
    Salts,          \* cohort identifiers
    EmptySalt,      \* the salt ""
    UnsaltedBucket, \* eval::bucket(flag, user), a function of the user
    SaltedBucket    \* lifecycle::bucket_salted(flag, user, salt)

ASSUME EmptySaltAssumption == EmptySalt \in Salts

ASSUME BucketAssumption ==
    /\ UnsaltedBucket \in [Subjects -> 0..99]
    /\ SaltedBucket \in [Salts -> [Subjects -> 0..99]]

Percent == 0..100
Byte == 0..255      \* u8: what a caller may pass as a percentage

Rollouts == [percentage : Percent, salt : Salts, high_water_mark : Percent]

-----------------------------------------------------------------------------
(* Every method that takes a percentage refuses one above 100.             *)
InRange(p) == p <= 100

NewRollout(p, s) == [percentage |-> p, salt |-> s, high_water_mark |-> p]

(* Faulty variants of CanAdvance: any percentage is accepted, or the       *)
(* current percentage is taken for the mark.                               *)
CanAdvanceAnywhere(r, p) == InRange(p)

CanAdvanceFromCurrent(r, p) == InRange(p) /\ p >= r.percentage

(* Rollout::advance: accepted at or above the mark, which it then becomes. *)
CanAdvance(r, p) == InRange(p) /\ p >= r.high_water_mark

(* A faulty variant: the mark stays behind.                                *)
AdvancedWithoutMark(r, p) ==
    IF CanAdvance(r, p) THEN [r EXCEPT !.percentage = p] ELSE r

Advanced(r, p) ==
    IF CanAdvance(r, p)
    THEN [r EXCEPT !.percentage = p, !.high_water_mark = p]
    ELSE r

(* Faulty variants of RolledBack: no range check, or the mark follows.     *)
RolledBackUnchecked(r, p) == [r EXCEPT !.percentage = p]

RolledBackWithMark(r, p) ==
    IF InRange(p) THEN [r EXCEPT !.percentage = p, !.high_water_mark = p] ELSE r

(* Rollout::rollback moves the percentage, in either direction, and leaves *)
(* the mark alone.                                                         *)
RolledBack(r, p) == IF InRange(p) THEN [r EXCEPT !.percentage = p] ELSE r

(* Faulty variants of ExposureReset: a plain rollback to zero, or a reset  *)
(* that loses the cohort.                                                  *)
ExposureResetKeepsMark(r) == [r EXCEPT !.percentage = 0]

ExposureResetLosesSalt(r) ==
    [r EXCEPT !.percentage = 0, !.high_water_mark = 0, !.salt = EmptySalt]

ExposureReset(r) == [r EXCEPT !.percentage = 0, !.high_water_mark = 0]

NewCycle(r, s) ==
    [r EXCEPT !.salt = s, !.percentage = 0, !.high_water_mark = 0]

-----------------------------------------------------------------------------
(* A faulty variant: the empty salt is hashed like any other.              *)
BucketOfAnySalt(u, s) == SaltedBucket[s][u]

(* rollout_decision: the uncycled flag keeps the unsalted bucket.          *)
BucketOf(u, s) ==
    IF s = EmptySalt THEN UnsaltedBucket[u] ELSE SaltedBucket[s][u]

Decision(u, p, s) ==
    [enabled |-> p >= 100 \/ BucketOf(u, s) < p, bucket |-> BucketOf(u, s)]

Evaluate(r, u) == Decision(u, r.percentage, r.salt)

(* The subjects a rollout exposes to the flag.                             *)
Cohort(r) == {u \in Subjects : Evaluate(r, u).enabled}
=============================================================================
