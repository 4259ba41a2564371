----------------------------- MODULE Staleness -----------------------------
(***************************************************************************)
(* FlagPolicy::classify (lifecycle.rs) over the life of one flag: days     *)
(* pass, operators edit its percentage, traffic evaluates it, and a        *)
(* removal job classifies it from what its source of facts can see.        *)
(*                                                                         *)
(* Of the last evaluation only its existence is kept: classify does not    *)
(* read how long ago it was.                                               *)
(***************************************************************************)
EXTENDS Integers

CONSTANTS
    Policies,       \* the policies in use
    Percentages,    \* what operators set the percentage to
    None,           \* an Option that is None
    ExtraDays       \* bound: days counted beyond the deadline

ASSUME PercentagesAssumption == Percentages \subseteq 0..100

ASSUME NoneAssumption == None \notin Int

ASSUME PoliciesAssumption ==
    Policies \subseteq [aging_part : Int, aging_of : Nat \ {0},
                        stale_when_fully_rolled_out : BOOLEAN,
                        stale_when_never_evaluated : BOOLEAN]

ASSUME ExtraDaysAssumption == ExtraDays \in Nat \ {0}

VARIABLES
    policy,         \* the FlagPolicy
    facts,          \* the FlagFacts of today
    seesChanges     \* whether the source knows when the flag was changed

vars == <<policy, facts, seesChanges>>

Kinds == {"Release", "Experiment", "Operational", "Permission"}

(* FlagKind::default_lifetime_days.                                        *)
DefaultLifetimeDays(kind) ==
    CASE kind = "Release" -> 30
      [] kind = "Experiment" -> 40
      [] kind = "Operational" -> 90
      [] kind = "Permission" -> None

IsPermanent(kind) == DefaultLifetimeDays(kind) = None

(* The aging ratio is the pair aging_part/aging_of.                        *)
DefaultPolicy ==
    [aging_part |-> 1, aging_of |-> 2,
     stale_when_fully_rolled_out |-> TRUE,
     stale_when_never_evaluated |-> TRUE]

AgeOnly ==
    [DefaultPolicy EXCEPT !.stale_when_fully_rolled_out = FALSE,
                          !.stale_when_never_evaluated = FALSE]

-----------------------------------------------------------------------------
(* A faulty variant: the age of the flag, whatever was changed since.      *)
EffectiveAgeFromCreation(f) == f.age_days

EffectiveAge(f) ==
    IF f.last_changed_age_days # None THEN f.last_changed_age_days ELSE f.age_days

(* A faulty variant: a flag that was evaluated does not age.               *)
AgedPastDeadlineIfUnused(f) ==
    ~f.evaluated /\ EffectiveAge(f) >= DefaultLifetimeDays(f.kind)

AgedPastDeadline(f) == EffectiveAge(f) >= DefaultLifetimeDays(f.kind)

(* A faulty variant: no evaluation in sight is taken for none.             *)
NeverEvaluatedUntracked(p, f) ==
    /\ p.stale_when_never_evaluated
    /\ ~f.evaluated
    /\ f.percentage = 0

NeverEvaluated(p, f) ==
    /\ p.stale_when_never_evaluated
    /\ f.evaluation_tracked
    /\ ~f.evaluated
    /\ f.percentage = 0

FullyRolledOut(p, f) == p.stale_when_fully_rolled_out /\ f.percentage = 100

SignalsOf(p, f) ==
    IF IsPermanent(f.kind) THEN {}
    ELSE {s \in {"AgedPastDeadline", "NeverEvaluated", "FullyRolledOut"} :
            \/ s = "AgedPastDeadline" /\ AgedPastDeadline(f)
            \/ s = "NeverEvaluated" /\ NeverEvaluated(p, f)
            \/ s = "FullyRolledOut" /\ FullyRolledOut(p, f)}

(* A faulty variant: part and whole exchanged.                             *)
AgingInverted(p, f) ==
    EffectiveAge(f) * p.aging_part >= DefaultLifetimeDays(f.kind) * p.aging_of

Aging(p, f) ==
    EffectiveAge(f) * p.aging_of >= DefaultLifetimeDays(f.kind) * p.aging_part

StalenessOf(p, f) ==
    IF IsPermanent(f.kind) THEN "Permanent"
    ELSE IF SignalsOf(p, f) # {} THEN "Stale"
    ELSE IF Aging(p, f) THEN "Aging"
    ELSE "Fresh"

(* FlagPolicy::classify_flag drops the flag it is given.                   *)
ClassifyFlag(p, flag, f) ==
    [staleness |-> StalenessOf(p, f), signals |-> SignalsOf(p, f)]

-----------------------------------------------------------------------------
(* The flag and what its source sees of it.                                *)
LastDay == IF IsPermanent(facts.kind) THEN ExtraDays
           ELSE DefaultLifetimeDays(facts.kind) + ExtraDays

TypeOK ==
    /\ policy \in Policies
    /\ seesChanges \in BOOLEAN
    /\ facts.kind \in Kinds
    /\ facts.age_days \in 0..LastDay
    /\ facts.last_changed_age_days \in 0..facts.age_days \cup {None}
    /\ facts.last_changed_age_days # None => seesChanges
    /\ facts.percentage \in 0..100
    /\ facts.evaluated => facts.evaluation_tracked

Init ==
    /\ policy \in Policies
    /\ seesChanges \in BOOLEAN
    /\ \E k \in Kinds, p \in Percentages, t \in BOOLEAN :
          facts = [kind |-> k, age_days |-> 0, last_changed_age_days |-> None,
                   percentage |-> p, evaluated |-> FALSE,
                   evaluation_tracked |-> t]

(* Ages stop at LastDay, where no comparison of classify tells them apart. *)
OneDayOlder(n) ==
    IF n = None THEN None ELSE IF n < LastDay THEN n + 1 ELSE n

DayPasses ==
    /\ facts.age_days < LastDay \/ facts.last_changed_age_days \in 0..(LastDay - 1)
    /\ facts' = [facts EXCEPT
                    !.age_days = OneDayOlder(@),
                    !.last_changed_age_days = OneDayOlder(@)]
    /\ UNCHANGED <<policy, seesChanges>>

Edit(p) ==
    /\ facts' = [facts EXCEPT
                    !.percentage = p,
                    !.last_changed_age_days = IF seesChanges THEN 0 ELSE @]
    /\ UNCHANGED <<policy, seesChanges>>

(* A faulty variant: a source that does not track evaluations reports one. *)
EvaluateUntracked ==
    /\ facts' = [facts EXCEPT !.evaluated = TRUE]
    /\ UNCHANGED <<policy, seesChanges>>

Evaluate ==
    /\ facts.evaluation_tracked
    /\ facts' = [facts EXCEPT !.evaluated = TRUE]
    /\ UNCHANGED <<policy, seesChanges>>

Next ==
    \/ DayPasses
    \/ \E p \in Percentages : Edit(p)
    \/ Evaluate

Spec == Init /\ [][Next]_vars

(* Time passes.                                                            *)
FairSpec == Spec /\ WF_vars(DayPasses)

-----------------------------------------------------------------------------
Verdict == StalenessOf(policy, facts)

(* Without a new rollout to 100 or 0, a flag is warned about before age    *)
(* makes it stale: the day it passes its deadline it was Aging or stale    *)
(* for another reason, so an automated removal never comes as a surprise   *)
(* (FlagPolicy::classify, aging_ratio).                                    *)
WarnedBeforeStale ==
    [][ (DayPasses /\ Verdict # "Stale" /\ Verdict' = "Stale")
            => Verdict = "Aging" ]_vars

(* Whoever only waits does not see a verdict improve: it takes an edit, or *)
(* the first evaluation, to talk a flag out of being stale, and an edit    *)
(* that is seen gives it its whole life again, unless the percentage alone *)
(* makes it stale.                                                         *)
Severity(v) == CASE v = "Stale" -> 2 [] v = "Aging" -> 1 [] OTHER -> 0

OnlyUseRejuvenates ==
    [][ /\ DayPasses => Severity(Verdict') >= Severity(Verdict)
        /\ \A p \in Percentages :
              (Edit(p) /\ seesChanges /\ p \in 1..99) => Verdict' \in {"Fresh", "Permanent"} ]_vars

(* A source without evaluation telemetry has no evidence that a flag is    *)
(* unused: what is never evaluated as far as it can see, and not rolled    *)
(* out, still gets its whole life, both from its creation and from the     *)
(* last change the source knows of (FlagFacts::evaluation_tracked). The    *)
(* ages are those of the facts, whichever of them classify went by.        *)
UntrackedGetsItsLife ==
    (/\ Verdict = "Stale"
     /\ ~facts.evaluation_tracked
     /\ facts.percentage < 100)
        => \A age \in {facts.age_days, facts.last_changed_age_days} \ {None} :
              age >= DefaultLifetimeDays(facts.kind)

(* A flag that is no longer edited is reported in the end, unless its kind *)
(* is permanent: evaluations alone do not keep it alive.                   *)
AbandonedFlagIsReported ==
    ~IsPermanent(facts.kind)
        => (<>[][~\E p \in Percentages : Edit(p)]_vars => <>[](Verdict = "Stale"))

(* "Classifies a stored Flag, using its created_at for age. When the flag  *)
(* carries no timestamp the age is unknown, which is reported as Fresh     *)
(* rather than guessed" (lifecycle.rs, FlagPolicy::classify_flag): a flag  *)
(* as Flag::new makes it is not called stale for its age.                  *)
UndatedFlagIsNotAged ==
    "AgedPastDeadline" \notin
        ClassifyFlag(policy, [percentage |-> facts.percentage, created_at |-> None],
                     facts).signals
=============================================================================
