-------------------------- MODULE StalenessProofs --------------------------
(***************************************************************************)
(* Proofs about FlagPolicy for every policy, every set of percentages and  *)
(* a life of any length.                                                   *)
(***************************************************************************)
EXTENDS Staleness, TLAPS

FactsTypes ==
    [kind : Kinds, age_days : Int, last_changed_age_days : Int \cup {None},
     percentage : 0..100, evaluated : BOOLEAN, evaluation_tracked : BOOLEAN]

(* The inductive invariant.                                                *)
FactsInv == TypeOK /\ facts \in FactsTypes

(* A kind is permanent or has a whole number of days to live.              *)
LEMMA Lifetimes ==
    ASSUME NEW kind \in Kinds
    PROVE  \/ IsPermanent(kind) /\ DefaultLifetimeDays(kind) = None
           \/ ~IsPermanent(kind) /\ DefaultLifetimeDays(kind) \in {30, 40, 90}
BY NoneAssumption DEF Kinds, IsPermanent, DefaultLifetimeDays

LEMMA LastDayType ==
    ASSUME FactsInv
    PROVE  LastDay \in Nat
BY Lifetimes, ExtraDaysAssumption DEF FactsInv, FactsTypes, LastDay

LEMMA InitInv == Init => FactsInv
<1> SUFFICES ASSUME Init
             PROVE  FactsInv
    OBVIOUS
<1>1. PICK k \in Kinds, p \in Percentages, t \in BOOLEAN :
          facts = [kind |-> k, age_days |-> 0, last_changed_age_days |-> None,
                   percentage |-> p, evaluated |-> FALSE, evaluation_tracked |-> t]
    BY DEF Init
<1>2. facts \in FactsTypes
    BY <1>1, PercentagesAssumption DEF FactsTypes
<1>3. LastDay \in Nat
    BY <1>1, Lifetimes, ExtraDaysAssumption DEF LastDay
<1>4. TypeOK
    BY <1>1, <1>2, <1>3, PercentagesAssumption DEF Init, TypeOK
<1> QED BY <1>2, <1>4 DEF FactsInv

LEMMA DayPassesInv ==
    ASSUME FactsInv, DayPasses
    PROVE  FactsInv'
<1>1. /\ facts \in FactsTypes
      /\ LastDay \in Nat
      /\ facts.age_days \in 0..LastDay
      /\ facts.last_changed_age_days \in 0..facts.age_days \cup {None}
    BY LastDayType DEF FactsInv, TypeOK
<1>2. facts' = [facts EXCEPT
                    !.age_days = OneDayOlder(facts.age_days),
                    !.last_changed_age_days = OneDayOlder(facts.last_changed_age_days)]
    BY DEF DayPasses
<1>3. OneDayOlder(facts.age_days)
          = IF facts.age_days < LastDay THEN facts.age_days + 1 ELSE facts.age_days
    BY <1>1, NoneAssumption DEF OneDayOlder
<1>4. OneDayOlder(facts.age_days) \in 0..LastDay
    BY <1>1, <1>3
<1>5. \/ /\ facts.last_changed_age_days = None
         /\ OneDayOlder(facts.last_changed_age_days) = None
      \/ /\ facts.last_changed_age_days # None
         /\ OneDayOlder(facts.last_changed_age_days)
                \in 0..OneDayOlder(facts.age_days)
    BY <1>1, <1>3, NoneAssumption DEF OneDayOlder
<1>6. facts' \in FactsTypes
    <2>1. OneDayOlder(facts.age_days) \in Int
        BY <1>1, <1>4
    <2>2. OneDayOlder(facts.last_changed_age_days) \in Int \cup {None}
        BY <1>5
    <2> QED BY <1>1, <1>2, <2>1, <2>2 DEF FactsTypes
<1>7. LastDay' = LastDay
    BY <1>1, <1>2 DEF LastDay, FactsTypes
<1>8. /\ facts'.kind = facts.kind
      /\ facts'.age_days = OneDayOlder(facts.age_days)
      /\ facts'.last_changed_age_days = OneDayOlder(facts.last_changed_age_days)
      /\ facts'.percentage = facts.percentage
      /\ facts'.evaluated = facts.evaluated
      /\ facts'.evaluation_tracked = facts.evaluation_tracked
    BY <1>1, <1>2 DEF FactsTypes
<1>9. TypeOK'
    BY <1>4, <1>5, <1>7, <1>8 DEF FactsInv, TypeOK, DayPasses
<1> QED BY <1>6, <1>9 DEF FactsInv

LEMMA EditInv ==
    ASSUME FactsInv, NEW p \in Percentages, Edit(p)
    PROVE  FactsInv'
<1>1. facts \in FactsTypes /\ p \in 0..100 /\ LastDay \in Nat
    BY PercentagesAssumption, LastDayType DEF FactsInv
<1>2. /\ facts'.kind = facts.kind
      /\ facts'.age_days = facts.age_days
      /\ facts'.last_changed_age_days
              = IF seesChanges THEN 0 ELSE facts.last_changed_age_days
      /\ facts'.percentage = p
      /\ facts'.evaluated = facts.evaluated
      /\ facts'.evaluation_tracked = facts.evaluation_tracked
    BY <1>1 DEF Edit, FactsTypes
<1>3. facts' \in FactsTypes
    <2>1. PICK n : n = IF seesChanges THEN 0 ELSE facts.last_changed_age_days
        OBVIOUS
    <2>2. n \in Int \cup {None}
        BY <1>1, <2>1 DEF FactsTypes
    <2>3. facts' = [facts EXCEPT !.percentage = p, !.last_changed_age_days = n]
        BY <2>1 DEF Edit
    <2> QED BY <1>1, <2>2, <2>3 DEF FactsTypes
<1>4. LastDay' = LastDay
    BY <1>2 DEF LastDay
<1>5. TypeOK'
    BY <1>1, <1>2, <1>4, NoneAssumption DEF Edit, FactsInv, TypeOK
<1> QED BY <1>3, <1>5 DEF FactsInv

LEMMA EvaluateInv ==
    ASSUME FactsInv, Evaluate
    PROVE  FactsInv'
<1>1. facts \in FactsTypes
    BY DEF FactsInv
<1>2. /\ facts'.kind = facts.kind
      /\ facts'.age_days = facts.age_days
      /\ facts'.last_changed_age_days = facts.last_changed_age_days
      /\ facts'.percentage = facts.percentage
      /\ facts'.evaluation_tracked = facts.evaluation_tracked
      /\ facts.evaluation_tracked
    BY <1>1 DEF Evaluate, FactsTypes
<1>3. facts' \in FactsTypes
    BY <1>1 DEF Evaluate, FactsTypes
<1>4. LastDay' = LastDay
    BY <1>2 DEF LastDay
<1>5. TypeOK'
    BY <1>2, <1>4 DEF Evaluate, FactsInv, TypeOK
<1> QED BY <1>3, <1>5 DEF FactsInv

LEMMA StepInv == FactsInv /\ [Next]_vars => FactsInv'
<1> SUFFICES ASSUME FactsInv, [Next]_vars
             PROVE  FactsInv'
    OBVIOUS
<1>1. CASE UNCHANGED vars
    BY <1>1 DEF vars, FactsInv, TypeOK, LastDay
<1> QED BY <1>1, DayPassesInv, EditInv, EvaluateInv DEF Next

LEMMA FactsInvariant == Spec => []FactsInv
BY InitInv, StepInv, PTL DEF Spec

-----------------------------------------------------------------------------
(* The facts about a flag stay within what classify expects: no change     *)
(* before the creation, no evaluation by a source that tracks none.        *)
THEOREM StalenessTypes == Spec => []TypeOK
<1>1. FactsInv => TypeOK
    BY DEF FactsInv
<1> QED BY <1>1, FactsInvariant, PTL

(* Without evaluation telemetry a flag that is not rolled out is stale     *)
(* only once its lifetime is over, counted from its creation and from the  *)
(* last change its source knows of (FlagFacts::evaluation_tracked).        *)
THEOREM UntrackedLivesOn == Spec => []UntrackedGetsItsLife
<1>1. FactsInv => UntrackedGetsItsLife
    <2> SUFFICES ASSUME FactsInv, Verdict = "Stale",
                        ~facts.evaluation_tracked, facts.percentage < 100,
                        NEW age \in {facts.age_days, facts.last_changed_age_days} \ {None}
                 PROVE  age >= DefaultLifetimeDays(facts.kind)
        BY DEF UntrackedGetsItsLife
    <2>1. facts \in FactsTypes /\ facts.kind \in Kinds
        BY DEF FactsInv, FactsTypes
    <2>2. ~IsPermanent(facts.kind) /\ SignalsOf(policy, facts) # {}
        BY DEF Verdict, StalenessOf
    <2>3. facts.percentage # 100
        BY <2>1 DEF FactsTypes
    <2>4. AgedPastDeadline(facts)
        BY <2>2, <2>3 DEF SignalsOf, NeverEvaluated, FullyRolledOut
    <2>5. age \in Int /\ EffectiveAge(facts) \in Int /\ EffectiveAge(facts) <= age
        BY <2>1, LastDayType, NoneAssumption
           DEF FactsInv, TypeOK, FactsTypes, EffectiveAge
    <2>6. DefaultLifetimeDays(facts.kind) \in Int
        BY <2>1, <2>2, Lifetimes
    <2> QED BY <2>4, <2>5, <2>6 DEF AgedPastDeadline
<1> QED BY <1>1, FactsInvariant, PTL

-----------------------------------------------------------------------------
(* A day adds at most one to the age that classify reads, and changes      *)
(* nothing else it reads.                                                  *)
LEMMA DayPassesFacts ==
    ASSUME FactsInv, DayPasses
    PROVE  /\ EffectiveAge(facts) \in Int
           /\ EffectiveAge(facts') \in {EffectiveAge(facts), EffectiveAge(facts) + 1}
           /\ policy' = policy
           /\ facts'.kind = facts.kind
           /\ facts'.percentage = facts.percentage
           /\ facts'.evaluated = facts.evaluated
           /\ facts'.evaluation_tracked = facts.evaluation_tracked
<1>1. facts \in FactsTypes /\ LastDay \in Nat /\ policy' = policy
    BY LastDayType DEF FactsInv, DayPasses
<1>2. /\ facts'.kind = facts.kind
      /\ facts'.age_days = OneDayOlder(facts.age_days)
      /\ facts'.last_changed_age_days = OneDayOlder(facts.last_changed_age_days)
      /\ facts'.percentage = facts.percentage
      /\ facts'.evaluated = facts.evaluated
      /\ facts'.evaluation_tracked = facts.evaluation_tracked
    BY <1>1 DEF DayPasses, FactsTypes
<1>3. \A n \in Int : OneDayOlder(n) \in {n, n + 1} /\ OneDayOlder(n) # None
    BY <1>1, NoneAssumption DEF OneDayOlder
<1>4. facts.age_days \in Int /\ facts.last_changed_age_days \in Int \cup {None}
    BY <1>1 DEF FactsTypes
<1>5. CASE facts.last_changed_age_days = None
    <2>1. facts'.last_changed_age_days = None
        BY <1>2, <1>5 DEF OneDayOlder
    <2>2. /\ EffectiveAge(facts) = facts.age_days
          /\ EffectiveAge(facts') = OneDayOlder(facts.age_days)
        BY <1>2, <1>5, <2>1 DEF EffectiveAge
    <2> QED BY <1>1, <1>2, <1>3, <1>4, <2>2
<1>6. CASE facts.last_changed_age_days # None
    <2>1. facts.last_changed_age_days \in Int
        BY <1>4, <1>6
    <2>2. facts'.last_changed_age_days # None
        BY <1>2, <1>3, <2>1
    <2>3. /\ EffectiveAge(facts) = facts.last_changed_age_days
          /\ EffectiveAge(facts') = OneDayOlder(facts.last_changed_age_days)
        BY <1>2, <1>6, <2>2 DEF EffectiveAge
    <2> QED BY <1>1, <1>2, <1>3, <2>1, <2>3
<1> QED BY <1>5, <1>6

(* What a verdict says of a flag that is not permanent.                    *)
LEMMA Verdicts ==
    ASSUME NEW p, NEW f, ~IsPermanent(f.kind)
    PROVE  /\ StalenessOf(p, f) \in {"Stale", "Aging", "Fresh"}
           /\ StalenessOf(p, f) = "Stale" <=>
                 \/ AgedPastDeadline(f)
                 \/ NeverEvaluated(p, f)
                 \/ FullyRolledOut(p, f)
           /\ StalenessOf(p, f) = "Aging" <=>
                 StalenessOf(p, f) # "Stale" /\ Aging(p, f)
BY DEF StalenessOf, SignalsOf

(* The ratio of p warns at least a day before the deadline, for each kind  *)
(* that has one.                                                           *)
WarnsADayEarly(p) ==
    \A k \in Kinds : ~IsPermanent(k) =>
        (DefaultLifetimeDays(k) - 1) * p.aging_of
            >= DefaultLifetimeDays(k) * p.aging_part

(* The policies the library offers do, and ask for some age before they    *)
(* warn (FlagPolicy::default, age_only).                                   *)
THEOREM LibraryPoliciesWarn ==
    \A p \in {DefaultPolicy, AgeOnly} : WarnsADayEarly(p) /\ p.aging_part > 0
<1>1. /\ DefaultPolicy.aging_part = 1
      /\ DefaultPolicy.aging_of = 2
      /\ AgeOnly.aging_part = DefaultPolicy.aging_part
      /\ AgeOnly.aging_of = DefaultPolicy.aging_of
    BY DEF DefaultPolicy, AgeOnly
<1>2. \A k \in Kinds : ~IsPermanent(k) => DefaultLifetimeDays(k) \in {30, 40, 90}
    BY Lifetimes
<1> QED BY <1>1, <1>2 DEF WarnsADayEarly

(* Age makes no flag stale overnight: with a ratio that leaves a day for   *)
(* the warning, the verdict was Aging before (FlagPolicy::classify).       *)
THEOREM AgeWarnsFirst ==
    ASSUME \A p \in Policies : WarnsADayEarly(p)
    PROVE  Spec => WarnedBeforeStale
<1>1. ASSUME FactsInv, DayPasses, Verdict # "Stale", Verdict' = "Stale"
      PROVE  Verdict = "Aging"
    <2> DEFINE life == DefaultLifetimeDays(facts.kind)
               age == EffectiveAge(facts)
    <2>1. /\ policy \in Policies
          /\ facts.kind \in Kinds
          /\ policy' = policy
          /\ facts'.kind = facts.kind
        BY <1>1, DayPassesFacts DEF FactsInv, TypeOK
    <2>2. Verdict' = StalenessOf(policy, facts')
        BY <2>1 DEF Verdict
    <2>3. ~IsPermanent(facts.kind) /\ life \in {30, 40, 90}
        BY <1>1, <2>1, <2>2, Lifetimes DEF StalenessOf
    <2>4. ~AgedPastDeadline(facts) /\ AgedPastDeadline(facts')
        <3>1. /\ NeverEvaluated(policy, facts') <=> NeverEvaluated(policy, facts)
              /\ FullyRolledOut(policy, facts') <=> FullyRolledOut(policy, facts)
            BY <1>1, DayPassesFacts DEF NeverEvaluated, FullyRolledOut
        <3>2. ~IsPermanent(facts'.kind)
            BY <2>1, <2>3
        <3>3. /\ ~AgedPastDeadline(facts)
              /\ ~NeverEvaluated(policy, facts)
              /\ ~FullyRolledOut(policy, facts)
            BY <1>1, <2>3, Verdicts DEF Verdict
        <3>4. \/ AgedPastDeadline(facts')
              \/ NeverEvaluated(policy, facts')
              \/ FullyRolledOut(policy, facts')
            BY <1>1, <2>2, <3>2, Verdicts
        <3> QED BY <3>1, <3>3, <3>4
    <2>5. age \in Int /\ age = life - 1
        BY <1>1, <2>1, <2>3, <2>4, DayPassesFacts DEF AgedPastDeadline
    <2>6. (life - 1) * policy.aging_of >= life * policy.aging_part
        BY <2>1, <2>3 DEF WarnsADayEarly
    <2>7. Aging(policy, facts)
        BY <2>5, <2>6 DEF Aging
    <2> QED BY <1>1, <2>3, <2>7, Verdicts DEF Verdict
<1>2. FactsInv /\ [Next]_vars =>
        [ (DayPasses /\ Verdict # "Stale" /\ Verdict' = "Stale")
            => Verdict = "Aging" ]_vars
    BY <1>1
<1> QED BY <1>2, InitInv, StepInv, PTL DEF Spec, WarnedBeforeStale

(* More days never weaken the comparison with a part of the deadline.      *)
LEMMA AgingGrows ==
    ASSUME NEW x \in Int, NEW y \in {x, x + 1}, NEW k \in Nat, NEW b \in Int,
           x * k >= b
    PROVE  y * k >= b
<1>1. (x + 1) * k = x * k + k /\ x * k \in Int
    OBVIOUS
<1> QED BY <1>1

(* Waiting improves no verdict, and with a ratio above zero an edit that   *)
(* is seen, to a percentage that is not itself a signal, gives the flag    *)
(* its whole life again (FlagPolicy::classify).                            *)
THEOREM WaitingImprovesNothing ==
    ASSUME \A p \in Policies : p.aging_part > 0
    PROVE  Spec => OnlyUseRejuvenates
<1>1. ASSUME FactsInv, DayPasses
      PROVE  Severity(Verdict') >= Severity(Verdict)
    <2>1. /\ policy \in Policies
          /\ facts.kind \in Kinds
          /\ policy' = policy
          /\ facts'.kind = facts.kind
        BY <1>1, DayPassesFacts DEF FactsInv, TypeOK
    <2>2. Verdict' = StalenessOf(policy, facts') /\ Verdict = StalenessOf(policy, facts)
        BY <2>1 DEF Verdict
    <2>3. CASE IsPermanent(facts.kind)
        BY <2>1, <2>2, <2>3 DEF StalenessOf, Severity
    <2>4. CASE ~IsPermanent(facts.kind)
        <3>1. DefaultLifetimeDays(facts.kind) \in {30, 40, 90}
            BY <2>1, <2>4, Lifetimes
        <3>2. policy.aging_of \in Nat /\ policy.aging_part \in Int
            BY <2>1, PoliciesAssumption
        <3>3. AgedPastDeadline(facts) => AgedPastDeadline(facts')
            BY <1>1, <2>1, <3>1, DayPassesFacts DEF AgedPastDeadline
        <3>4. Aging(policy, facts) => Aging(policy, facts')
            <4>1. DefaultLifetimeDays(facts.kind) * policy.aging_part \in Int
                BY <3>1, <3>2
            <4> QED BY <1>1, <2>1, <3>2, <4>1, DayPassesFacts, AgingGrows DEF Aging
        <3>5. StalenessOf(policy, facts) = "Stale" => StalenessOf(policy, facts') = "Stale"
            <4>1. /\ NeverEvaluated(policy, facts') <=> NeverEvaluated(policy, facts)
                  /\ FullyRolledOut(policy, facts') <=> FullyRolledOut(policy, facts)
                BY <1>1, DayPassesFacts DEF NeverEvaluated, FullyRolledOut
            <4>2. ~IsPermanent(facts'.kind)
                BY <2>1, <2>4
            <4> QED BY <2>4, <3>3, <4>1, <4>2, Verdicts
        <3>6. StalenessOf(policy, facts) = "Aging" =>
                  StalenessOf(policy, facts') \in {"Stale", "Aging"}
            BY <2>1, <2>4, <3>4, Verdicts
        <3>7. /\ StalenessOf(policy, facts) \in {"Stale", "Aging", "Fresh"}
              /\ StalenessOf(policy, facts') \in {"Stale", "Aging", "Fresh"}
            BY <2>1, <2>4, Verdicts
        <3>8. Severity("Stale") = 2 /\ Severity("Aging") = 1 /\ Severity("Fresh") = 0
            BY DEF Severity
        <3> QED BY <2>2, <3>5, <3>6, <3>7, <3>8
    <2> QED BY <2>3, <2>4
<1>2. ASSUME FactsInv, NEW p \in Percentages, Edit(p), seesChanges, p \in 1..99
      PROVE  Verdict' \in {"Fresh", "Permanent"}
    <2>1. /\ policy \in Policies /\ policy' = policy
          /\ facts \in FactsTypes
        BY <1>2 DEF FactsInv, TypeOK, Edit
    <2>2. /\ facts'.kind = facts.kind
          /\ facts'.percentage = p
          /\ facts'.last_changed_age_days = 0
        BY <1>2, <2>1 DEF Edit, FactsTypes
    <2>3. Verdict' = StalenessOf(policy, facts')
        BY <2>1 DEF Verdict
    <2>4. CASE IsPermanent(facts.kind)
        BY <2>2, <2>3, <2>4 DEF StalenessOf
    <2>5. CASE ~IsPermanent(facts.kind)
        <3>1. DefaultLifetimeDays(facts.kind) \in {30, 40, 90}
            BY <2>1, <2>5, Lifetimes DEF FactsTypes
        <3>2. /\ policy.aging_of \in Nat
              /\ policy.aging_part \in Int
              /\ policy.aging_part > 0
            BY <2>1, PoliciesAssumption
        <3>3. EffectiveAge(facts') = 0
            BY <2>2, NoneAssumption DEF EffectiveAge
        <3>4. ~AgedPastDeadline(facts')
            BY <2>2, <3>1, <3>3 DEF AgedPastDeadline
        <3>5. ~NeverEvaluated(policy, facts') /\ ~FullyRolledOut(policy, facts')
            BY <1>2, <2>2 DEF NeverEvaluated, FullyRolledOut
        <3>6. ~Aging(policy, facts')
            BY <2>2, <3>1, <3>2, <3>3 DEF Aging
        <3> QED BY <2>2, <2>3, <2>5, <3>4, <3>5, <3>6, Verdicts
    <2> QED BY <2>4, <2>5
<1>3. FactsInv /\ [Next]_vars =>
        [ /\ DayPasses => Severity(Verdict') >= Severity(Verdict)
          /\ \A p \in Percentages :
                (Edit(p) /\ seesChanges /\ p \in 1..99)
                    => Verdict' \in {"Fresh", "Permanent"} ]_vars
    BY <1>1, <1>2
<1> QED BY <1>3, InitInv, StepInv, PTL DEF Spec, OnlyUseRejuvenates
=============================================================================
