# flag-kit in TLA+

This directory models flag-kit, a Rust library for feature flags: percentage
rollouts with sticky cohorts, health gates that promote a rollout or take it
back, and stores that hold the flags. TLC checks the models on small instances;
TLAPS proves most of the results, and the refinements, for every value of the
constants.

File and line references are to the repository (`src/lifecycle.rs`,
`src/gate.rs`, `src/store.rs`, `src/eval.rs`, `src/flag.rs`, `src/ofrep.rs`).
`PROJECT.json` lists every run, theorem, hazard and finding, and the source lines behind each
definition.

## The system

| Component | State | Operations | What must hold |
|---|---|---|---|
| `Rollout` (lifecycle.rs) | percentage, salt, private high water mark | `new`, `advance`, `advance_if_healthy`, `rollback`, `reset_exposure`, `new_cycle`, `evaluate` | promotions lose nobody; the mark remembers what a cycle reached through any rollbacks |
| `HealthGate` (gate.rs) | stage list, stage index, failure count, failure limit | `observe`, `advance`, `restart`, `restore_streak`, `restore_stage` | rollback exactly at the limit-th failing window in a row; the count survives a restart; the index stays on the list |
| `RolloutController` (gate.rs) | a gate and a rollout | `observe` | exposure follows the gate, shrinks only by a rollback to zero, and exposes the same subjects again |
| `FlagStore` (store.rs) | flags by name | `get`, `set`, `list`, `delete` | each call takes effect at one instant |
| `MemoryFlagStore` (store.rs) | a sharded concurrent map | the same, `len`, `is_empty`, `clear` | a list answers each flag as it stood during the call; a count misses none that stayed |
| `SqliteFlagStore` (store.rs) | tables `flags` and `flag_changes`, an async mutex | the same, `record_change`, `list_changes` | a list is one instant; a dropped or failed call changes nothing; the audit answers all or nothing |
| `Evaluator` (eval.rs) | none | `enabled`, `enabled_for`, `enabled_for_all`; `bucket`, `bucket_with_org` | one decision for one flag, whichever call made it |
| `Flag`, `FlagName`, `FlagChange` (flag.rs) | data | validation | - |
| `FlagPolicy` (lifecycle.rs) | none | `classify`, `classify_flag` | age makes nothing stale without a warning; waiting improves no verdict; an abandoned flag is reported |
| OFREP wire types (ofrep.rs) | none | reading and writing contexts and entries; `weak_etag`, `if_none_match_hits`, `status_for` | a message arrives as it was sent, over any relays; "not modified" is true, and said whenever it is; only a missing flag falls back |

How they meet. A `RolloutController` owns its gate and its rollout and changes
both in one `&mut self` call, so inside a process it is sequential. What makes
it hard is the sequence: windows without evidence between failing ones,
rollbacks, and a caller that persists what the getters show, crashes, and
builds a new controller from it, perhaps in a release with another stage list.
An `Evaluator` reads a store that other tasks write. The in-memory map locks
one shard at a time, and other threads act between two shards. The SQLite store
hands one connection from task to task, any of which may be dropped while it
waits, and any statement may fail. A `Rollout` does not read a store: the two
halves of the library share only the hash `eval::bucket`, and a flag that was
never cycled has to be decided alike by both. An OFREP provider keeps flags
between requests while the server's change.

## Modules

| Module | Stands for |
|---|---|
| `RolloutOps` | `Rollout` as a record and its methods as operators; `rollout_decision` |
| `Rollout` | one `Rollout` under any sequence of calls, and process restarts |
| `GateOps` | `Stage`, `HealthSnapshot` and the methods of `HealthGate` as operators |
| `HealthGate` | one gate under windows, persistence, crashes and changing releases |
| `RolloutController` | gate and rollout behind `observe`, with the caller around it |
| `StagedRollout` | the abstract promise of the controller: climb, trip, keep, crash |
| `StoreOps` | flags and the content of a store |
| `EvalOps` | the decisions of `Evaluator` on such a content, and the helpers of lifecycle.rs that are given a percentage |
| `MemoryStore` | `MemoryFlagStore` shard by shard, with `enabled_for_all`, `len` and `clear` on it |
| `FlagStore` | the abstract promise of the trait: every call is one instant |
| `SqliteStore` | `SqliteFlagStore`: queue, statements, cursor, failures, audit |
| `Staleness` | `FlagPolicy::classify` over the days of a flag's life |
| `OfrepOps` | contexts and entries, and what serde makes of them |
| `OfrepTags` | `weak_etag` and `if_none_match_hits` |
| `Ofrep` | single, bulk and conditional evaluations between provider, relays and a server whose flags change |
| `MC*` | constants of the instances that TLC checks |
| `*Proofs` | lemmas and theorems for TLAPS |

`RolloutController` extends both `RolloutOps` and `GateOps`, so that rollout,
gate and controller share one definition of every method. `MemoryStore` and
`SqliteStore` share `StoreOps`. `Rollout` instantiates `EvalOps` to compare its
decisions with those on a plain flag; `Ofrep` extends `OfrepOps` and `OfrepTags`.
`StagedRollout` and `FlagStore` are instantiated
with a refinement mapping by `RolloutController` and `SqliteStore`.

Definitions called "a faulty variant" are what a plausible bug would make of the
definition below them. No specification uses them; they serve to confirm that
each property notices such a bug.

### State and actions against the code

*Rollout.* The record has the three fields of the struct. A flag name occurs in
the hash only, so a rollout of one flag needs none; `bucket` and `bucket_salted`
are arbitrary functions into 0..99, and nothing is assumed about their spread.
The percentages asked for are any `u8`. `AdvanceIfHealthy` keeps the order of the
code: advance first, ask the gate afterwards. `Recreate` is a restart: the mark
has no setter, so a new `Rollout` starts with the persisted percentage as mark.
While the salt is empty, four paths of the code decide for a user: the rollout,
`enabled_for`, the bulk evaluation with code of its own, and `in_rollout`;
`UncycledDecidesLikeFlag` holds them together.
Histories: `granted`, the percentages promoted to in this cycle, and `exposed`,
the subjects they exposed.

*HealthGate.* `ReasonFor` keeps the order of the early returns: duration, samples,
error rate, latency. An error rate is the pair errors/total, compared with a
budget in thousandths by cross multiplication; a p99 is the nearest rank of the
sample multiset. The failure count is a `u32` that wraps at `MaxStreak`.
`Recover` is what the documentation of `restore_streak` and `restore_stage` has a
caller do after a crash. `failure_limit` is a public field and may be set to
anything. Histories: `log`, the windows that were evidence since the last
rollback or restart, and `savedLog`, its copy at the time of the last save.

*RolloutController.* `Judge` is `observe` as one step: verdict, gate, exposure.
Only `Apply` differs from the gate alone: a promote advances the gate first, the
exposure follows the stage it moved *to*, and a refused advance of the rollout is
ignored (gate.rs:486). Around it stand `Persist`, `CrashAndRecover`, and
`climate`, which says whether windows can still fail or succeed.
History: `tested`, the cohort first exposed at each percentage.

*MemoryStore.* DashMap locks one shard at a time. `get`, `insert` and `remove`
are one step each; `list`, `len` and `clear` take a step per shard, and other
clients act in between. `enabled_for_all` evaluates what the list collected;
`is_empty` compares the sum of `len` with zero.
Histories: `instants`, the contents during a list or a count, and `written`, the names
stored during a clear.

*SqliteStore.* A call is asked (its future joins the queue of the mutex), runs
once it is at the head, and is answered in the step that releases the mutex. No
await lies behind `lock().await`, so `Cancel` is possible in the stage "asked"
only. `set` refuses a percentage above 100 before it queues. A list reads row by
row. `Fail` is an error of any statement: `get` and `list` swallow it, the others
report it. `rows` may at first hold what another program left: percentages that
no `u8` holds, `enabled` other than 0 and 1. A crash keeps the tables (a file
database). The abstract content marks a row that `get` would not give back as
`Unreadable`: `delete` still reports that it existed, and `set` replaces it.

*Staleness.* `classify` is a pure function; what surrounds it is the life of a
flag: `DayPasses`, `Edit`, `Evaluate`. A source may or may not know when a flag
was changed (`seesChanges`) and whether it was evaluated (`evaluation_tracked`).
The aging ratio is a quotient of integers, and the age of the last evaluation is
reduced to whether there was one, which is all that `classify` reads.
`ClassifyFlag` takes a flag as the code does, and drops it as the code does.

*Ofrep.* A provider builds a context and asks for one flag or for all, the second
time with the tag of the answer it holds in `If-None-Match`; relays read each
message and write it again; the server answers from the flags it has at that
moment, which change at any time; the provider may give up an exchange and begin
the next one. What is the library's are the conversions (`OfrepOps`), as serde
derives them, the status of an error, and the tags (`OfrepTags`): a flattened map
may put two members of one name into an object, a derived reader refuses a
duplicate of a field, an absent or null field is `None`, an untagged enum tries
its variants in order, and a tag is compared in its weak form. Bodies are read
from text; parsed into a `serde_json::Value` first, the duplicate would silently
be gone. Server, relays, foreign providers and what a provider does with a status
are external and follow the protocol. History: `served`, the flag set an answer
was made from, and its copy `of` beside the flags that a provider holds.

The tag is FNV-1a modulo 2^16 instead of 2^64. No high bit acts on a lower one,
so this is exactly the low 16 bits of the real tag: tags that differ in the
model differ in the program.

## What is checked

| Run | Shows |
|---|---|
| `rollout` | In every sequence of calls the mark is the highest grant of the cycle (`MarkIsHighestGrant`); no promotion drops a subject while exposure is not above the mark (`PromotionKeepsSubjects`); whoever was exposed in the cycle is exposed by the next promotion (`NextPromotionRestoresSubjects`); nothing creeps up below the mark (`NoClimbBelowMark`); without a salt the rollout exposes the subjects that a plain flag of its percentage does (`UncycledDecidesLikeFlag`) |
| `health_gate` | Rollback exactly at the limit-th failing window in a row, whatever inconclusive windows, stage changes, crashes and releases come between (`RollbackExactlyAtLimit`); the count cannot overflow (`CountNeverOverflows`); nothing promotes over the tail budget (`LatencyBreachIsTail`); a restart after a save is invisible (`RestartIsTransparent`) |
| `controller` | Intended set-up: gate and exposure in step (`InStep`), refinement of `StagedRollout`, completion under healthy traffic and zero exposure under failing traffic (`HealthyTrafficCompletes`, `FailingTrafficStops`) |
| `controller_careless` | Any order of stages, exchanged stage lists, any start: exposure is still its own mark, shrinks only by a rollback to zero, exposes the same subjects again, and stays at zero on a complete gate |
| `memory_store` | A bulk evaluation answers every flag as it stood at some instant of the call (`BulkAnswersEachFlag`); a count has every flag that stayed and none twice (`LenCountsEachFlagOnce`); a clear leaves only what was stored after it began (`ClearLeavesOnlyNewer`) |
| `sqlite_store` | Refinement of `FlagStore`, every call ends, the audit answers all or nothing |
| `staleness` | The day a flag passes its deadline it had been aging (`WarnedBeforeStale`); waiting improves no verdict and a seen edit gives back the whole life (`OnlyUseRejuvenates`); without telemetry no flag short of full rollout is stale before its whole life is over, from its creation and from the last change its source knows of (`UntrackedGetsItsLife`); a flag nobody edits any more is reported in the end (`AbandonedFlagIsReported`) |
| `ofrep` | A context reaches the server whole, from providers of any vendor (`ContextArrivesWhole`), and no attribute makes it another subject's (`NoOtherSubject`); no entry changes or takes another one with it (`EntriesArriveWhole`); a provider told that nothing changed shows the server's flags (`NotModifiedIsTrue`) and one that has them downloads none, even when a relay rewrote the tag (`NoNeedlessDownload`); a provider falls back to its default for a missing flag and for nothing else (`OnlyMissingFlagFallsBack`) |

Four documented sentences turned out not to be what the code does. Each has a
run that TLC ends with a counterexample:

| Run | Sentence | Counterexample |
|---|---|---|
| `rollout_shrinks` | "a rollout never silently shrinks" (lifecycle.rs:423) | created at 5, `rollback(25)`, then `advance(5)` is accepted: 25 to 5. The check is against the mark, which a rollback upwards does not move |
| `rollout_refused_gate` | "Advances only while `gate` passes" (lifecycle.rs:446) | the gate refuses, the call answers `false`, the exposure is raised all the same |
| `staleness_undated` | "When the flag carries no timestamp [...] reported as `Fresh` rather than guessed" (lifecycle.rs:311) | a flag with `created_at` `None` and facts of some age: `classify_flag` drops the flag, and on the day of the deadline it is stale for its age |
| `memory_snapshot` | "evaluation reads a consistent immutable snapshot" (THREAT-MODEL.md:21) | a list reads one shard, both shards change, it reads the other |

Four more sentences fail in a corner, which no run of its own is spent on.
"so the gate and the exposure percentage cannot disagree" (gate.rs:431): after a
rollback exposure is 0 and the gate stands at its first stage, whose percentage
is not, so the two agree in the sense of `InStep` only. "Exempt by kind
(permission gates, kill switches)" (lifecycle.rs:157): a kill switch is an
operational flag, and that kind has a lifetime of 90 days (the comment at
lifecycle.rs:27 says 7). "newest first" (store.rs:195): two audit records of one
second come back in an order that SQL leaves open, since the query orders by
seconds alone; `AuditAllOrError` asks for order by time. "retained so
round-tripping does not lose data" (ofrep.rs:129): a context with a key and an
attribute named `targetingKey` is written with two members of that name, which
its own reader refuses; `NoOtherSubject` shows that at least nobody is answered
for another subject.

Two pairs of documents disagree about a fact of the code, which no run is needed
for: THREAT-MODEL.md:26 says the crate keeps no audit trail, README.md:14 lists
one; README.md:13 lists an "`org_id` aware `enabled_for`", eval.rs:66 and a test
(tests/config_matrix.rs:163) say that the organisation changes nothing, as is the
case.

### Bounds

- `MCRollout`: three subjects whose buckets lie on both sides of every percentage
  asked for, one organisation, an unsalted and two salted cohorts, requests 0, 5, 25, 60, 100, 101
  and 255. All sequences of calls are covered: the state space is finite.
- `MCHealthGate`: three stages with limit 3 and a single stage with limit 0, so a
  release shortens the list and lowers the limit under a restored count. Seven
  windows at and beside every threshold. `MaxStreak` = 3 stands for `u32::MAX`:
  the count would wrap at four failures. `MaxWindows` = 3 windows of evidence
  between two rollbacks, enough to reach every limit and to put a passing or
  inconclusive window between failing ones.
- `MCRolloutController`: two crashes; four stages and limit 3 in the intended
  set-up; three releases (unordered, single stage, ascending) and six starts in
  the careless one.
- `MCMemoryStore`: two clients, three names on two shards, `MaxInstants` = 3
  contents during one scan, enough for a flag to move behind it; flags on, off and
  above 100 percent. One client more would add no new kind of overlap,
  since a scan only sees that the content changed between two of its shards. The
  clients are interchangeable and no temporal property is checked, so they are a
  symmetry set.
- `MCSqliteStore`: two callers, two checked names and one unchecked, an empty
  file and one with rows of another program, `MaxChanges` = 2 audit records.
- `MCStaleness`: all kinds with their real lifetimes, both policies the library
  constructs, percentages 0, 50 and 100. Ages stop `ExtraDays` = 1 day after the
  deadline: `classify` only compares them with the deadline and a part of it.
- `MCOfrep`: bitwise exclusive or for `ExclusiveOr`, which is a constant because
  no proof may reach the module that defines it; two subjects, two names for attributes, one of them `targetingKey`,
  values that are strings and one that is not, and `MaxHops` = 2 relays in each
  direction: a second relay reads what the first wrote, a third would see nothing
  new. Seven flag sets hold two flags answered in every way, absent ones
  included; each is identified by a name and a revision that run into each other
  ("a" 33, "a3" 3). Headers list the held tag alone, behind a weak tag with a
  comma in it, or behind a strong one, or are a star.

### Fairness

`RolloutController!FairSpec` has weak fairness of `ObserveEvidence`: the caller
goes on feeding windows with enough evidence to be judged. That is an assumption
about the caller, not about the code; without it a rollout rightly stays where
it is. The health of traffic is no fairness condition: it is in the premise of
the two properties, which therefore say nothing about mixed traffic.

`SqliteStore!FairSpec` has weak fairness of `Run(c)` for each caller: a task that
can run is polled. The tokio mutex is first come, first served, which is
modelled, so no strong fairness is needed. A caller need not collect its answer.

`Staleness!FairSpec` has weak fairness of `DayPasses`: time goes on.

Deadlock is checked in every run.

## What is proved

TLAPS proves the following without bounds: for every number of stages, releases,
subjects, windows, callers, names, shards and crashes, and for every bucket
function and every spread of names over shards.

| Module | Theorems |
|---|---|
| `RolloutProofs` | `RolloutTypes`, `MarkRemembers`, `SubjectsComeBack`, `PromotionsKeepSubjects`, `NothingClimbsBelowMark`, `UncycledIsPlainFlag` |
| `HealthGateProofs` | `GateTypes`, `CountsStayBelowMax`, `RollsBackExactlyAtLimit`, `RestartTransparent`, `TailBudgetKept` |
| `ControllerProofs` | `ControllerTypes`, `ExposureEqualsMark`, `SameSubjectsAgain`, `ShrinksOnlyByRollback`, `CompleteGateStaysAtZero`; in the intended set-up `StaysInStep` and `ControllerRefinesStaged` |
| `MemoryStoreProofs` | `MemoryStoreTypes`, `BulkIsTrueFlagByFlag`, `LenIsTrueFlagByFlag`, `ClearIsThorough` |
| `SqliteStoreProofs` | `SqliteStoreTypes`, `AuditIsWhole`, `SqliteRefinesFlagStore` |
| `StalenessProofs` | `StalenessTypes`, `UntrackedLivesOn`, `AgeWarnsFirst`, `WaitingImprovesNothing`, `LibraryPoliciesWarn` |
| `OfrepProofs` | `TypeIsKept`, `ContextIsWhole`, `SubjectIsKept`, `EntriesAreWhole`, `NoDownloadIsNeedless`, `NothingChangedIsTrue`, `OnlyMissingFallsBack` |

`MethodProofs` holds the lemmas on the operators of rollout and gate: what
each method preserves, that a higher percentage exposes a superset, and that the
percentile exceeds a ceiling exactly when more than one sample in a hundred does
(`PercentileIsTail`).

- *Rollout.* The invariant adds to the types that the mark is the highest grant
  and that each subject in `exposed` has a bucket below the mark. From there
  `CohortMonotone` gives both theorems about subjects: an accepted promotion
  goes to the mark or above. `UncycledPaths` needs no invariant but the types: at
  0 and at 100 percent the early returns of the evaluator give what the
  comparison with a bucket in 0..99 gives.
- *HealthGate.* The count is the number of failing windows at the end of the log,
  for the live gate and for what was saved (`IsTrailing`). Without the second
  half a crash would break the first. The count stays below `MaxStreak` because a
  count that reaches it has reached any limit, and a rollback resets it; it needs
  `failure_limit` to be in 0..MaxStreak, which is the type of the field.
- *RolloutController.* In any set-up the invariant is: exposure equals mark, the
  saved salt is the salt, and every recorded cohort is the one that this salt
  gives. That a judged window stays, climbs one stage or trips is `JudgeCases`.
  The intended set-up (`IntendedSetUp`: one ascending stage list in all releases,
  started at its first percentage) adds `StepAt` for the live and the saved
  state. `ClimbAccepted` is the heart of the refinement: on an ascending list
  the mark, being the exposure, is at most the next percentage, so the rollout
  never refuses what the gate grants.

- *Percentile.* `P99` is a CHOOSE, so a sample with the right rank has to exist.
  It is the least number that as many samples as the rank do not exceed; that
  there is a least one is `LeastNatural`, which takes the well-founded order of
  finite sets to the intervals 0..n. The tail budget is then counting.
- *MemoryStore.* `StoreInv` says per client what the shards behind its call have
  already yielded: a list has for each name behind it what some content of the
  call had (`ListInv`); a count is between the names behind it that stayed and
  those that were ever there (`CountInv`, where the cardinalities add up because
  shards are disjoint); a clear has left behind it only names written since
  (`ClearInv`). All of them need that the present content is among the recorded
  ones (`HistoryInv`), which is why the other clients' writes must extend the
  history. The content is finite because it starts empty and grows by one.
- *SqliteStore.* The invariant is that callers in the queue are distinct and are
  exactly those waiting or running, that only the head runs (`QueueInv`), and what
  a caller with an open cursor has read: for a list a part of the table, in which
  nothing changes while it is read, since the reader holds the mutex (`ReadInv`).
  An audit answer keeps being the history of its flag while others append to the
  table (`AuditInv`). The refinement follows: the step that answers is the instant
  of the call, the step that asks asks, each other step stutters.
- *Staleness.* `FactsInv` is the types. `DayPassesFacts` says that a day adds at
  most one to the age that `classify` reads and nothing else. `AgeWarnsFirst` and
  `WaitingImprovesNothing` are about policies with a ratio below one by a day of
  the lifetime, and above zero. The fields are public, so code can build others;
  `LibraryPoliciesWarn` proves that `FlagPolicy::default` and `age_only` are such.
- *Ofrep.* Three groups of lemmas carry the theorems. The conversions:
  `ContextRoundTrip` and `DuplicateRefused` say that a context is read as written
  or refused, except that an attribute named like the key becomes the key when
  there is no other; `BulkRoundTrip` that entries come back one by one, and the
  same again after a second relay. The comparison: `TagNormalized` computes what
  is left of a tag in each form, and `LastPiece` that a tag after a comma adds one
  candidate to a header and takes none away, whatever stands before it. They give
  `OwnTagHits` and `OtherTagMisses`. The invariant `IInv` says, stage by stage,
  that the body on its way is a context that carries what was asked (`Carries`),
  that a header names what is held (`HeaderFits`), that what is held is one flag
  set with one of its tags (`HeldFits`), and what an answer says (`Answered`): the
  type alone would not be inductive, as a 304 is turned into what is held.
  `NothingChangedIsTrue` has the hypothesis `TagsTellApart`: tags of different flag
  sets differ and no other tag is taken for one. A hash cannot promise it, the
  instance satisfies it, and without it the property is false. Nothing else about
  the hash is used, so the theorems are about 64 bits as much as about 16.

The assumptions are the named ones in the modules (types of constants, a
non-empty stage list, `EmptySalt` among the salts, `None` no number,
`Unreadable` no row, no context and no entry, digits that are no mark of a tag)
and the hypotheses that a theorem states: `IntendedSetUp`, the ratios, and
`TagsTellApart`. TLC evaluates the former in the runs.

Model-checked only: liveness (`HealthyTrafficCompletes`, `FailingTrafficStops`,
`EveryCallEnds`, `AbandonedFlagIsReported`), which is out of the reach of the
prover; and that the hash of `OfrepTags` tells the flag sets of the instance apart,
a fold over sequences, about which only an induction over data could say more.
All other properties of the passing runs are theorems.

## What is not modelled

- Floating point. Error rates and latencies are exact; a NaN latency, which
  compares equal to everything, and the rounding of `errors / total` are left out.
- Overflow is modelled as wrapping, as in a release build; the theorem that it
  does not happen covers the panic of a debug build as well.
- Writes to `Rollout`'s public fields and to flags outside a store.
- Creation times, and the `old`, `new` and `who` columns of the audit: data that
  no property reads. A commit that is reported as failed although it reached the
  disk is not considered, nor is an in-memory database in a crash.
- The hash itself, `validkit`'s rule for names (it is the set `Checked`), and
  `FlagError`.
- What callers do between two calls of a store: the lost update of two
  get-modify-set sequences and a change without an audit record are possible and
  nothing in the documentation says otherwise.
- `bucket_salted_with_org`, one more hash that nothing calls. An organisation
  matters to `in_rollout_for_org` alone; `enabled_for` takes one and drops it, as
  its documentation says.
- The metadata of a whole bulk, passed on unread; the wire names of enums, which
  are tables; `counts`, `key` and `as_bool`, which only read.
- Which parts a server puts into a tag. If the context is not among them, a
  provider that changes its context has to drop what it holds.
- Collisions of the 64-bit hash: `NotModifiedIsTrue` says that the flag sets of the
  instance have different tags, not that all have.

## Plan

Done, in this order: rollout, gate, controller with its abstract specification,
in-memory store and bulk evaluation, SQLite store with the abstract store,
staleness, the wire types with tags and conditional requests, the unsalted
decision paths, `len`; the theorems about rollout, gate and controller.

Also done: the refinement of `FlagStore`, the properties of the in-memory store
for any number of clients and shards, those of the staleness policy, and the tail
budget of the gate.

The exchanges of `Ofrep` are proved too, apart from the hash.

Next: a second look at the hypotheses of the theorems, and proofs that are
shorter where several steps repeat one argument.
