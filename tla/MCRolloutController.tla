------------------------- MODULE MCRolloutController -------------------------
(* Two set-ups: the intended one, a single ascending stage list started at *)
(* its first percentage, and a careless one, in which releases reorder and *)
(* shorten the list and the rollout starts anywhere.                       *)
EXTENDS RolloutController

CONSTANTS u1, u2, u3, nosalt, c1

MCSubjects == {u1, u2, u3}
MCSalts == {nosalt, c1}

Buckets(b1, b2, b3) ==
    [u \in MCSubjects |-> CASE u = u1 -> b1 [] u = u2 -> b2 [] OTHER -> b3]

MCUnsaltedBucket == Buckets(4, 5, 99)
MCSaltedBucket ==
    [s \in MCSalts |-> IF s = c1 THEN Buckets(24, 0, 59) ELSE Buckets(60, 0, 24)]

(* A stage that wants 100 requests, one percent of errors at most, and a   *)
(* p99 of at most 20 ms.                                                   *)
StageAt(p) ==
    [percentage |-> p, min_duration |-> 600, min_samples |-> 100,
     max_error_rate |-> 10, max_latency_p99_ms |-> 20]

AscendingReleases ==
    {[stages |-> <<StageAt(5), StageAt(25), StageAt(60), StageAt(100)>>,
      failure_limit |-> 3]}
IntendedStarts == {[percentage |-> 5, salt |-> c1]}

CarelessReleases ==
    {[stages |-> <<StageAt(25), StageAt(5), StageAt(60)>>, failure_limit |-> 2],
     [stages |-> <<StageAt(100)>>, failure_limit |-> 0],
     [stages |-> <<StageAt(5), StageAt(60)>>, failure_limit |-> 3]}
CarelessStarts == {[percentage |-> p, salt |-> s] : p \in {0, 5, 60}, s \in MCSalts}

Window(d, total, errors, latencies) ==
    [observed_for |-> d, total |-> total, errors |-> errors,
     latencies_ms |-> latencies]

MCWindows ==
    {Window(599, 100, 0, <<10>>),
     Window(600, 99, 99, <<10>>),
     Window(600, 100, 1, <<10, 20>>),
     Window(600, 100, 2, <<10, 20>>),
     Window(600, 100, 0, <<21, 10>>)}
=============================================================================
