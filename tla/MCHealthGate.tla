---------------------------- MODULE MCHealthGate ----------------------------
(* Two releases: three stages with limit 3, and a single stage with limit  *)
(* 1, so that an upgrade shortens the list and lowers the limit under what *)
(* was persisted.  A count has two bits, so that it would wrap at 3.       *)
EXTENDS HealthGate

StageAt(p, samples, rate, latency) ==
    [percentage |-> p, min_duration |-> 600, min_samples |-> samples,
     max_error_rate |-> rate, max_latency_p99_ms |-> latency]

Canary == StageAt(5, 100, 10, 30)
Half == StageAt(50, 200, 10, 20)
Full == StageAt(100, 0, 0, 20)

MCReleases ==
    {[stages |-> <<Canary, Half, Full>>, failure_limit |-> 3],
     [stages |-> <<Full>>, failure_limit |-> 0]}

MCLimits == {0, 2}

(* n latencies of 10 ms, the last slow of them 25 ms.                      *)
Latencies(n, slow) == [i \in 1..n |-> IF i <= n - slow THEN 10 ELSE 25]

Window(d, total, errors, latencies) ==
    [observed_for |-> d, total |-> total, errors |-> errors,
     latencies_ms |-> latencies]

(* Windows at and beside every boundary: too early, no request, one        *)
(* request short, exactly one percent of errors and just above it, one and *)
(* two slow requests in a hundred, one in ten.                             *)
MCWindows ==
    {Window(599, 500, 0, <<10>>),
     Window(600, 0, 0, <<>>),
     Window(600, 199, 1, Latencies(1, 0)),
     Window(600, 200, 2, Latencies(100, 1)),
     Window(600, 200, 3, <<>>),
     Window(600, 200, 0, Latencies(100, 2)),
     Window(600, 100, 0, Latencies(10, 1))}
=============================================================================
