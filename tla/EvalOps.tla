------------------------------ MODULE EvalOps ------------------------------
(***************************************************************************)
(* The decisions of Evaluator (eval.rs) on the content of a store, and     *)
(* those of the helpers of lifecycle.rs, which are given a percentage.     *)
(* The creation time of a flag plays no part in them; the organisation     *)
(* plays one in in_rollout_for_org alone, and the evaluator drops it.      *)
(***************************************************************************)
EXTENDS StoreOps

CONSTANTS
    Users,          \* user ids
    NameBucket,     \* eval::bucket(name, user)
    Orgs,           \* organisations
    NoOrg,          \* an organisation that is None
    OrgBucket       \* the hash of name, user and organisation

ASSUME NameBucketAssumption == NameBucket \in [Names -> [Users -> 0..99]]
ASSUME OrgBucketAssumption == OrgBucket \in [Orgs -> [Names -> [Users -> 0..99]]]
ASSUME NoOrgAssumption == NoOrg \notin Orgs

-----------------------------------------------------------------------------
Enabled(m, n) == n \in DOMAIN m /\ m[n].enabled

EnabledFor(m, n, u) ==
    /\ Enabled(m, n)
    /\ m[n].percentage # 0
    /\ m[n].percentage = 100 \/ NameBucket[n][u] < m[n].percentage

(* One flag of a bulk evaluation, which decides by code of its own.        *)
(* A faulty variant: whether the flag is enabled is forgotten.             *)
BulkDecisionIgnoresSwitch(f, n, u) ==
    f.percentage = 100 \/ NameBucket[n][u] < f.percentage

BulkDecision(f, n, u) ==
    IF ~f.enabled \/ f.percentage = 0 THEN FALSE
    ELSE f.percentage = 100 \/ NameBucket[n][u] < f.percentage

BucketWithOrg(n, u, o) ==
    IF o = NoOrg THEN NameBucket[n][u] ELSE OrgBucket[o][n][u]

InRollout(n, u, p) == NameBucket[n][u] < p

InRolloutForOrg(n, u, o, p) == BucketWithOrg(n, u, o) < p
=============================================================================
