----------------------------- MODULE MCRollout -----------------------------
(* Rollout with three subjects whose buckets sit on the edges of the       *)
(* percentages asked for, and an unsalted and two salted cohorts.          *)
EXTENDS Rollout

CONSTANTS u1, u2, u3, nosalt, c1, c2

MCSubjects == {u1, u2, u3}
MCSalts == {nosalt, c1, c2}
MCRequests == {0, 5, 25, 60, 100, 101, 255}

Buckets(b1, b2, b3) ==
    [u \in MCSubjects |-> CASE u = u1 -> b1 [] u = u2 -> b2 [] OTHER -> b3]

MCUnsaltedBucket == Buckets(4, 5, 99)

MCSaltedBucket ==
    [s \in MCSalts |-> CASE s = nosalt -> Buckets(60, 0, 24)
                         [] s = c1     -> Buckets(25, 99, 3)
                         [] OTHER      -> Buckets(0, 24, 59)]

(* One organisation, whose members fall elsewhere than without it.         *)
MCOrgs == {"org"}
MCOrgBucket == [o \in MCOrgs |-> [n \in {Flag} |-> Buckets(99, 24, 0)]]
=============================================================================
