--------------------------- MODULE MCMemoryStore ---------------------------
(* Two clients and three names over two shards, so that one shard holds    *)
(* two of them; clients switch a flag on for some or off, or store a       *)
(* percentage above 100, which only this store accepts.                    *)
EXTENDS MemoryStore, TLC

CONSTANTS c1, c2, a, b, d, u

MCClients == {c1, c2}
MCNames == {a, b, d}
MCUsers == {u}
MCNameBucket == [n \in MCNames |-> [v \in MCUsers |-> 40]]
MCOrgBucket == [o \in {} |-> MCNameBucket]
MCShardOf == [n \in MCNames |-> IF n = d THEN 2 ELSE 1]
MCNewFlags == {[enabled |-> TRUE, percentage |-> 41],
               [enabled |-> TRUE, percentage |-> 200],
               [enabled |-> FALSE, percentage |-> 41]}

(* Clients are interchangeable.                                            *)
ClientSymmetry == Permutations(MCClients)
=============================================================================
