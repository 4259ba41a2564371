----------------------------- MODULE MemoryStore -----------------------------
(***************************************************************************)
(* MemoryFlagStore (store.rs) shared by clients on several threads, with   *)
(* the bulk evaluation that reads it (Evaluator::enabled_for_all).         *)
(*                                                                         *)
(* DashMap splits the names over shards, each behind a lock of its own:    *)
(* get, insert and remove lock one shard for one step; iter and clear go   *)
(* from shard to shard, and other clients act between two shards.          *)
(***************************************************************************)
EXTENDS EvalOps, FiniteSets

CONSTANTS
    Clients,    \* threads that use the store
    Shards,     \* number of shards of the DashMap
    ShardOf,    \* the shard that holds a name
    NewFlags,   \* the flags that clients store
    MaxInstants \* bound: contents of the store that one scan overlaps

ASSUME ShardsAssumption == Shards \in Nat \ {0}
ASSUME ShardOfAssumption == ShardOf \in [Names -> 1..Shards]
ASSUME NewFlagsAssumption == NewFlags \subseteq Flags
ASSUME MaxInstantsAssumption == MaxInstants \in Nat \ {0}

VARIABLES
    inner,      \* the content of the map
    call,       \* what each client is in the middle of
    instants,   \* history: contents since each client's scan began
    written     \* history: names stored since each client's call began

vars == <<inner, call, instants, written>>

Idle == [op |-> "idle"]

(* A bulk evaluation for a user, at the next shard, with what it has read; *)
(* a len at the next shard, with its count so far; a clear at the next     *)
(* shard.                                                                  *)
Listing(u, i, m) == [op |-> "list", user |-> u, next |-> i, read |-> m]
Counting(i, k) == [op |-> "len", next |-> i, count |-> k]
Clearing(i) == [op |-> "clear", next |-> i]

CallOK(c) ==
    \/ call[c] = Idle
    \/ /\ call[c].op = "list"
       /\ call[c] = Listing(call[c].user, call[c].next, call[c].read)
       /\ call[c].user \in Users
       /\ call[c].next \in 1..(Shards + 1)
       /\ IsContent(call[c].read)
       /\ \A n \in DOMAIN call[c].read : ShardOf[n] < call[c].next
    \/ /\ call[c] \in [op : {"len"}, next : 1..(Shards + 1), count : Nat]
       /\ call[c].next = 1 => call[c].count = 0
    \/ call[c] \in [op : {"clear"}, next : 1..(Shards + 1)]

TypeOK ==
    /\ IsContent(inner)
    /\ \A c \in Clients : CallOK(c)
    /\ \A c \in Clients : \A m \in instants[c] : IsContent(m)
    /\ written \in [Clients -> SUBSET Names]

Part(m, i) == Without(m, {n \in DOMAIN m : ShardOf[n] # i})

Joined(m1, m2) ==
    [n \in DOMAIN m1 \cup DOMAIN m2 |-> IF n \in DOMAIN m1 THEN m1[n] ELSE m2[n]]

(* Whether a client is inside list, len or clear.                          *)
Busy(c) == call[c] # Idle

(* The calls that read the map shard by shard.                             *)
IsScan(op) == op \in {"list", "len"}

-----------------------------------------------------------------------------
Init ==
    /\ inner = Empty
    /\ call = [c \in Clients |-> Idle]
    /\ instants = [c \in Clients |-> {}]
    /\ written = [c \in Clients |-> {}]

(* The content changes to m, seen by the calls that are under way.         *)
Become(m) ==
    /\ inner' = m
    /\ instants' = [c \in Clients |->
                        IF IsScan(call[c].op) THEN instants[c] \cup {m} ELSE {}]
    /\ \A c \in Clients : Cardinality(instants'[c]) <= MaxInstants

Set(c, n, f) ==
    /\ ~Busy(c)
    /\ Become(Stored(inner, n, f))
    /\ written' = [d \in Clients |->
                      IF Busy(d) THEN written[d] \cup {n} ELSE {}]
    /\ UNCHANGED call

Delete(c, n) ==
    /\ ~Busy(c)
    /\ Become(Without(inner, {n}))
    /\ UNCHANGED <<call, written>>

(* A client enters a call that takes several steps.                        *)
Enter(c, state) ==
    /\ ~Busy(c)
    /\ call' = [call EXCEPT ![c] = state]
    /\ instants' = [instants EXCEPT ![c] =
                        IF IsScan(state.op) THEN {inner} ELSE {}]
    /\ written' = [written EXCEPT ![c] = {}]
    /\ UNCHANGED inner

(* It returns; its histories are of no more use.                           *)
Leave(c) ==
    /\ call' = [call EXCEPT ![c] = Idle]
    /\ instants' = [instants EXCEPT ![c] = {}]
    /\ written' = [written EXCEPT ![c] = {}]
    /\ UNCHANGED inner

StartBulk(c, u) == Enter(c, Listing(u, 1, Empty))

(* A faulty variant: no end to the shards.                                 *)
ListShardRunsOn(c) ==
    /\ call[c].op = "list"
    /\ call' = [call EXCEPT ![c].next = @ + 1]
    /\ UNCHANGED <<inner, instants, written>>

(* iter holds the lock of one shard while it clones what is in it.         *)
ListShard(c) ==
    /\ call[c].op = "list"
    /\ call[c].next <= Shards
    /\ call' = [call EXCEPT
                  ![c].read = Joined(@, Part(inner, call[c].next)),
                  ![c].next = @ + 1]
    /\ UNCHANGED <<inner, instants, written>>

Listed(c) == call[c].op = "list" /\ call[c].next > Shards

FinishBulk(c) == Listed(c) /\ Leave(c)

(* What enabled_for_all returns once the list is complete: a decision for  *)
(* every flag it got.                                                      *)
BulkAnswer(c) ==
    [n \in DOMAIN call[c].read |->
        BulkDecision(call[c].read[n], n, call[c].user)]

(* len adds up the sizes of the shards, and is_empty compares the sum with *)
(* zero.                                                                   *)
StartLen(c) == Enter(c, Counting(1, 0))

SizeOf(i) == Cardinality(DOMAIN Part(inner, i))

(* A faulty variant: the size of the last shard only.                      *)
CountShardForgets(c) ==
    /\ call[c].op = "len"
    /\ call[c].next <= Shards
    /\ call' = [call EXCEPT ![c] = Counting(@.next + 1, SizeOf(@.next))]
    /\ UNCHANGED <<inner, instants, written>>

CountShard(c) ==
    /\ call[c].op = "len"
    /\ call[c].next <= Shards
    /\ call' = [call EXCEPT
                  ![c] = Counting(@.next + 1, @.count + SizeOf(@.next))]
    /\ UNCHANGED <<inner, instants, written>>

Counted(c) == call[c].op = "len" /\ call[c].next > Shards

FinishLen(c) == Counted(c) /\ Leave(c)

(* A faulty variant: the shards are counted from zero.                     *)
StartClearSkipsFirst(c) == Enter(c, Clearing(2))

StartClear(c) == Enter(c, Clearing(1))

ClearShard(c) ==
    /\ call[c].op = "clear"
    /\ call[c].next <= Shards
    /\ Become(Without(inner, {n \in DOMAIN inner : ShardOf[n] = call[c].next}))
    /\ call' = [call EXCEPT ![c].next = @ + 1]
    /\ UNCHANGED written

AllCleared(c) == call[c].op = "clear" /\ call[c].next > Shards

FinishClear(c) == AllCleared(c) /\ Leave(c)

Step(c) ==
    \/ \E n \in Names, f \in NewFlags : Set(c, n, f)
    \/ \E n \in Names : Delete(c, n)
    \/ \E u \in Users : StartBulk(c, u)
    \/ ListShard(c)
    \/ FinishBulk(c)
    \/ StartLen(c)
    \/ CountShard(c)
    \/ FinishLen(c)
    \/ StartClear(c)
    \/ ClearShard(c)
    \/ FinishClear(c)

Next == \E c \in Clients : Step(c)

Spec == Init /\ [][Next]_vars

-----------------------------------------------------------------------------
(* What a bulk answer says of a name is what Evaluator::enabled_for would  *)
(* have said at the instant m: the same decision, and no entry exactly for *)
(* an absent flag.                                                         *)
AgreesAt(c, n, m) ==
    /\ n \in DOMAIN BulkAnswer(c) <=> n \in DOMAIN m
    /\ n \in DOMAIN m => (BulkAnswer(c)[n] <=> EnabledFor(m, n, call[c].user))

(* Each flag is answered as it stood at some instant of the call: no flag  *)
(* is invented, no flag that stayed in the store is missed, none is        *)
(* reported in a state it did not have (MemoryFlagStore::list,             *)
(* Evaluator::enabled_for_all).                                            *)
BulkAnswersEachFlag ==
    \A c \in Clients :
        Listed(c) => \A n \in Names : \E m \in instants[c] : AgreesAt(c, n, m)

(* "snapshot swap: evaluation reads a consistent immutable snapshot"       *)
(* (THREAT-MODEL.md, T1): the flags are answered as they all stood at one  *)
(* instant of the call.                                                    *)
BulkReadsSnapshot ==
    \A c \in Clients :
        Listed(c) => \E m \in instants[c] : \A n \in Names : AgreesAt(c, n, m)

(* len and is_empty count each flag at most once and miss none that stayed *)
(* in the store, though the number may never have been right at any one    *)
(* instant: a store that was never empty can be called empty while a flag  *)
(* moves behind the count (MemoryFlagStore::len, is_empty).                *)
LenCountsEachFlagOnce ==
    \A c \in Clients : Counted(c) =>
        LET Stayed == {n \in Names : \A m \in instants[c] : n \in DOMAIN m}
            Seen == UNION {DOMAIN m : m \in instants[c]}
        IN  /\ Cardinality(Stayed) <= call[c].count
            /\ call[c].count <= Cardinality(Seen)

(* A clear is not atomic, but no flag survives it that was not stored      *)
(* after it began (MemoryFlagStore::clear).                                *)
ClearLeavesOnlyNewer ==
    \A c \in Clients : AllCleared(c) => DOMAIN inner \subseteq written[c]
=============================================================================
