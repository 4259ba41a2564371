------------------------- MODULE MemoryStoreProofs -------------------------
(***************************************************************************)
(* Proofs about MemoryFlagStore for every set of clients, names and users, *)
(* every number of shards and every way the names are spread over them.    *)
(* The map holds finitely many flags because it starts empty.              *)
(***************************************************************************)
EXTENDS MemoryStore, FiniteSetTheorems, TLAPS

(* Two contents say the same of a name.                                    *)
SameAt(n, m1, m2) ==
    /\ n \in DOMAIN m1 <=> n \in DOMAIN m2
    /\ n \in DOMAIN m1 => m1[n] = m2[n]

(* The names a client's call has left behind, those it could have met, and *)
(* those it could not miss.                                                *)
Behind(c) == {n \in Names : ShardOf[n] < call[c].next}
Seen(c) == UNION {DOMAIN m : m \in instants[c]}
Stayed(c) == {n \in Names : \A m \in instants[c] : n \in DOMAIN m}

(* What each call knows of the shards behind it.                           *)
ListInv(c) ==
    call[c].op = "list" =>
        \A n \in Behind(c) : \E m \in instants[c] : SameAt(n, call[c].read, m)

CountInv(c) ==
    call[c].op = "len" =>
        /\ Cardinality(Stayed(c) \cap Behind(c)) <= call[c].count
        /\ call[c].count <= Cardinality(Seen(c) \cap Behind(c))

ClearInv(c) ==
    call[c].op = "clear" => DOMAIN inner \cap Behind(c) \subseteq written[c]

HistoryInv(c) ==
    /\ IsScan(call[c].op) => inner \in instants[c]
    /\ \A m \in instants[c] : IsContent(m)
    /\ IsFiniteSet(Seen(c))

ClientInv(c) ==
    /\ CallOK(c)
    /\ HistoryInv(c)
    /\ ListInv(c)
    /\ CountInv(c)
    /\ ClearInv(c)

(* The inductive invariant.                                                *)
ContentInv == IsContent(inner) /\ IsFiniteSet(DOMAIN inner)

DomainInv ==
    /\ DOMAIN call = Clients
    /\ DOMAIN instants = Clients
    /\ written \in [Clients -> SUBSET Names]

StoreInv == ContentInv /\ DomainInv /\ \A c \in Clients : ClientInv(c)

-----------------------------------------------------------------------------
(* The contents that the operations make.                                  *)
LEMMA StoredContent ==
    ASSUME NEW m, IsContent(m), IsFiniteSet(DOMAIN m),
           NEW n \in Names, NEW f \in Flags
    PROVE  /\ IsContent(Stored(m, n, f))
           /\ IsFiniteSet(DOMAIN Stored(m, n, f))
           /\ DOMAIN Stored(m, n, f) = DOMAIN m \cup {n}
<1>1. DOMAIN Stored(m, n, f) = DOMAIN m \cup {n}
    BY DEF Stored
<1>2. IsFiniteSet(DOMAIN m \cup {n})
    BY FS_AddElement
<1>3. IsContent(Stored(m, n, f))
    BY DEF IsContent, Stored
<1> QED BY <1>1, <1>2, <1>3

LEMMA WithoutContent ==
    ASSUME NEW m, IsContent(m), NEW S
    PROVE  /\ IsContent(Without(m, S))
           /\ DOMAIN Without(m, S) = DOMAIN m \ S
           /\ \A n \in DOMAIN m \ S : Without(m, S)[n] = m[n]
           /\ IsFiniteSet(DOMAIN m) => IsFiniteSet(DOMAIN Without(m, S))
<1>1. DOMAIN Without(m, S) = DOMAIN m \ S
    BY DEF Without
<1>2. ASSUME IsFiniteSet(DOMAIN m)
      PROVE  IsFiniteSet(DOMAIN m \ S)
    BY <1>2, FS_Subset
<1> QED BY <1>1, <1>2 DEF IsContent, Without

(* The shard i of a content.                                               *)
LEMMA PartContent ==
    ASSUME NEW m, IsContent(m), NEW i
    PROVE  /\ IsContent(Part(m, i))
           /\ DOMAIN Part(m, i) = {n \in DOMAIN m : ShardOf[n] = i}
           /\ \A n \in DOMAIN Part(m, i) : Part(m, i)[n] = m[n]
           /\ IsFiniteSet(DOMAIN m) => IsFiniteSet(DOMAIN Part(m, i))
<1>1. DOMAIN m \ {n \in DOMAIN m : ShardOf[n] # i}
          = {n \in DOMAIN m : ShardOf[n] = i}
    OBVIOUS
<1> QED BY <1>1, WithoutContent DEF Part

LEMMA EmptyContent ==
    /\ IsContent(Empty)
    /\ DOMAIN Empty = {}
    /\ IsFiniteSet(DOMAIN Empty)
BY FS_EmptySet DEF Empty, IsContent

LEMMA InitInv == Init => StoreInv
<1> SUFFICES ASSUME Init
             PROVE  StoreInv
    OBVIOUS
<1>1. ContentInv
    BY EmptyContent DEF Init, ContentInv
<1>2. DomainInv
    BY DEF Init, DomainInv
<1>3. ASSUME NEW c \in Clients
      PROVE  ClientInv(c)
    <2>1. call[c] = Idle /\ instants[c] = {} /\ Idle.op = "idle"
        BY DEF Init, Idle
    <2>2. Seen(c) = {}
        BY <2>1 DEF Seen
    <2> QED
        BY <2>1, <2>2, FS_EmptySet
           DEF ClientInv, CallOK, HistoryInv, ListInv, CountInv, ClearInv, IsScan
<1> QED BY <1>1, <1>2, <1>3 DEF StoreInv

-----------------------------------------------------------------------------
(* The kinds of call, told apart by their op.                              *)
LEMMA Ops ==
    /\ Idle.op = "idle"
    /\ \A u, i, m : /\ Listing(u, i, m).op = "list"
                    /\ Listing(u, i, m).user = u
                    /\ Listing(u, i, m).next = i
                    /\ Listing(u, i, m).read = m
    /\ \A i, k : /\ Counting(i, k).op = "len"
                 /\ Counting(i, k).next = i
                 /\ Counting(i, k).count = k
    /\ \A i : Clearing(i).op = "clear" /\ Clearing(i).next = i
BY DEF Idle, Listing, Counting, Clearing

LEMMA CallKinds ==
    ASSUME NEW c \in Clients, CallOK(c)
    PROVE  /\ call[c].op \in {"idle", "list", "len", "clear"}
           /\ call[c].op = "idle" => call[c] = Idle
           /\ call[c].op # "idle" => call[c].next \in 1..(Shards + 1)
           /\ call[c].op = "list" =>
                  /\ call[c] = Listing(call[c].user, call[c].next, call[c].read)
                  /\ call[c].user \in Users
                  /\ IsContent(call[c].read)
                  /\ \A n \in DOMAIN call[c].read : ShardOf[n] < call[c].next
           /\ call[c].op = "len" =>
                  /\ call[c] = Counting(call[c].next, call[c].count)
                  /\ call[c].count \in Nat
                  /\ call[c].next = 1 => call[c].count = 0
           /\ call[c].op = "clear" => call[c] = Clearing(call[c].next)
<1>1. CASE call[c] = Idle
    BY <1>1, Ops
<1>2. CASE call[c].op = "list"
    BY <1>2 DEF CallOK, Idle
<1>3. CASE call[c] \in [op : {"len"}, next : 1..(Shards + 1), count : Nat]
    BY <1>3 DEF CallOK, Counting, Idle
<1>4. CASE call[c] \in [op : {"clear"}, next : 1..(Shards + 1)]
    BY <1>4 DEF Clearing
<1> QED BY <1>1, <1>2, <1>3, <1>4 DEF CallOK

(* A client whose call a step leaves alone, the content unchanged.         *)
LEMMA ClientUnchanged ==
    ASSUME NEW c \in Clients, ClientInv(c), inner' = inner,
           call'[c] = call[c], instants'[c] = instants[c],
           written'[c] = written[c]
    PROVE  ClientInv(c)'
<1>1. /\ CallOK(c)'
      /\ Seen(c)' = Seen(c)
      /\ Stayed(c)' = Stayed(c)
      /\ Behind(c)' = Behind(c)
    BY DEF ClientInv, CallOK, Seen, Stayed, Behind
<1>2. HistoryInv(c)'
    BY <1>1 DEF ClientInv, HistoryInv
<1>3. ListInv(c)' /\ CountInv(c)' /\ ClearInv(c)'
    BY <1>1 DEF ClientInv, ListInv, CountInv, ClearInv
<1> QED BY <1>1, <1>2, <1>3 DEF ClientInv

(* A client amid a call when the content changes to m: a scan has one more *)
(* instant, which can only shrink what it could not miss and grow what it  *)
(* could have met.                                                         *)
LEMMA ClientBecome ==
    ASSUME StoreInv, NEW m, IsContent(m), IsFiniteSet(DOMAIN m), Become(m),
           NEW c \in Clients, call'[c] = call[c],
           call[c].op = "clear" => DOMAIN m \cap Behind(c) \subseteq written'[c]
    PROVE  ClientInv(c)'
<1>1. ClientInv(c) /\ inner' = m
    BY DEF StoreInv, Become
<1>2. instants'[c] = IF IsScan(call[c].op) THEN instants[c] \cup {m} ELSE {}
    BY DEF Become
<1>3. CallOK(c)' /\ Behind(c)' = Behind(c)
    BY <1>1 DEF ClientInv, CallOK, Behind
<1>4. Seen(c)' = IF IsScan(call[c].op) THEN Seen(c) \cup DOMAIN m ELSE {}
    BY <1>2 DEF Seen
<1>5. HistoryInv(c)'
    <2>1. IsFiniteSet(Seen(c) \cup DOMAIN m) /\ IsFiniteSet({})
        BY <1>1, FS_Union, FS_EmptySet DEF ClientInv, HistoryInv
    <2>2. IsFiniteSet(Seen(c)')
        BY <1>4, <2>1
    <2> QED BY <1>1, <1>2, <2>2 DEF ClientInv, HistoryInv
<1>6. ListInv(c)'
    BY <1>1, <1>2, <1>3 DEF ClientInv, ListInv, IsScan
<1>7. CountInv(c)'
    <2> SUFFICES ASSUME call[c].op = "len"
                 PROVE  CountInv(c)'
        BY DEF CountInv
    <2>1. IsScan(call[c].op) /\ call[c].count \in Nat
        BY <1>1, CallKinds DEF ClientInv, IsScan
    <2>2. Seen(c) \subseteq Seen(c)' /\ Stayed(c)' \subseteq Stayed(c)
        BY <1>2, <1>4, <2>1 DEF Stayed
    <2>3. Stayed(c) \subseteq Seen(c)
        BY <1>1, <2>1 DEF ClientInv, HistoryInv, Stayed, Seen
    <2>4. IsFiniteSet(Stayed(c) \cap Behind(c))
        BY <1>1, <2>3, FS_Subset DEF ClientInv, HistoryInv
    <2>5. IsFiniteSet(Seen(c)' \cap Behind(c))
        BY <1>5, FS_Subset DEF HistoryInv
    <2>6. /\ IsFiniteSet(Stayed(c)' \cap Behind(c))
          /\ Cardinality(Stayed(c)' \cap Behind(c))
                <= Cardinality(Stayed(c) \cap Behind(c))
        BY <2>2, <2>4, FS_Subset
    <2>7. /\ IsFiniteSet(Seen(c) \cap Behind(c))
          /\ Cardinality(Seen(c) \cap Behind(c))
                <= Cardinality(Seen(c)' \cap Behind(c))
        BY <2>2, <2>5, FS_Subset
    <2>8. /\ Cardinality(Stayed(c)' \cap Behind(c)) <= call[c].count
          /\ call[c].count <= Cardinality(Seen(c)' \cap Behind(c))
        BY <1>1, <2>1, <2>4, <2>5, <2>6, <2>7, FS_CardinalityType
           DEF ClientInv, CountInv
    <2> QED BY <1>3, <2>8 DEF CountInv
<1>8. ClearInv(c)'
    BY <1>1, <1>3 DEF ClearInv
<1> QED BY <1>3, <1>5, <1>6, <1>7, <1>8 DEF ClientInv

-----------------------------------------------------------------------------
LEMMA SetInv ==
    ASSUME StoreInv, NEW c \in Clients, NEW n \in Names, NEW f \in NewFlags,
           Set(c, n, f)
    PROVE  StoreInv'
<1> DEFINE m == Stored(inner, n, f)
<1>1. /\ IsContent(m)
      /\ IsFiniteSet(DOMAIN m)
      /\ DOMAIN m = DOMAIN inner \cup {n}
    BY NewFlagsAssumption, StoredContent DEF StoreInv, ContentInv
<1>2. Become(m) /\ call' = call
    BY DEF Set
<1>3. ContentInv'
    BY <1>1, <1>2 DEF ContentInv, Become
<1>4. DomainInv'
    BY <1>2 DEF StoreInv, DomainInv, Become, Set
<1>5. ASSUME NEW d \in Clients
      PROVE  ClientInv(d)'
    <2>1. ClientInv(d)
        BY DEF StoreInv
    <2>2. ASSUME call[d].op = "clear"
          PROVE  DOMAIN m \cap Behind(d) \subseteq written'[d]
        <3>1. Busy(d)
            BY <2>2, Ops DEF Busy
        <3>2. written'[d] = written[d] \cup {n}
            BY <3>1 DEF Set
        <3> QED BY <1>1, <2>1, <2>2, <3>2 DEF ClientInv, ClearInv
    <2> HIDE DEF m
    <2> QED BY <1>1, <1>2, <2>2, ClientBecome
<1> QED BY <1>3, <1>4, <1>5 DEF StoreInv

LEMMA DeleteInv ==
    ASSUME StoreInv, NEW c \in Clients, NEW n \in Names, Delete(c, n)
    PROVE  StoreInv'
<1> DEFINE m == Without(inner, {n})
<1>1. /\ IsContent(m)
      /\ IsFiniteSet(DOMAIN m)
      /\ DOMAIN m \subseteq DOMAIN inner
    <2>1. IsContent(inner) /\ IsFiniteSet(DOMAIN inner)
        BY DEF StoreInv, ContentInv
    <2>2. DOMAIN m = DOMAIN inner \ {n}
        BY <2>1, WithoutContent
    <2>3. IsContent(m) /\ IsFiniteSet(DOMAIN m)
        BY <2>1, WithoutContent
    <2> QED BY <2>2, <2>3
<1>2. Become(m) /\ call' = call /\ written' = written
    BY DEF Delete
<1>3. ContentInv'
    BY <1>1, <1>2 DEF ContentInv, Become
<1>4. DomainInv'
    BY <1>2 DEF StoreInv, DomainInv, Become
<1>5. ASSUME NEW d \in Clients
      PROVE  ClientInv(d)'
    <2>1. call[d].op = "clear" => DOMAIN m \cap Behind(d) \subseteq written'[d]
        BY <1>1, <1>2 DEF StoreInv, ClientInv, ClearInv
    <2> HIDE DEF m
    <2> QED BY <1>1, <1>2, <2>1, ClientBecome
<1> QED BY <1>3, <1>4, <1>5 DEF StoreInv

(* A call begins at the first shard, with none behind it.                  *)
LEMMA EnterInv ==
    ASSUME StoreInv, NEW c \in Clients, NEW state, Enter(c, state),
           \/ \E u \in Users : state = Listing(u, 1, Empty)
           \/ state \in {Counting(1, 0), Clearing(1)}
    PROVE  StoreInv'
<1>1. /\ call' = [call EXCEPT ![c] = state]
      /\ instants' = [instants EXCEPT
                        ![c] = IF IsScan(state.op) THEN {inner} ELSE {}]
      /\ written' = [written EXCEPT ![c] = {}]
      /\ inner' = inner
    BY DEF Enter
<1>2. ContentInv'
    BY <1>1 DEF StoreInv, ContentInv
<1>3. DomainInv'
    BY <1>1 DEF StoreInv, DomainInv
<1>4. ASSUME NEW d \in Clients, d # c
      PROVE  ClientInv(d)'
    BY <1>1, <1>4, ClientUnchanged DEF StoreInv, DomainInv
<1>5. ClientInv(c)'
    <2>1. /\ call'[c] = state
          /\ instants'[c] = IF IsScan(state.op) THEN {inner} ELSE {}
          /\ inner' = inner
        BY <1>1 DEF StoreInv, DomainInv
    <2>2. state.next = 1 /\ state.op \in {"list", "len", "clear"}
        BY Ops
    <2>3. Behind(c)' = {}
        BY <2>1, <2>2, ShardOfAssumption DEF Behind
    <2>4. CallOK(c)'
        <3>1. 1 \in 1..(Shards + 1)
            BY ShardsAssumption
        <3>2. CASE \E u \in Users : state = Listing(u, 1, Empty)
            BY <2>1, <3>1, <3>2, Ops, EmptyContent DEF CallOK
        <3>3. CASE state = Counting(1, 0)
            BY <2>1, <3>1, <3>3 DEF CallOK, Counting
        <3>4. CASE state = Clearing(1)
            BY <2>1, <3>1, <3>4 DEF CallOK, Clearing
        <3> QED BY <3>2, <3>3, <3>4
    <2>5. HistoryInv(c)'
        <3>1. Seen(c)' = IF IsScan(state.op) THEN DOMAIN inner ELSE {}
            BY <2>1 DEF Seen
        <3>2. IsFiniteSet(Seen(c)')
            BY <3>1, FS_EmptySet DEF StoreInv, ContentInv
        <3> QED BY <2>1, <3>2 DEF StoreInv, ContentInv, HistoryInv
    <2>6. CountInv(c)'
        <3>1. ASSUME state.op = "len"
              PROVE  state.count = 0
            BY <3>1, Ops
        <3>2. /\ Stayed(c)' \cap Behind(c)' = {}
              /\ Seen(c)' \cap Behind(c)' = {}
              /\ Cardinality({}) = 0
            BY <2>3, FS_EmptySet
        <3> QED BY <2>1, <3>1, <3>2 DEF CountInv
    <2> QED BY <2>3, <2>4, <2>5, <2>6 DEF ClientInv, ListInv, ClearInv
<1> QED BY <1>2, <1>3, <1>4, <1>5 DEF StoreInv

LEMMA LeaveInv ==
    ASSUME StoreInv, NEW c \in Clients, Leave(c)
    PROVE  StoreInv'
<1>1. /\ call' = [call EXCEPT ![c] = Idle]
      /\ instants' = [instants EXCEPT ![c] = {}]
      /\ written' = [written EXCEPT ![c] = {}]
      /\ inner' = inner
    BY DEF Leave
<1>2. ContentInv'
    BY <1>1 DEF StoreInv, ContentInv
<1>3. DomainInv'
    BY <1>1 DEF StoreInv, DomainInv
<1>4. ASSUME NEW d \in Clients, d # c
      PROVE  ClientInv(d)'
    BY <1>1, <1>4, ClientUnchanged DEF StoreInv, DomainInv
<1>5. ClientInv(c)'
    <2>1. call'[c] = Idle /\ instants'[c] = {} /\ Idle.op = "idle"
        BY <1>1, Ops DEF StoreInv, DomainInv
    <2>2. Seen(c)' = {}
        BY <2>1 DEF Seen
    <2>3. IsFiniteSet(Seen(c)')
        BY <2>2, FS_EmptySet
    <2> QED
        BY <2>1, <2>3
           DEF ClientInv, CallOK, HistoryInv, ListInv, CountInv, ClearInv, IsScan
<1> QED BY <1>2, <1>3, <1>4, <1>5 DEF StoreInv

(* One more shard is read: its names are reported as they stand now, which *)
(* is an instant of the call.                                              *)
LEMMA ListShardInv ==
    ASSUME StoreInv, NEW c \in Clients, ListShard(c)
    PROVE  StoreInv'
<1> DEFINE i == call[c].next
           u == call[c].user
           part == Part(inner, i)
           read == Joined(call[c].read, part)
<1>1. /\ ClientInv(c)
      /\ call[c].op = "list"
      /\ call[c] = Listing(u, i, call[c].read)
      /\ u \in Users
      /\ i \in 1..Shards
      /\ IsContent(call[c].read)
      /\ \A n \in DOMAIN call[c].read : ShardOf[n] < i
    <2>1. ClientInv(c) /\ call[c].op = "list" /\ i <= Shards
        BY DEF StoreInv, ListShard
    <2>2. i \in 1..(Shards + 1)
        BY <2>1, CallKinds DEF ClientInv
    <2> QED BY <2>1, <2>2, CallKinds, ShardsAssumption DEF ClientInv
<1>2. /\ call'[c] = Listing(u, i + 1, read)
      /\ \A d \in Clients : d # c => call'[d] = call[d]
      /\ DOMAIN call' = Clients
      /\ instants' = instants /\ written' = written /\ inner' = inner
    BY <1>1 DEF ListShard, StoreInv, DomainInv, Listing
<1>3. ContentInv' /\ DomainInv'
    BY <1>2 DEF StoreInv, ContentInv, DomainInv
<1>4. ASSUME NEW d \in Clients, d # c
      PROVE  ClientInv(d)'
    BY <1>2, <1>4, ClientUnchanged DEF StoreInv
<1>5. /\ IsContent(part)
      /\ DOMAIN part = {n \in DOMAIN inner : ShardOf[n] = i}
      /\ \A n \in DOMAIN part : part[n] = inner[n]
    BY PartContent DEF StoreInv, ContentInv
<1>6. /\ DOMAIN read = DOMAIN call[c].read \cup DOMAIN part
      /\ \A n \in DOMAIN call[c].read : read[n] = call[c].read[n]
      /\ \A n \in DOMAIN part : read[n] = inner[n]
      /\ IsContent(read)
      /\ \A n \in DOMAIN read : ShardOf[n] < i + 1
    <2>1. ASSUME NEW n \in DOMAIN part
          PROVE  n \notin DOMAIN call[c].read
        BY <1>1, <1>5
    <2> HIDE DEF part
    <2>2. /\ DOMAIN read = DOMAIN call[c].read \cup DOMAIN part
          /\ \A n \in DOMAIN call[c].read : read[n] = call[c].read[n]
          /\ \A n \in DOMAIN part : read[n] = part[n]
        BY <2>1 DEF Joined
    <2>3. IsContent(read)
        BY <1>1, <1>5, <2>2 DEF IsContent
    <2>4. \A n \in DOMAIN read : ShardOf[n] < i + 1
        <3> TAKE n \in DOMAIN read
        <3>1. n \in Names
            BY <2>3 DEF IsContent
        <3> QED BY <1>1, <1>5, <2>2, <3>1, ShardOfAssumption, ShardsAssumption
    <2> QED BY <1>5, <2>2, <2>3, <2>4
<1> HIDE DEF part, read, u
<1>7. /\ call'[c].op = "list"
      /\ call'[c].user = u
      /\ call'[c].next = i + 1
      /\ call'[c].read = read
    BY <1>2, Ops
<1>8. ClientInv(c)'
    <2>1. CallOK(c)'
        BY <1>1, <1>2, <1>6, <1>7, ShardsAssumption DEF CallOK
    <2>2. HistoryInv(c)'
        <3>1. Seen(c)' = Seen(c)
            BY <1>2 DEF Seen
        <3> QED BY <1>1, <1>2, <1>7, <3>1 DEF ClientInv, HistoryInv
    <2>3. ListInv(c)'
        <3> SUFFICES ASSUME NEW n \in Behind(c)'
                     PROVE  \E m \in instants[c] : SameAt(n, read, m)
            BY <1>2, <1>7 DEF ListInv
        <3>1. n \in Names /\ ShardOf[n] < i + 1 /\ ShardOf[n] \in 1..Shards
            BY <1>7, ShardOfAssumption DEF Behind
        <3>2. CASE ShardOf[n] = i
            <4>1. inner \in instants[c]
                BY <1>1 DEF ClientInv, HistoryInv, IsScan
            <4>2. n \notin DOMAIN call[c].read
                BY <1>1, <3>2
            <4>3. SameAt(n, read, inner)
                BY <1>5, <1>6, <3>2, <4>2 DEF SameAt
            <4> QED BY <4>1, <4>3
        <3>3. CASE ShardOf[n] # i
            <4>1. ShardOf[n] < i
                BY <1>1, <3>1, <3>3
            <4>2. PICK m \in instants[c] : SameAt(n, call[c].read, m)
                BY <1>1, <3>1, <4>1 DEF ClientInv, ListInv, Behind
            <4>3. n \notin DOMAIN part
                BY <1>5, <3>3
            <4> QED BY <1>6, <4>2, <4>3 DEF SameAt
        <3> QED BY <3>2, <3>3
    <2> QED BY <1>7, <2>1, <2>2, <2>3 DEF ClientInv, CountInv, ClearInv
<1> QED BY <1>3, <1>4, <1>8 DEF StoreInv

(* One more shard is counted: what it holds now was met, and what stayed   *)
(* in the store throughout is in it.                                       *)
LEMMA CountShardInv ==
    ASSUME StoreInv, NEW c \in Clients, CountShard(c)
    PROVE  StoreInv'
<1> DEFINE i == call[c].next
           k == call[c].count
           here == DOMAIN Part(inner, i)
           InShard == {n \in Names : ShardOf[n] = i}
<1>1. /\ ClientInv(c)
      /\ call[c].op = "len"
      /\ i \in 1..Shards
      /\ k \in Nat
    <2>1. ClientInv(c) /\ call[c].op = "len" /\ i <= Shards
        BY DEF StoreInv, CountShard
    <2>2. i \in 1..(Shards + 1)
        BY <2>1, CallKinds DEF ClientInv
    <2> QED BY <2>1, <2>2, CallKinds, ShardsAssumption DEF ClientInv
<1>2. /\ call'[c] = Counting(i + 1, k + Cardinality(here))
      /\ \A d \in Clients : d # c => call'[d] = call[d]
      /\ DOMAIN call' = Clients
      /\ instants' = instants /\ written' = written /\ inner' = inner
    BY DEF CountShard, SizeOf, StoreInv, DomainInv
<1>3. ContentInv' /\ DomainInv'
    BY <1>2 DEF StoreInv, ContentInv, DomainInv
<1>4. ASSUME NEW d \in Clients, d # c
      PROVE  ClientInv(d)'
    BY <1>2, <1>4, ClientUnchanged DEF StoreInv
<1>5. /\ here = {n \in DOMAIN inner : ShardOf[n] = i}
      /\ IsFiniteSet(here)
      /\ DOMAIN inner \subseteq Names
    BY PartContent DEF StoreInv, ContentInv, IsContent
<1>6. Cardinality(here) \in Nat
    BY <1>5, FS_CardinalityType
<1> HIDE DEF here
<1>7. /\ call'[c].op = "len"
      /\ call'[c].next = i + 1
      /\ call'[c].count = k + Cardinality(here)
    BY <1>2, Ops
<1>8. Behind(c)' = Behind(c) \cup InShard
    <2>1. \A n \in Names : ShardOf[n] < i + 1 <=> ShardOf[n] < i \/ ShardOf[n] = i
        BY <1>1, ShardOfAssumption, ShardsAssumption
    <2> QED BY <1>7, <2>1 DEF Behind
<1>9. /\ Stayed(c)' = Stayed(c)
      /\ Seen(c)' = Seen(c)
      /\ inner \in instants[c]
      /\ IsFiniteSet(Seen(c))
    BY <1>1, <1>2 DEF Stayed, Seen, ClientInv, HistoryInv, IsScan
<1>10. Cardinality(Stayed(c) \cap Behind(c)') <= k + Cardinality(here)
    <2> DEFINE before == Stayed(c) \cap Behind(c)
               now == Stayed(c) \cap InShard
    <2>1. now \subseteq here /\ before \subseteq Seen(c)
        BY <1>5, <1>9 DEF Stayed, Seen
    <2>2. /\ IsFiniteSet(now)
          /\ Cardinality(now) <= Cardinality(here)
          /\ IsFiniteSet(before)
        BY <1>5, <1>9, <2>1, FS_Subset
    <2>3. before \cap now = {}
        BY <1>1 DEF Behind
    <2>4. Cardinality(before \cup now)
              = Cardinality(before) + Cardinality(now) - 0
        BY <2>2, <2>3, FS_Union, FS_EmptySet
    <2>5. Cardinality(before) <= k
        BY <1>1 DEF ClientInv, CountInv
    <2>6. Stayed(c) \cap Behind(c)' = before \cup now
        BY <1>8
    <2>7. Cardinality(before) \in Nat /\ Cardinality(now) \in Nat
        BY <2>2, FS_CardinalityType
    <2>8. Cardinality(before \cup now) <= k + Cardinality(here)
        <3> HIDE DEF before, now, k
        <3> QED BY <1>1, <1>6, <2>2, <2>4, <2>5, <2>7
    <2> QED BY <2>6, <2>8
<1>11. k + Cardinality(here) <= Cardinality(Seen(c) \cap Behind(c)')
    <2> DEFINE before == Seen(c) \cap Behind(c)
    <2>1. here \subseteq Seen(c) \cap InShard
        BY <1>5, <1>9 DEF Seen
    <2>2. before \cap here = {}
        BY <1>1, <1>5 DEF Behind
    <2>3. IsFiniteSet(before)
        BY <1>9, FS_Subset
    <2>4. Cardinality(before \cup here)
              = Cardinality(before) + Cardinality(here) - 0
        BY <1>5, <2>2, <2>3, FS_Union, FS_EmptySet
    <2>5. k <= Cardinality(before)
        BY <1>1 DEF ClientInv, CountInv
    <2>6. before \cup here \subseteq Seen(c) \cap Behind(c)'
        BY <1>8, <2>1
    <2>7. IsFiniteSet(Seen(c) \cap Behind(c)')
        BY <1>9, FS_Subset
    <2>8. Cardinality(before \cup here) <= Cardinality(Seen(c) \cap Behind(c)')
        BY <2>6, <2>7, FS_Subset
    <2>9. /\ Cardinality(before) \in Nat
          /\ Cardinality(Seen(c) \cap Behind(c)') \in Nat
        BY <2>3, <2>7, FS_CardinalityType
    <2> HIDE DEF before, k
    <2> QED BY <1>1, <1>6, <2>4, <2>5, <2>8, <2>9
<1>12. ClientInv(c)'
    <2>1. CallOK(c)'
        BY <1>1, <1>2, <1>6, ShardsAssumption DEF CallOK, Counting
    <2>2. HistoryInv(c)'
        BY <1>1, <1>2, <1>9 DEF ClientInv, HistoryInv
    <2>3. CountInv(c)'
        BY <1>7, <1>9, <1>10, <1>11 DEF CountInv
    <2> QED BY <1>7, <2>1, <2>2, <2>3 DEF ClientInv, ListInv, ClearInv
<1> QED BY <1>3, <1>4, <1>12 DEF StoreInv

(* One more shard is emptied: what it holds later was stored later.        *)
LEMMA ClearShardInv ==
    ASSUME StoreInv, NEW c \in Clients, ClearShard(c)
    PROVE  StoreInv'
<1> DEFINE i == call[c].next
           S == {n \in DOMAIN inner : ShardOf[n] = i}
           m == Without(inner, S)
<1>1. /\ ClientInv(c)
      /\ call[c].op = "clear"
      /\ call[c] = Clearing(i)
      /\ i \in 1..Shards
    <2>1. ClientInv(c) /\ call[c].op = "clear" /\ i <= Shards
        BY DEF StoreInv, ClearShard
    <2>2. i \in 1..(Shards + 1)
        BY <2>1, CallKinds DEF ClientInv
    <2> QED BY <2>1, <2>2, CallKinds, ShardsAssumption DEF ClientInv
<1>2. /\ IsContent(m)
      /\ IsFiniteSet(DOMAIN m)
      /\ DOMAIN m = DOMAIN inner \ S
    <2>1. IsContent(inner) /\ IsFiniteSet(DOMAIN inner)
        BY DEF StoreInv, ContentInv
    <2> HIDE DEF S
    <2> QED BY <2>1, WithoutContent
<1>3. /\ Become(m)
      /\ call'[c] = Clearing(i + 1)
      /\ \A d \in Clients : d # c => call'[d] = call[d]
      /\ DOMAIN call' = Clients
      /\ written' = written
    BY <1>1 DEF ClearShard, StoreInv, DomainInv, Clearing
<1>4. ContentInv'
    BY <1>2, <1>3 DEF ContentInv, Become
<1>5. DomainInv'
    BY <1>3 DEF StoreInv, DomainInv, Become
<1>6. ASSUME NEW d \in Clients, d # c
      PROVE  ClientInv(d)'
    <2>1. call[d].op = "clear" => DOMAIN m \cap Behind(d) \subseteq written'[d]
        BY <1>2, <1>3 DEF StoreInv, ClientInv, ClearInv
    <2> HIDE DEF m
    <2> QED BY <1>2, <1>3, <1>6, <2>1, ClientBecome
<1>7. ClientInv(c)'
    <2>1. /\ call'[c].op = "clear"
          /\ call'[c].next = i + 1
          /\ inner' = m
          /\ instants'[c] = {}
        BY <1>1, <1>3, Ops DEF Become, IsScan
    <2>2. CallOK(c)'
        BY <1>1, <1>3, ShardsAssumption DEF CallOK, Clearing
    <2>3. Seen(c)' = {}
        BY <2>1 DEF Seen
    <2>4. IsFiniteSet(Seen(c)')
        BY <2>3, FS_EmptySet
    <2>5. HistoryInv(c)'
        BY <2>1, <2>4 DEF HistoryInv, IsScan
    <2>6. ClearInv(c)'
        <3> SUFFICES ASSUME NEW n \in DOMAIN m, n \in Behind(c)'
                     PROVE  n \in written[c]
            BY <1>3, <2>1 DEF ClearInv
        <3>1. n \in DOMAIN inner /\ n \in Names /\ ShardOf[n] # i
            BY <1>2 DEF Behind
        <3>2. ShardOf[n] < i
            BY <1>1, <2>1, <3>1, ShardOfAssumption, ShardsAssumption DEF Behind
        <3> QED BY <1>1, <3>1, <3>2 DEF ClientInv, ClearInv, Behind
    <2> QED BY <2>1, <2>2, <2>5, <2>6 DEF ClientInv, ListInv, CountInv
<1> QED BY <1>4, <1>5, <1>6, <1>7 DEF StoreInv

-----------------------------------------------------------------------------
LEMMA StepInv == StoreInv /\ [Next]_vars => StoreInv'
<1> SUFFICES ASSUME StoreInv, [Next]_vars
             PROVE  StoreInv'
    OBVIOUS
<1>1. ASSUME NEW c \in Clients, Step(c)
      PROVE  StoreInv'
    <2>1. CASE \E n \in Names, f \in NewFlags : Set(c, n, f)
        BY <2>1, SetInv
    <2>2. CASE \E n \in Names : Delete(c, n)
        BY <2>2, DeleteInv
    <2>3. CASE \E u \in Users : StartBulk(c, u)
        BY <2>3, EnterInv DEF StartBulk
    <2>4. CASE ListShard(c)
        BY <2>4, ListShardInv
    <2>5. CASE FinishBulk(c) \/ FinishLen(c) \/ FinishClear(c)
        BY <2>5, LeaveInv DEF FinishBulk, FinishLen, FinishClear
    <2>6. CASE StartLen(c) \/ StartClear(c)
        BY <2>6, EnterInv DEF StartLen, StartClear
    <2>7. CASE CountShard(c)
        BY <2>7, CountShardInv
    <2>8. CASE ClearShard(c)
        BY <2>8, ClearShardInv
    <2> QED
        BY <1>1, <2>1, <2>2, <2>3, <2>4, <2>5, <2>6, <2>7, <2>8 DEF Step
<1>2. CASE UNCHANGED vars
    <2>1. ContentInv' /\ DomainInv'
        BY <1>2 DEF vars, StoreInv, ContentInv, DomainInv
    <2>2. \A c \in Clients : ClientInv(c)'
        BY <1>2, ClientUnchanged DEF vars, StoreInv
    <2> QED BY <2>1, <2>2 DEF StoreInv
<1> QED BY <1>1, <1>2 DEF Next

LEMMA StoreInvariant == Spec => []StoreInv
BY InitInv, StepInv, PTL DEF Spec

(* The bulk evaluation decides by code of its own, as the single one does. *)
LEMMA BulkDecidesLikeSingle ==
    ASSUME NEW f \in Flags, NEW m, NEW n \in DOMAIN m, m[n] = f, NEW u
    PROVE  BulkDecision(f, n, u) <=> EnabledFor(m, n, u)
<1>1. CASE f.enabled /\ f.percentage # 0
    BY <1>1 DEF BulkDecision, EnabledFor, Enabled
<1>2. CASE ~f.enabled \/ f.percentage = 0
    BY <1>2 DEF BulkDecision, EnabledFor, Enabled
<1> QED BY <1>1, <1>2

-----------------------------------------------------------------------------
(* The content and every half-finished call stay well typed, whatever the  *)
(* clients do (MemoryFlagStore).                                           *)
THEOREM MemoryStoreTypes == Spec => []TypeOK
<1>1. StoreInv => TypeOK
    BY DEF StoreInv, ContentInv, DomainInv, ClientInv, HistoryInv, TypeOK
<1> QED BY <1>1, StoreInvariant, PTL

(* A bulk evaluation answers each flag as it stood at some instant of the  *)
(* call: it invents none, misses none that stayed, and reports none in a   *)
(* state it did not have (MemoryFlagStore::list, enabled_for_all).         *)
THEOREM BulkIsTrueFlagByFlag == Spec => []BulkAnswersEachFlag
<1>1. StoreInv => BulkAnswersEachFlag
    <2> SUFFICES ASSUME StoreInv, NEW c \in Clients, Listed(c), NEW n \in Names
                 PROVE  \E m \in instants[c] : AgreesAt(c, n, m)
        BY DEF BulkAnswersEachFlag
    <2>1. ClientInv(c) /\ call[c].op = "list" /\ call[c].next > Shards
        BY DEF StoreInv, Listed
    <2>2. IsContent(call[c].read) /\ call[c].next \in 1..(Shards + 1)
        BY <2>1, CallKinds DEF ClientInv
    <2>3. n \in Behind(c)
        BY <2>1, <2>2, ShardOfAssumption, ShardsAssumption DEF Behind
    <2>4. PICK m \in instants[c] : SameAt(n, call[c].read, m)
        BY <2>1, <2>3 DEF ClientInv, ListInv
    <2>5. n \in DOMAIN BulkAnswer(c) <=> n \in DOMAIN m
        BY <2>4 DEF BulkAnswer, SameAt
    <2>6. ASSUME n \in DOMAIN m
          PROVE  BulkAnswer(c)[n] <=> EnabledFor(m, n, call[c].user)
        <3>1. n \in DOMAIN call[c].read /\ call[c].read[n] = m[n]
            BY <2>4, <2>6 DEF SameAt
        <3>2. m[n] \in Flags
            BY <2>2, <3>1 DEF IsContent
        <3>3. BulkAnswer(c)[n] = BulkDecision(m[n], n, call[c].user)
            BY <3>1 DEF BulkAnswer
        <3>4. BulkDecision(m[n], n, call[c].user)
                  <=> EnabledFor(m, n, call[c].user)
            BY <2>6, <3>2, BulkDecidesLikeSingle
        <3> QED BY <3>3, <3>4
    <2> QED BY <2>5, <2>6 DEF AgreesAt
<1> QED BY <1>1, StoreInvariant, PTL

(* len counts each flag at most once and misses none that stayed in the    *)
(* store, though no instant may have had that many (MemoryFlagStore::len,  *)
(* is_empty).                                                              *)
THEOREM LenIsTrueFlagByFlag == Spec => []LenCountsEachFlagOnce
<1>1. StoreInv => LenCountsEachFlagOnce
    <2> SUFFICES ASSUME StoreInv, NEW c \in Clients, Counted(c)
                 PROVE  /\ Cardinality(Stayed(c)) <= call[c].count
                        /\ call[c].count <= Cardinality(Seen(c))
        BY DEF LenCountsEachFlagOnce, Stayed, Seen
    <2>1. ClientInv(c) /\ call[c].op = "len" /\ call[c].next > Shards
        BY DEF StoreInv, Counted
    <2>2. call[c].next \in 1..(Shards + 1)
        BY <2>1, CallKinds DEF ClientInv
    <2>3. Behind(c) = Names
        BY <2>1, <2>2, ShardOfAssumption, ShardsAssumption DEF Behind
    <2>4. Seen(c) \subseteq Names /\ Stayed(c) \subseteq Names
        BY <2>1 DEF ClientInv, HistoryInv, IsContent, Seen, Stayed
    <2>5. Seen(c) \cap Behind(c) = Seen(c) /\ Stayed(c) \cap Behind(c) = Stayed(c)
        BY <2>3, <2>4
    <2> QED BY <2>1, <2>5 DEF ClientInv, CountInv
<1> QED BY <1>1, StoreInvariant, PTL

(* No flag survives a clear that was not stored after it began             *)
(* (MemoryFlagStore::clear).                                               *)
THEOREM ClearIsThorough == Spec => []ClearLeavesOnlyNewer
<1>1. StoreInv => ClearLeavesOnlyNewer
    <2> SUFFICES ASSUME StoreInv, NEW c \in Clients, AllCleared(c)
                 PROVE  DOMAIN inner \subseteq written[c]
        BY DEF ClearLeavesOnlyNewer
    <2>1. ClientInv(c) /\ call[c].op = "clear" /\ call[c].next > Shards
        BY DEF StoreInv, AllCleared
    <2>2. call[c].next \in 1..(Shards + 1)
        BY <2>1, CallKinds DEF ClientInv
    <2>3. DOMAIN inner \subseteq Behind(c)
        BY <2>1, <2>2, ShardOfAssumption, ShardsAssumption
           DEF Behind, StoreInv, ContentInv, IsContent
    <2> QED BY <2>1, <2>3 DEF ClientInv, ClearInv
<1> QED BY <1>1, StoreInvariant, PTL
=============================================================================
