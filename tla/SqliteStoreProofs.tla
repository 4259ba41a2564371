------------------------- MODULE SqliteStoreProofs -------------------------
(***************************************************************************)
(* Proofs about SqliteFlagStore for every set of callers, names and        *)
(* requests, and every table it may find: the audit, and that the store    *)
(* implements FlagStore.                                                   *)
(***************************************************************************)
EXTENDS SqliteStore, FiniteSetTheorems, FunctionTheorems, TLAPS

(* The mutex: the callers that want it queue up for it, each once.         *)
QueueInv ==
    /\ queue \in Seq(Callers)
    /\ Range(queue) = {c \in Callers : WantsLock(c)}
    /\ IsInjective(queue)

(* The audit table, of which a call knows a beginning.                     *)
Changes == [name : Names, when : Int]

KnownInv(c) == call[c].known \in 0..Len(changes)

(* A list holds the mutex, so what it has read is still in the table.      *)
ReadInv(c) ==
    /\ HasLock(c)
    /\ call[c].request.op = "list"
    /\ DOMAIN call[c].read \subseteq DOMAIN rows
    /\ \A n \in DOMAIN call[c].read : call[c].read[n] = rows[n]

(* The ids s give the history of n, complete from the first k records on,  *)
(* by falling time.                                                        *)
IsHistory(s, n, k) ==
    /\ IsInjective(s)
    /\ \A i \in DOMAIN s : s[i] \in DOMAIN changes /\ changes[s[i]].name = n
    /\ \A i \in 1..k : changes[i].name = n => i \in Range(s)
    /\ \A i, j \in DOMAIN s : i < j => changes[s[i]].when >= changes[s[j]].when

AuditInv(c) ==
    call[c].result = "changes" =>
        IsHistory(call[c].ids, call[c].request.name, call[c].known)

CallInv(c) ==
    \/ call[c] = Idle
    \/ /\ call[c].stage = "asked"
       /\ call[c] = Asked(call[c].request, call[c].known)
       /\ call[c].request \in Requests
       /\ KnownInv(c)
    \/ /\ call[c].stage = "reading"
       /\ call[c] = Reading(call[c].request, call[c].known, call[c].read)
       /\ call[c].request \in Requests
       /\ KnownInv(c)
       /\ ReadInv(c)
    \/ /\ call[c].stage = "answered"
       /\ call[c] = Answered(call[c].request, call[c].known, call[c].result,
                             call[c].found, call[c].ids, call[c].fault)
       /\ call[c].request \in Requests
       /\ KnownInv(c)
       /\ AuditInv(c)

(* The inductive invariant.                                                *)
StoreInv ==
    /\ IsTable(rows)
    /\ changes \in Seq(Changes)
    /\ DOMAIN call = Callers
    /\ QueueInv
    /\ \A c \in Callers : CallInv(c)

-----------------------------------------------------------------------------
(* The queue.                                                              *)
LEMMA QueueIndices ==
    ASSUME queue \in Seq(Callers)
    PROVE  /\ Len(queue) \in Nat
           /\ DOMAIN queue = 1..Len(queue)
           /\ \A i \in 1..Len(queue) : queue[i] \in Callers
           /\ \A c : c \in Range(queue) <=> \E i \in 1..Len(queue) : queue[i] = c
BY DEF Range

LEMMA HolderIsFirst ==
    ASSUME NEW q \in Seq(Callers), NEW c
    PROVE  (q # <<>> /\ c = Head(q)) <=> (1 \in DOMAIN q /\ q[1] = c)
OBVIOUS

(* Who leaves the queue does so once and keeps the order of the others.    *)
LEMMA LeftQueueType ==
    ASSUME QueueInv, NEW c \in Callers
    PROVE  /\ LeftQueue(c) \in Seq(Callers)
           /\ Range(LeftQueue(c)) = Range(queue) \ {c}
           /\ IsInjective(LeftQueue(c))
           /\ \A d \in Callers : d # c /\ HasLock(d) =>
                  1 \in DOMAIN LeftQueue(c) /\ LeftQueue(c)[1] = d
<1>1. /\ queue \in Seq(Callers)
      /\ IsInjective(queue)
      /\ Len(queue) \in Nat
      /\ DOMAIN queue = 1..Len(queue)
    BY QueueIndices DEF QueueInv
<1>2. CASE c \notin Range(queue)
    <2>1. LeftQueue(c) = queue
        BY <1>2 DEF LeftQueue
    <2> QED BY <1>1, <1>2, <2>1, HolderIsFirst DEF HasLock
<1>3. CASE c \in Range(queue)
    <2> DEFINE p == Place(c)
               left == [i \in 1..(Len(queue) - 1) |->
                            queue[IF i < p THEN i ELSE i + 1]]
    <2>1. LeftQueue(c) = left
        BY <1>3 DEF LeftQueue
    <2>2. p \in 1..Len(queue) /\ queue[p] = c
        BY <1>1, <1>3 DEF Place, Range
    <2>3. \A i \in 1..Len(queue) : queue[i] = c => i = p
        BY <1>1, <2>2 DEF IsInjective
    <2> HIDE DEF p
    <2>4. /\ left \in Seq(Callers)
          /\ DOMAIN left = 1..(Len(queue) - 1)
        BY <1>1, <2>2
    <2>5. Range(left) = Range(queue) \ {c}
        <3>1. ASSUME NEW d \in Range(left)
              PROVE  d \in Range(queue) \ {c}
            <4>1. PICK i \in 1..(Len(queue) - 1) :
                        d = queue[IF i < p THEN i ELSE i + 1]
                BY DEF Range
            <4>2. (IF i < p THEN i ELSE i + 1) \in 1..Len(queue) \ {p}
                BY <1>1, <2>2
            <4> QED BY <1>1, <2>3, <4>1, <4>2 DEF Range
        <3>2. ASSUME NEW d \in Range(queue), d # c
              PROVE  d \in Range(left)
            <4>1. PICK j \in 1..Len(queue) : d = queue[j]
                BY <1>1 DEF Range
            <4>2. j # p
                BY <2>2, <3>2, <4>1
            <4>3. CASE j < p
                <5>1. j \in 1..(Len(queue) - 1) /\ left[j] = d
                    BY <1>1, <2>2, <4>1, <4>3
                <5> QED BY <2>4, <5>1 DEF Range
            <4>4. CASE j > p
                <5>1. j - 1 \in 1..(Len(queue) - 1) /\ left[j - 1] = d
                    BY <1>1, <2>2, <4>1, <4>4
                <5> QED BY <2>4, <5>1 DEF Range
            <4> QED BY <1>1, <2>2, <4>2, <4>3, <4>4
        <3> QED BY <3>1, <3>2
    <2>6. IsInjective(left)
        <3> SUFFICES ASSUME NEW i \in 1..(Len(queue) - 1),
                            NEW j \in 1..(Len(queue) - 1),
                            left[i] = left[j]
                     PROVE  i = j
            BY <2>4 DEF IsInjective
        <3>1. /\ (IF i < p THEN i ELSE i + 1) \in DOMAIN queue
              /\ (IF j < p THEN j ELSE j + 1) \in DOMAIN queue
            BY <1>1, <2>2
        <3>2. (IF i < p THEN i ELSE i + 1) = (IF j < p THEN j ELSE j + 1)
            BY <1>1, <3>1 DEF IsInjective
        <3> QED BY <1>1, <2>2, <3>2
    <2>7. ASSUME NEW d \in Callers, d # c, HasLock(d)
          PROVE  1 \in DOMAIN left /\ left[1] = d
        <3>1. 1 \in 1..Len(queue) /\ queue[1] = d
            BY <1>1, <2>7, HolderIsFirst DEF HasLock
        <3>2. p # 1
            BY <2>2, <2>7, <3>1
        <3> QED BY <1>1, <2>2, <2>4, <3>1, <3>2
    <2> QED BY <2>1, <2>4, <2>5, <2>6, <2>7
<1> QED BY <1>2, <1>3

(* An answered or forgotten call leaves the queue.                         *)
LEMMA LeaveQueue ==
    ASSUME QueueInv, NEW c \in Callers,
           call'[c].stage \in {"idle", "answered"},
           \A d \in Callers : d # c => call'[d] = call[d],
           queue' = LeftQueue(c)
    PROVE  /\ QueueInv'
           /\ \A d \in Callers : d # c => (HasLock(d) => HasLock(d)')
<1>2. /\ queue' \in Seq(Callers)
      /\ Range(queue') = Range(queue) \ {c}
      /\ IsInjective(queue')
      /\ \A d \in Callers : d # c /\ HasLock(d) =>
             1 \in DOMAIN queue' /\ queue'[1] = d
    BY LeftQueueType
<1>3. Range(queue') = {d \in Callers : WantsLock(d)'}
    <2>1. ~WantsLock(c)'
        BY DEF WantsLock
    <2>2. \A d \in Callers : d # c => (WantsLock(d)' <=> WantsLock(d))
        BY DEF WantsLock
    <2> QED BY <1>2, <2>1, <2>2 DEF QueueInv
<1>4. \A d \in Callers : d # c /\ HasLock(d) => HasLock(d)'
    <2> TAKE d \in Callers
    <2> HAVE d # c /\ HasLock(d)
    <2>1. 1 \in DOMAIN queue' /\ queue'[1] = d
        BY <1>2
    <2> QED BY <1>2, <2>1, HolderIsFirst DEF HasLock
<1> QED BY <1>2, <1>3, <1>4 DEF QueueInv

(* At most one caller holds the mutex, and only one that asked for it.     *)
LEMMA OneHolder ==
    ASSUME QueueInv, NEW c \in Callers, HasLock(c)
    PROVE  WantsLock(c) /\ \A d : HasLock(d) => d = c
<1>1. queue \in Seq(Callers) /\ 1 \in DOMAIN queue /\ queue[1] = c
    BY HolderIsFirst DEF QueueInv, HasLock
<1>2. c \in Range(queue)
    BY <1>1 DEF Range
<1> QED BY <1>2 DEF QueueInv, HasLock

-----------------------------------------------------------------------------
(* The stages of a call.                                                   *)
LEMMA Stages ==
    /\ Idle.stage = "idle"
    /\ \A r, k : /\ Asked(r, k).stage = "asked"
                 /\ Asked(r, k).request = r
                 /\ Asked(r, k).known = k
    /\ \A r, k, m : /\ Reading(r, k, m).stage = "reading"
                    /\ Reading(r, k, m).request = r
                    /\ Reading(r, k, m).known = k
                    /\ Reading(r, k, m).read = m
    /\ \A r, k, result, found, ids, fault :
          /\ Answered(r, k, result, found, ids, fault).stage = "answered"
          /\ Answered(r, k, result, found, ids, fault).request = r
          /\ Answered(r, k, result, found, ids, fault).known = k
          /\ Answered(r, k, result, found, ids, fault).result = result
          /\ Answered(r, k, result, found, ids, fault).found = found
          /\ Answered(r, k, result, found, ids, fault).ids = ids
          /\ Answered(r, k, result, found, ids, fault).fault = fault
BY DEF Idle, Asked, Reading, Answered

LEMMA CallStages ==
    ASSUME NEW c \in Callers, CallInv(c)
    PROVE  /\ call[c] = Idle \/ call[c].stage \in {"asked", "reading", "answered"}
           /\ call[c] # Idle =>
                 call[c].request \in Requests /\ KnownInv(c)
           /\ call[c].stage = "reading" => ReadInv(c)
           /\ call[c].stage = "answered" => AuditInv(c)
BY Stages DEF CallInv

(* A call that a step leaves alone: the audit table at most grows, and the *)
(* rows stay as they are while a list reads them.                          *)
LEMMA CallUnchanged ==
    ASSUME NEW c \in Callers, CallInv(c), changes \in Seq(Changes),
           call'[c] = call[c],
           changes' \in Seq(Changes), Len(changes) <= Len(changes'),
           \A i \in 1..Len(changes) : changes'[i] = changes[i],
           call[c].stage = "reading" => HasLock(c)' /\ rows' = rows
    PROVE  CallInv(c)'
<1>1. Len(changes) \in Nat /\ Len(changes') \in Nat
    OBVIOUS
<1>2. DOMAIN changes = 1..Len(changes) /\ DOMAIN changes' = 1..Len(changes')
    OBVIOUS
<1>3. KnownInv(c) => KnownInv(c)'
    BY <1>1 DEF KnownInv
<1>4. CASE call[c] = Idle
    BY <1>4 DEF CallInv
<1>5. CASE call[c].stage = "asked"
    BY <1>3, <1>5, Stages DEF CallInv
<1>6. CASE call[c].stage = "reading"
    <2>1. ReadInv(c)'
        BY <1>6, Stages DEF CallInv, ReadInv
    <2> QED BY <1>3, <1>6, <2>1, Stages DEF CallInv
<1>7. CASE call[c].stage = "answered"
    <2>1. KnownInv(c) /\ AuditInv(c)
        BY <1>7, CallStages, Stages
    <2>2. AuditInv(c)'
        <3> SUFFICES ASSUME call[c].result = "changes"
                     PROVE  AuditInv(c)'
            BY DEF AuditInv
        <3> DEFINE s == call[c].ids
                   n == call[c].request.name
        <3>1. /\ IsInjective(s)
              /\ \A i \in DOMAIN s :
                     s[i] \in 1..Len(changes) /\ changes[s[i]].name = n
              /\ \A i \in 1..call[c].known : changes[i].name = n => i \in Range(s)
              /\ \A i, j \in DOMAIN s :
                     i < j => changes[s[i]].when >= changes[s[j]].when
            BY <1>2, <2>1 DEF AuditInv, IsHistory
        <3>2. \A i \in DOMAIN s :
                  s[i] \in 1..Len(changes') /\ changes'[s[i]] = changes[s[i]]
            BY <1>1, <3>1
        <3>3. \A i \in 1..call[c].known : changes'[i] = changes[i]
            BY <1>1, <2>1 DEF KnownInv
        <3> HIDE DEF s, n
        <3>4. /\ \A i \in DOMAIN s :
                     s[i] \in DOMAIN changes' /\ changes'[s[i]].name = n
              /\ \A i \in 1..call[c].known : changes'[i].name = n => i \in Range(s)
              /\ \A i, j \in DOMAIN s :
                     i < j => changes'[s[i]].when >= changes'[s[j]].when
            BY <1>2, <3>1, <3>2, <3>3
        <3> QED BY <3>1, <3>4 DEF AuditInv, IsHistory, s, n
    <2> QED BY <1>3, <1>7, <2>1, <2>2, Stages DEF CallInv
<1> QED BY <1>4, <1>5, <1>6, <1>7, CallStages

LEMMA InitInv == Init => StoreInv
<1> SUFFICES ASSUME Init
             PROVE  StoreInv
    OBVIOUS
<1>1. IsTable(rows)
    BY FoundRowsAssumption DEF Init
<1>2. changes \in Seq(Changes) /\ queue \in Seq(Callers) /\ DOMAIN call = Callers
    BY DEF Init
<1>3. QueueInv
    <2>1. \A c \in Callers : ~WantsLock(c)
        BY Stages DEF Init, WantsLock
    <2>2. Range(queue) = {} /\ IsInjective(queue)
        BY DEF Init, Range, IsInjective
    <2> QED BY <1>2, <2>1, <2>2 DEF QueueInv
<1>4. \A c \in Callers : CallInv(c)
    BY DEF Init, CallInv
<1> QED BY <1>1, <1>2, <1>3, <1>4 DEF StoreInv

LEMMA AskInv ==
    ASSUME StoreInv, NEW c \in Callers, NEW r \in Requests, Ask(c, r)
    PROVE  StoreInv'
<1>1. /\ call[c] = Idle
      /\ call'[c] = Asked(r, Known(r))
      /\ \A d \in Callers : d # c => call'[d] = call[d]
      /\ DOMAIN call' = Callers
      /\ queue' = IF Refused(r) THEN queue ELSE Append(queue, c)
      /\ rows' = rows /\ changes' = changes
    BY DEF Ask, StoreInv
<1>2. /\ queue \in Seq(Callers)
      /\ c \notin Range(queue)
      /\ IsInjective(queue)
      /\ DOMAIN queue = 1..Len(queue)
      /\ Len(queue) \in Nat
    BY <1>1, QueueIndices, Stages DEF StoreInv, QueueInv, WantsLock
<1>3. WantsLock(c)' <=> ~Refused(r)
    BY <1>1, Stages DEF WantsLock
<1>4. \A d \in Callers : d # c => (WantsLock(d)' <=> WantsLock(d))
    BY <1>1 DEF WantsLock
<1>5. QueueInv'
    <2>1. CASE Refused(r)
        <3>1. queue' = queue
            BY <1>1, <2>1
        <3>2. {d \in Callers : WantsLock(d)'} = {d \in Callers : WantsLock(d)}
            BY <1>1, <1>3, <1>4, <2>1, Stages DEF WantsLock
        <3> QED BY <3>1, <3>2 DEF StoreInv, QueueInv
    <2>2. CASE ~Refused(r)
        <3>1. /\ queue' \in Seq(Callers)
              /\ DOMAIN queue' = 1..(Len(queue) + 1)
              /\ \A i \in 1..Len(queue) : queue'[i] = queue[i]
              /\ queue'[Len(queue) + 1] = c
            BY <1>1, <1>2, <2>2
        <3>2. Range(queue') = Range(queue) \cup {c}
            <4>1. \A d \in Range(queue) : d \in Range(queue')
                BY <1>2, <3>1 DEF Range
            <4>2. c \in Range(queue')
                BY <1>2, <3>1 DEF Range
            <4>3. \A d \in Range(queue') : d \in Range(queue) \/ d = c
                BY <1>2, <3>1 DEF Range
            <4> QED BY <4>1, <4>2, <4>3
        <3>3. IsInjective(queue')
            <4>1. \A i \in 1..Len(queue) : queue[i] # c
                BY <1>2 DEF Range
            <4> QED BY <1>2, <3>1, <4>1 DEF IsInjective
        <3>4. {d \in Callers : WantsLock(d)'}
                    = {d \in Callers : WantsLock(d)} \cup {c}
            BY <1>3, <1>4, <2>2
        <3> QED BY <3>1, <3>2, <3>3, <3>4 DEF StoreInv, QueueInv
    <2> QED BY <2>1, <2>2
<1>6. ASSUME NEW d \in Callers, d # c
      PROVE  CallInv(d)'
    <2>1. ASSUME call[d].stage = "reading"
          PROVE  HasLock(d)'
        <3>1. HasLock(d)
            BY <2>1, CallStages DEF StoreInv, ReadInv
        <3>2. 1 \in 1..Len(queue) /\ queue[1] = d
            BY <1>2, <3>1, HolderIsFirst DEF HasLock
        <3>3. queue' \in Seq(Callers) /\ 1 \in DOMAIN queue' /\ queue'[1] = d
            BY <1>1, <1>2, <3>2
        <3> QED BY <3>3, HolderIsFirst DEF HasLock
    <2> QED BY <1>1, <1>6, <2>1, CallUnchanged DEF StoreInv
<1>7. CallInv(c)'
    <2>1. Known(r) \in 0..Len(changes)
        BY DEF Known, StoreInv
    <2> QED BY <1>1, <2>1, Stages DEF CallInv, KnownInv
<1> QED BY <1>1, <1>5, <1>6, <1>7 DEF StoreInv

(* An answer: given by the holder of the mutex, or without any effect on   *)
(* the tables.                                                             *)
LEMMA ReplyInv ==
    ASSUME StoreInv, NEW c \in Callers, call[c] # Idle,
           NEW result, NEW found, NEW ids, NEW fault,
           Reply(c, result, found, ids, fault),
           IsTable(rows'), HasLock(c) \/ rows' = rows,
           changes' \in Seq(Changes), Len(changes) <= Len(changes'),
           \A i \in 1..Len(changes) : changes'[i] = changes[i],
           result = "changes" =>
                /\ changes' = changes
                /\ IsHistory(ids, call[c].request.name, call[c].known)
    PROVE  StoreInv'
<1>1. /\ DOMAIN call' = Callers
      /\ call'[c] = Answered(call[c].request, call[c].known,
                             result, found, ids, fault)
      /\ \A d \in Callers : d # c => call'[d] = call[d]
      /\ queue' = LeftQueue(c)
    BY DEF Reply, StoreInv
<1>2. /\ QueueInv'
      /\ \A d \in Callers : d # c => (HasLock(d) => HasLock(d)')
    <2>1. QueueInv /\ call'[c].stage \in {"idle", "answered"}
        BY <1>1, Stages DEF StoreInv
    <2> QED BY <1>1, <2>1, LeaveQueue
<1>3. ASSUME NEW d \in Callers, d # c
      PROVE  CallInv(d)'
    <2>1. ASSUME call[d].stage = "reading"
          PROVE  HasLock(d)' /\ rows' = rows
        <3>1. HasLock(d)
            BY <2>1, CallStages DEF StoreInv, ReadInv
        <3> QED BY <1>3, <3>1, <1>2, OneHolder DEF StoreInv
    <2> QED BY <1>1, <1>3, <2>1, CallUnchanged DEF StoreInv
<1>4. CallInv(c)'
    <2>1. call[c].request \in Requests /\ KnownInv(c)
        BY CallStages DEF StoreInv
    <2>2. Len(changes) \in Nat /\ Len(changes') \in Nat
        BY DEF StoreInv
    <2>3. KnownInv(c)'
        BY <1>1, <2>1, <2>2, Stages DEF KnownInv
    <2>4. AuditInv(c)'
        BY <1>1, Stages DEF AuditInv, IsHistory
    <2> QED BY <1>1, <2>1, <2>3, <2>4, Stages DEF CallInv
<1> QED BY <1>1, <1>2, <1>3, <1>4 DEF StoreInv

-----------------------------------------------------------------------------
LEMMA RequestTypes ==
    ASSUME NEW r \in Requests
    PROVE  /\ r.op \in {"get", "set", "delete", "list", "record", "changes"}
           /\ r.op # "list" => r.name \in Names
           /\ r.op = "set" => r.flag \in Flags
           /\ r.op = "record" => r.when \in Int
<1>1. r \in AllRequests
    BY RequestsAssumption
<1>2. CASE r \in [op : {"get", "delete", "changes"}, name : Names]
    BY <1>2
<1>3. CASE r \in [op : {"set"}, name : Names, flag : Flags]
    BY <1>3
<1>4. CASE r \in [op : {"list"}]
    BY <1>4
<1>5. CASE r \in [op : {"record"}, name : Names, when : Int]
    BY <1>5
<1> QED BY <1>1, <1>2, <1>3, <1>4, <1>5 DEF AllRequests

(* The holder of the mutex is amid a call that may run, and what it has    *)
(* read is in the table.                                                   *)
LEMMA Holder ==
    ASSUME StoreInv, NEW c \in Callers, HasLock(c)
    PROVE  /\ call[c] # Idle
           /\ call[c].stage \in {"asked", "reading"}
           /\ call[c].request \in Requests
           /\ KnownInv(c)
           /\ ~Refused(call[c].request)
           /\ DOMAIN RowsRead(c) \subseteq DOMAIN rows
           /\ \A n \in DOMAIN RowsRead(c) : RowsRead(c)[n] = rows[n]
           /\ call[c].request.op # "list" => RowsRead(c) = Empty
<1>1. WantsLock(c) /\ CallInv(c)
    BY OneHolder DEF StoreInv
<1>2. DOMAIN Empty = {}
    BY DEF Empty
<1>3. CASE call[c].stage = "asked" /\ ~Refused(call[c].request)
    BY <1>1, <1>2, <1>3, CallStages, Stages DEF RowsRead
<1>4. CASE call[c].stage = "reading"
    <2>1. call[c] # Idle /\ ReadInv(c)
        BY <1>1, <1>4, CallStages, Stages
    <2> QED BY <1>1, <1>4, <2>1, CallStages DEF ReadInv, RowsRead, Refused
<1> QED BY <1>1, <1>3, <1>4 DEF WantsLock

(* What keeps the audit table keeps its invariant.                         *)
LEMMA SameChanges ==
    ASSUME StoreInv, changes' = changes
    PROVE  /\ changes' \in Seq(Changes)
           /\ Len(changes) <= Len(changes')
           /\ \A i \in 1..Len(changes) : changes'[i] = changes[i]
BY DEF StoreInv

LEMMA RefuseInv ==
    ASSUME StoreInv, NEW c \in Callers, Refuse(c)
    PROVE  StoreInv'
<1>1. call[c] # Idle /\ rows' = rows /\ changes' = changes
    BY Stages DEF Refuse
<1>2. IsTable(rows')
    BY <1>1 DEF StoreInv
<1>3. Reply(c, "error", Empty, <<>>, FALSE)
    BY DEF Refuse
<1> QED BY <1>1, <1>2, <1>3, SameChanges, ReplyInv

LEMMA GetInv ==
    ASSUME StoreInv, NEW c \in Callers, Get(c)
    PROVE  StoreInv'
<1> DEFINE found == FlagsIn(Without(rows, Names \ {call[c].request.name}))
<1>1. /\ call[c] # Idle
      /\ rows' = rows /\ changes' = changes
      /\ Reply(c, "flags", found, <<>>, FALSE)
    BY Holder DEF Get, Runs
<1>2. IsTable(rows')
    BY <1>1 DEF StoreInv
<1>3. PICK f : f = found
    OBVIOUS
<1>4. Reply(c, "flags", f, <<>>, FALSE)
    BY <1>1, <1>3
<1> QED BY <1>1, <1>2, <1>4, SameChanges, ReplyInv

LEMMA SetInv ==
    ASSUME StoreInv, NEW c \in Callers, Set(c)
    PROVE  StoreInv'
<1>1. /\ call[c] # Idle
      /\ HasLock(c)
      /\ changes' = changes
      /\ Reply(c, "ok", Empty, <<>>, FALSE)
    BY Holder DEF Set, Runs
<1>2. IsTable(rows')
    <2>1. /\ call[c].request.name \in Names
          /\ call[c].request.flag \in Flags
        BY Holder, RequestTypes DEF Set, Runs
    <2>2. RowOf(call[c].request.flag) \in Rows
        BY <2>1 DEF RowOf, Rows, Flags
    <2> QED BY <2>1, <2>2 DEF Set, Stored, StoreInv, IsTable
<1> QED BY <1>1, <1>2, SameChanges, ReplyInv

LEMMA DeleteInv ==
    ASSUME StoreInv, NEW c \in Callers, Delete(c)
    PROVE  StoreInv'
<1>1. PICK result : result = IF call[c].request.name \in DOMAIN rows
                             THEN "existed" ELSE "absent"
    OBVIOUS
<1>2. /\ call[c] # Idle
      /\ HasLock(c)
      /\ changes' = changes
      /\ Reply(c, result, Empty, <<>>, FALSE)
      /\ result # "changes"
    BY <1>1, Holder DEF Delete, Runs
<1>3. IsTable(rows')
    BY DEF Delete, Without, StoreInv, IsTable
<1> QED BY <1>2, <1>3, SameChanges, ReplyInv

LEMMA ReadRowInv ==
    ASSUME StoreInv, NEW c \in Callers, ReadRow(c)
    PROVE  StoreInv'
<1>1. /\ HasLock(c)
      /\ call[c].request.op = "list"
      /\ rows' = rows /\ changes' = changes /\ queue' = queue
    BY DEF ReadRow, Runs
<1>2. PICK n \in DOMAIN rows \ DOMAIN RowsRead(c) :
          call' = [call EXCEPT ![c] = Reading(call[c].request, call[c].known,
                                              Stored(RowsRead(c), n, rows[n]))]
    BY DEF ReadRow
<1>3. /\ call'[c] = Reading(call[c].request, call[c].known,
                            Stored(RowsRead(c), n, rows[n]))
      /\ \A d \in Callers : d # c => call'[d] = call[d]
      /\ DOMAIN call' = Callers
    BY <1>2 DEF StoreInv
<1>4. QueueInv'
    <2>1. WantsLock(c)' /\ WantsLock(c)
        BY <1>1, <1>3, OneHolder, Stages DEF WantsLock, StoreInv
    <2>2. {d \in Callers : WantsLock(d)'} = {d \in Callers : WantsLock(d)}
        BY <1>3, <2>1 DEF WantsLock
    <2> QED BY <1>1, <2>2 DEF StoreInv, QueueInv
<1>5. ASSUME NEW d \in Callers, d # c
      PROVE  CallInv(d)'
    <2>1. call[d].stage # "reading"
        BY <1>1, <1>5, CallStages, OneHolder DEF StoreInv, ReadInv
    <2> QED BY <1>1, <1>3, <1>5, <2>1, SameChanges, CallUnchanged DEF StoreInv
<1>6. CallInv(c)'
    <2>1. /\ call[c].request \in Requests
          /\ KnownInv(c)
          /\ DOMAIN RowsRead(c) \subseteq DOMAIN rows
          /\ \A x \in DOMAIN RowsRead(c) : RowsRead(c)[x] = rows[x]
        BY <1>1, Holder
    <2>2. /\ call'[c].read = Stored(RowsRead(c), n, rows[n])
          /\ call'[c].request = call[c].request
          /\ call'[c].known = call[c].known
        BY <1>3, Stages
    <2>3. ReadInv(c)'
        <3>1. /\ DOMAIN call'[c].read \subseteq DOMAIN rows
              /\ \A x \in DOMAIN call'[c].read : call'[c].read[x] = rows[x]
            BY <2>1, <2>2 DEF Stored
        <3> QED BY <1>1, <2>2, <3>1 DEF ReadInv, HasLock
    <2> QED BY <1>1, <1>3, <2>1, <2>2, <2>3, Stages DEF CallInv, KnownInv
<1> QED BY <1>1, <1>3, <1>4, <1>5, <1>6 DEF StoreInv

LEMMA FinishListInv ==
    ASSUME StoreInv, NEW c \in Callers, FinishList(c)
    PROVE  StoreInv'
<1>1. PICK f : f = FlagsIn(RowsRead(c))
    OBVIOUS
<1>2. /\ call[c] # Idle
      /\ rows' = rows /\ changes' = changes
      /\ Reply(c, "flags", f, <<>>, FALSE)
    BY <1>1, Holder DEF FinishList, Runs
<1>3. IsTable(rows')
    BY <1>2 DEF StoreInv
<1> QED BY <1>2, <1>3, SameChanges, ReplyInv

LEMMA RecordChangeInv ==
    ASSUME StoreInv, NEW c \in Callers, RecordChange(c)
    PROVE  StoreInv'
<1>1. /\ call[c] # Idle
      /\ rows' = rows
      /\ Reply(c, "ok", Empty, <<>>, FALSE)
    BY Holder DEF RecordChange, Runs
<1>2. [name |-> call[c].request.name, when |-> call[c].request.when] \in Changes
    BY Holder, RequestTypes DEF RecordChange, Runs, Changes
<1>3. /\ changes' \in Seq(Changes)
      /\ Len(changes) <= Len(changes')
      /\ \A i \in 1..Len(changes) : changes'[i] = changes[i]
    BY <1>2 DEF RecordChange, StoreInv
<1>4. IsTable(rows')
    BY <1>1 DEF StoreInv
<1> QED BY <1>1, <1>3, <1>4, ReplyInv

(* An injection between finite sets of the same size misses nothing, so a  *)
(* sequence of ByTime has every record of the flag.                        *)
LEMMA ByTimeIsHistory ==
    ASSUME changes \in Seq(Changes), NEW n, NEW s \in ByTime(n),
           NEW k \in 0..Len(changes)
    PROVE  IsHistory(s, n, k)
<1> DEFINE size == Cardinality(IdsOf(n))
<1>1. /\ s \in [1..size -> IdsOf(n)]
      /\ IsInjective(s)
      /\ \A i, j \in DOMAIN s : i < j => changes[s[i]].when >= changes[s[j]].when
    BY DEF ByTime
<1>2. Len(changes) \in Nat /\ DOMAIN changes = 1..Len(changes)
    OBVIOUS
<1>3. IsFiniteSet(IdsOf(n)) /\ size \in Nat
    <2>1. IdsOf(n) \in SUBSET (1..Len(changes))
        BY <1>2 DEF IdsOf
    <2>2. IsFiniteSet(1..Len(changes))
        BY <1>2, FS_Interval
    <2> QED BY <2>1, <2>2, FS_Subset, FS_CardinalityType
<1>4. IsFiniteSet(1..size) /\ Cardinality(1..size) = size
    BY <1>3, FS_Interval
<1>5. Range(s) = IdsOf(n)
    <2>1. s \in Injection(1..size, IdsOf(n))
        BY <1>1 DEF Injection, IsInjective
    <2>2. s \in Surjection(1..size, IdsOf(n))
        BY <1>3, <1>4, <2>1, FS_Injection
    <2> HIDE DEF size
    <2> QED BY <1>1, <2>2 DEF Surjection, Range
<1>6. \A i \in DOMAIN s : s[i] \in DOMAIN changes /\ changes[s[i]].name = n
    BY <1>1 DEF IdsOf
<1>7. \A i \in 1..k : changes[i].name = n => i \in Range(s)
    BY <1>2, <1>5 DEF IdsOf
<1> QED BY <1>1, <1>6, <1>7 DEF IsHistory

LEMMA ListChangesInv ==
    ASSUME StoreInv, NEW c \in Callers, ListChanges(c)
    PROVE  StoreInv'
<1> DEFINE n == call[c].request.name
           k == call[c].known
<1>1. PICK s \in ByTime(n) : Reply(c, "changes", Empty, s, FALSE)
    BY DEF ListChanges
<1>2. /\ call[c] # Idle
      /\ rows' = rows /\ changes' = changes
      /\ KnownInv(c)
    BY Holder DEF ListChanges, Runs
<1>3. IsTable(rows')
    BY <1>2 DEF StoreInv
<1>4. IsHistory(s, n, k)
    BY <1>2, ByTimeIsHistory DEF StoreInv, KnownInv
<1> QED BY <1>1, <1>2, <1>3, <1>4, SameChanges, ReplyInv

LEMMA FailInv ==
    ASSUME StoreInv, NEW c \in Callers, Fail(c)
    PROVE  StoreInv'
<1>1. PICK result : result = FailedResult(call[c].request.op)
    OBVIOUS
<1>2. PICK f : f = FlagsIn(RowsRead(c))
    OBVIOUS
<1>3. /\ call[c] # Idle
      /\ rows' = rows /\ changes' = changes
      /\ Reply(c, result, f, <<>>, TRUE)
      /\ result # "changes"
    BY <1>1, <1>2, Holder DEF Fail, FailedResult
<1>4. IsTable(rows')
    BY <1>3 DEF StoreInv
<1> QED BY <1>3, <1>4, SameChanges, ReplyInv

LEMMA CancelInv ==
    ASSUME StoreInv, NEW c \in Callers, Cancel(c)
    PROVE  StoreInv'
<1>1. /\ call'[c] = Idle
      /\ \A d \in Callers : d # c => call'[d] = call[d]
      /\ DOMAIN call' = Callers
      /\ queue' = LeftQueue(c)
      /\ rows' = rows /\ changes' = changes
    BY DEF Cancel, StoreInv
<1>2. /\ QueueInv'
      /\ \A d \in Callers : d # c => (HasLock(d) => HasLock(d)')
    <2>1. QueueInv /\ call'[c].stage \in {"idle", "answered"}
        BY <1>1, Stages DEF StoreInv
    <2> QED BY <1>1, <2>1, LeaveQueue
<1>3. ASSUME NEW d \in Callers, d # c
      PROVE  CallInv(d)'
    <2>1. ASSUME call[d].stage = "reading"
          PROVE  HasLock(d)'
        BY <1>2, <1>3, <2>1, CallStages DEF StoreInv, ReadInv
    <2> QED BY <1>1, <1>3, <2>1, SameChanges, CallUnchanged DEF StoreInv
<1>4. CallInv(c)'
    BY <1>1 DEF CallInv
<1> QED BY <1>1, <1>2, <1>3, <1>4 DEF StoreInv

LEMMA CollectInv ==
    ASSUME StoreInv, NEW c \in Callers, Collect(c)
    PROVE  StoreInv'
<1>1. /\ call[c].stage = "answered"
      /\ call'[c] = Idle
      /\ \A d \in Callers : d # c => call'[d] = call[d]
      /\ DOMAIN call' = Callers
      /\ queue' = queue /\ rows' = rows /\ changes' = changes
    BY DEF Collect, StoreInv
<1>2. QueueInv'
    <2>1. ~WantsLock(c)' /\ ~WantsLock(c)
        BY <1>1, Stages DEF WantsLock
    <2>2. {d \in Callers : WantsLock(d)'} = {d \in Callers : WantsLock(d)}
        BY <1>1, <2>1 DEF WantsLock
    <2> QED BY <1>1, <2>2 DEF StoreInv, QueueInv
<1>3. ASSUME NEW d \in Callers, d # c
      PROVE  CallInv(d)'
    <2>1. ASSUME call[d].stage = "reading"
          PROVE  HasLock(d)'
        BY <1>1, <2>1, CallStages DEF StoreInv, ReadInv, HasLock
    <2> QED BY <1>1, <1>3, <2>1, SameChanges, CallUnchanged DEF StoreInv
<1>4. CallInv(c)'
    BY <1>1 DEF CallInv
<1> QED BY <1>1, <1>2, <1>3, <1>4 DEF StoreInv

LEMMA CrashInv ==
    ASSUME StoreInv, Crash
    PROVE  StoreInv'
<1>1. /\ \A c \in Callers : call'[c] = Idle
      /\ DOMAIN call' = Callers
      /\ queue' = <<>>
      /\ rows' = rows /\ changes' = changes
    BY DEF Crash
<1>2. QueueInv'
    <2>1. \A c \in Callers : ~WantsLock(c)'
        BY <1>1, Stages DEF WantsLock
    <2>2. Range(queue') = {} /\ IsInjective(queue') /\ queue' \in Seq(Callers)
        BY <1>1 DEF Range, IsInjective
    <2> QED BY <2>1, <2>2 DEF QueueInv
<1>3. \A c \in Callers : CallInv(c)'
    BY <1>1 DEF CallInv
<1> QED BY <1>1, <1>2, <1>3 DEF StoreInv

LEMMA StepInv == StoreInv /\ [Next]_vars => StoreInv'
<1> SUFFICES ASSUME StoreInv, [Next]_vars
             PROVE  StoreInv'
    OBVIOUS
<1>1. ASSUME NEW c \in Callers, NEW r \in Requests, Ask(c, r)
      PROVE  StoreInv'
    BY <1>1, AskInv
<1>2. ASSUME NEW c \in Callers, Run(c)
      PROVE  StoreInv'
    BY <1>2, RefuseInv, GetInv, SetInv, DeleteInv, ReadRowInv, FinishListInv,
       RecordChangeInv, ListChangesInv, FailInv DEF Run
<1>3. ASSUME NEW c \in Callers, Cancel(c) \/ Collect(c)
      PROVE  StoreInv'
    BY <1>3, CancelInv, CollectInv
<1>4. CASE Crash
    BY <1>4, CrashInv
<1>5. CASE UNCHANGED vars
    <2>1. QueueInv'
        BY <1>5 DEF vars, StoreInv, QueueInv, WantsLock
    <2>2. ASSUME NEW c \in Callers
          PROVE  CallInv(c)'
        <3>1. call[c].stage = "reading" => HasLock(c)'
            BY <1>5, CallStages DEF vars, StoreInv, ReadInv, HasLock
        <3> QED BY <1>5, <3>1, SameChanges, CallUnchanged DEF vars, StoreInv
    <2> QED BY <1>5, <2>1, <2>2 DEF vars, StoreInv
<1> QED BY <1>1, <1>2, <1>3, <1>4, <1>5 DEF Next

LEMMA StoreInvariant == Spec => []StoreInv
BY InitInv, StepInv, PTL DEF Spec

-----------------------------------------------------------------------------
(* Tables and calls stay well typed, and the mutex has exactly the callers *)
(* that want it in its queue, each once, whatever fails, is dropped or is  *)
(* lost in a crash (SqliteFlagStore).                                      *)
THEOREM SqliteStoreTypes == Spec => []TypeOK
<1>1. StoreInv => TypeOK
    <2> SUFFICES ASSUME StoreInv
                 PROVE  TypeOK
        OBVIOUS
    <2>1. ASSUME NEW c \in Callers
          PROVE  /\ call[c] # Idle => call[c].request \in Requests
                 /\ call[c].stage = "reading" =>
                       /\ call[c].request.op = "list"
                       /\ c = Head(queue)
        BY CallStages DEF StoreInv, ReadInv, HasLock
    <2> QED BY <2>1 DEF StoreInv, QueueInv, Changes, TypeOK
<1> QED BY <1>1, StoreInvariant, PTL

(* An audit is never taken for shorter than it is: what list_changes gives *)
(* has each record of the flag written before the call once, none of       *)
(* another flag, newest first.                                             *)
THEOREM AuditIsWhole == Spec => []AuditAllOrError
<1>1. StoreInv => AuditAllOrError
    <2> SUFFICES ASSUME StoreInv, NEW c \in Callers,
                        call[c].stage = "answered", call[c].result = "changes"
                 PROVE  IsHistory(call[c].ids, call[c].request.name, call[c].known)
        BY DEF AuditAllOrError, IsHistory
    <2> QED BY CallStages DEF StoreInv, AuditInv
<1> QED BY <1>1, StoreInvariant, PTL

-----------------------------------------------------------------------------
(* The refinement of FlagStore.  A row counts as a flag of the store where *)
(* get would give it back.                                                 *)
LEMMA ContentShape ==
    ASSUME IsTable(rows)
    PROVE  /\ DOMAIN Content = DOMAIN rows
           /\ DOMAIN rows \subseteq Names
           /\ \A n \in DOMAIN rows :
                 /\ IsReadable(n, rows[n]) =>
                       /\ Content[n] = FlagOf(rows[n])
                       /\ Content[n] \in Flags
                       /\ Content[n] # Unreadable
                 /\ ~IsReadable(n, rows[n]) => Content[n] = Unreadable
<1> SUFFICES ASSUME NEW n \in DOMAIN rows, IsReadable(n, rows[n])
             PROVE  FlagOf(rows[n]) \in Flags
    BY UnreadableAssumption DEF Content, IsTable
<1>1. rows[n] \in Rows
    BY DEF IsTable
<1>2. (rows[n].enabled # 0) \in BOOLEAN /\ rows[n].percentage \in 0..255
    BY <1>1 DEF Rows, IsReadable
<1> QED BY <1>2 DEF FlagOf, Flags

(* What get and list make of some of the rows are the readable flags among *)
(* those names.                                                            *)
LEMMA FlagsAmong ==
    ASSUME IsTable(rows), NEW m, NEW S,
           DOMAIN m = DOMAIN rows \cap S,
           \A n \in DOMAIN m : m[n] = rows[n]
    PROVE  FlagsIn(m) = Store!Among(Content, S)
<1> DEFINE D == {n \in DOMAIN rows \cap S : IsReadable(n, rows[n])}
<1>1. FlagsIn(m) = [n \in D |-> FlagOf(rows[n])]
    <2>1. {x \in DOMAIN m : IsReadable(x, m[x])} = D
        OBVIOUS
    <2> HIDE DEF D
    <2>2. \A n \in D : m[n] = rows[n]
        BY <2>1
    <2> QED BY <2>1, <2>2 DEF FlagsIn
<1>2. Store!Among(Content, S) = [n \in D |-> Content[n]]
    <2> DEFINE R == DOMAIN Content \ {n \in DOMAIN Content : Content[n] = Unreadable}
    <2>1. R \ (Names \ S) = D
        BY ContentShape
    <2>2. Store!Readable(Content) = [n \in R |-> Content[n]]
        BY DEF Store!Readable, Store!Without
    <2> HIDE DEF R, D
    <2>3. Store!Among(Content, S) = [n \in R \ (Names \ S) |-> Store!Readable(Content)[n]]
        BY <2>2 DEF Store!Among, Store!Without
    <2> QED BY <2>1, <2>2, <2>3
<1>3. \A n \in D : Content[n] = FlagOf(rows[n])
    BY ContentShape
<1> HIDE DEF D
<1> QED BY <1>1, <1>2, <1>3

LEMMA AllFlags ==
    ASSUME IsTable(rows), NEW m,
           DOMAIN m = DOMAIN rows, \A n \in DOMAIN m : m[n] = rows[n]
    PROVE  FlagsIn(m) = Store!Readable(Content)
<1>1. FlagsIn(m) = Store!Among(Content, Names)
    BY FlagsAmong DEF IsTable
<1>2. DOMAIN Store!Readable(Content) \ (Names \ Names) = DOMAIN Store!Readable(Content)
    OBVIOUS
<1>3. Store!Readable(Content) = [n \in DOMAIN Store!Readable(Content) |->
                                    Store!Readable(Content)[n]]
    BY DEF Store!Readable, Store!Without
<1> QED BY <1>1, <1>2, <1>3 DEF Store!Among, Store!Without

(* The abstract calls.                                                     *)
LEMMA PendingShape ==
    /\ DOMAIN Pending = Callers
    /\ \A c \in Callers : Pending[c] = Abstraction(call[c])
BY DEF Pending

LEMMA PendingStep ==
    ASSUME NEW c \in Callers, \A d \in Callers : d # c => call'[d] = call[d]
    PROVE  Pending' = [Pending EXCEPT ![c] = Abstraction(call'[c])]
<1>1. \A d \in Callers : d # c => Abstraction(call'[d]) = Abstraction(call[d])
    OBVIOUS
<1>2. Pending' = [d \in Callers |-> Abstraction(call'[d])]
    BY DEF Pending, Abstraction
<1> QED BY <1>1, <1>2 DEF Pending

LEMMA PendingAsked ==
    ASSUME StoreInv, NEW c \in Callers, call[c].stage \in {"asked", "reading"},
           ~IsAudit(call[c].request)
    PROVE  Pending[c].stage = "asked" /\ Pending[c].request = call[c].request
<1>1. call[c] # Idle
    BY Stages
<1> QED BY <1>1, PendingShape DEF Abstraction

LEMMA PendingReply ==
    ASSUME StoreInv, NEW c \in Callers, call[c].stage \in {"asked", "reading"},
           ~IsAudit(call[c].request),
           NEW result, NEW found, NEW ids, NEW fault,
           Reply(c, result, found, ids, fault)
    PROVE  Store!Reply(c, result, found, fault)
<1>1. /\ call'[c] = Answered(call[c].request, call[c].known,
                             result, found, ids, fault)
      /\ \A d \in Callers : d # c => call'[d] = call[d]
    BY DEF Reply, StoreInv
<1>2. Abstraction(call'[c])
          = Store!Answered(Pending[c].request, result, found, fault)
    BY <1>1, PendingAsked, Stages DEF Abstraction, Store!Answered, Idle, Answered
<1> QED BY <1>1, <1>2, PendingStep DEF Store!Reply

(* The audit is no part of FlagStore.                                      *)
LEMMA AuditStutters ==
    ASSUME StoreInv, NEW c \in Callers, call[c] # Idle, IsAudit(call[c].request),
           NEW result, NEW found, NEW ids, NEW fault,
           Reply(c, result, found, ids, fault)
    PROVE  Pending' = Pending
<1>1. /\ call'[c] = Answered(call[c].request, call[c].known,
                             result, found, ids, fault)
      /\ \A d \in Callers : d # c => call'[d] = call[d]
    BY DEF Reply, StoreInv
<1>2. Abstraction(call'[c]) = Abstraction(call[c])
    BY <1>1, Stages DEF Abstraction
<1>3. Pending' = [Pending EXCEPT ![c] = Pending[c]]
    BY <1>1, <1>2, PendingStep, PendingShape
<1> QED BY <1>3 DEF Pending

LEMMA InitRefines == Init => Store!Init
<1> SUFFICES ASSUME Init
             PROVE  Store!Init
    OBVIOUS
<1>1. IsTable(rows)
    BY FoundRowsAssumption DEF Init
<1>2. /\ DOMAIN Content \subseteq Names
      /\ \A n \in DOMAIN Content : Content[n] \in Flags \cup {Unreadable}
    BY <1>1, ContentShape
<1>3. Pending = [c \in Callers |-> Store!Idle]
    BY DEF Init, Pending, Abstraction, Idle, Store!Idle
<1> QED BY <1>2, <1>3 DEF Store!Init, Flags, Store!Flags

LEMMA AskRefines ==
    ASSUME StoreInv, NEW c \in Callers, NEW r \in Requests, Ask(c, r)
    PROVE  [Store!Next]_<<Content, Pending>>
<1>1. /\ call[c] = Idle
      /\ call'[c] = Asked(r, Known(r))
      /\ \A d \in Callers : d # c => call'[d] = call[d]
      /\ rows' = rows
    BY DEF Ask, StoreInv
<1>2. Content' = Content
    BY <1>1 DEF Content
<1>3. Pending[c] = Store!Idle
    BY <1>1, PendingShape DEF Abstraction, Store!Idle
<1>4. CASE IsAudit(r)
    <2>1. Abstraction(call'[c]) = Pending[c]
        BY <1>1, <1>3, <1>4, Stages DEF Abstraction, Store!Idle
    <2>2. Pending' = [Pending EXCEPT ![c] = Pending[c]]
        BY <1>1, <2>1, PendingStep
    <2> QED BY <1>2, <2>2 DEF Pending
<1>5. CASE ~IsAudit(r)
    <2>1. Abstraction(call'[c]) = Store!Asked(r)
        BY <1>1, <1>5, Stages DEF Abstraction, Store!Asked
    <2>2. Store!Ask(c, r)
        BY <1>1, <1>2, <1>3, <2>1, PendingStep DEF Store!Ask
    <2> QED BY <1>5, <2>2 DEF Store!Next
<1> QED BY <1>4, <1>5

LEMMA AnswerRefines ==
    ASSUME StoreInv, NEW c \in Callers, Refuse(c) \/ Get(c) \/ Set(c) \/ Delete(c)
    PROVE  Store!Answer(c)
<1> DEFINE r == call[c].request
<1>1. r.op \in {"get", "set", "delete"} /\ call[c].stage \in {"asked", "reading"}
    BY Holder DEF Refuse, Refused, Get, Set, Delete, Runs
<1>2. ~IsAudit(r)
    BY <1>1 DEF IsAudit
<1>3. Pending[c].stage = "asked" /\ Pending[c].request = r
    BY <1>1, <1>2, PendingAsked
<1>4. IsTable(rows) /\ DOMAIN Content = DOMAIN rows
    BY ContentShape DEF StoreInv
<1>5. call[c] # Idle /\ r \in Requests
    BY <1>1, Stages, CallStages DEF StoreInv
<1>6. r.name \in Names
    BY <1>1, <1>5, RequestTypes
<1>7. CASE Refuse(c)
    <2>1. Store!Reply(c, "error", Empty, FALSE)
        BY <1>1, <1>2, <1>7, PendingReply DEF Refuse
    <2>2. r.op = "set" /\ r.flag.percentage > 100 /\ Content' = Content
        BY <1>7 DEF Refuse, Refused, Content
    <2> QED BY <1>3, <2>1, <2>2 DEF Store!Answer, Store!Empty, Empty
<1>8. CASE Get(c)
    <2> DEFINE m == Without(rows, Names \ {r.name})
    <2>1. DOMAIN m = DOMAIN rows \cap {r.name} /\ \A n \in DOMAIN m : m[n] = rows[n]
        BY <1>4 DEF Without, IsTable
    <2>2. PICK found : found = FlagsIn(m)
        OBVIOUS
    <2>3. Reply(c, "flags", found, <<>>, FALSE) /\ r.op = "get" /\ Content' = Content
        BY <1>8, <2>2 DEF Get, Runs, Content
    <2>4. Store!Reply(c, "flags", found, FALSE)
        BY <1>1, <1>2, <2>3, PendingReply
    <2>5. found = Store!Among(Content, {r.name})
        <3> HIDE DEF m
        <3> QED BY <1>4, <2>1, <2>2, FlagsAmong
    <2> QED BY <1>3, <2>3, <2>4, <2>5 DEF Store!Answer
<1>9. CASE Set(c)
    <2>1. /\ Reply(c, "ok", Empty, <<>>, FALSE)
          /\ r.op = "set"
          /\ rows' = Stored(rows, r.name, RowOf(r.flag))
          /\ HasLock(c)
        BY <1>9 DEF Set, Runs
    <2>2. r.flag \in Flags /\ ~(r.flag.percentage > 100)
        BY <1>5, <2>1, RequestTypes, Holder DEF Refused
    <2>3. /\ r.flag.percentage <= 100
          /\ r.flag.percentage \in 0..100
        BY <2>2 DEF Flags
    <2>4. /\ IsReadable(r.name, RowOf(r.flag)) <=> r.name \in Checked
          /\ FlagOf(RowOf(r.flag)) = r.flag
        <3>1. FlagOf(RowOf(r.flag)) = [enabled |-> r.flag.enabled,
                                       percentage |-> r.flag.percentage]
            BY <2>2 DEF FlagOf, RowOf, Flags
        <3>2. r.flag = [enabled |-> r.flag.enabled, percentage |-> r.flag.percentage]
            BY <2>2 DEF Flags
        <3> QED BY <2>3, <3>1, <3>2 DEF IsReadable, RowOf
    <2>5. Content' = Store!Stored(Content, r.name, Store!Kept(r.name, r.flag))
        <3> DEFINE v == IF r.name \in Checked THEN r.flag ELSE Unreadable
                   D == DOMAIN rows \cup {r.name}
        <3>1. /\ DOMAIN rows' = D
              /\ rows'[r.name] = RowOf(r.flag)
              /\ \A n \in DOMAIN rows : n # r.name => rows'[n] = rows[n]
            BY <2>1 DEF Stored
        <3>2. Content' = [n \in D |-> IF IsReadable(n, rows'[n])
                                      THEN FlagOf(rows'[n]) ELSE Unreadable]
            BY <3>1 DEF Content
        <3>3. \A n \in D :
                  (IF IsReadable(n, rows'[n]) THEN FlagOf(rows'[n]) ELSE Unreadable)
                      = (IF n = r.name THEN v ELSE Content[n])
            <4> TAKE n \in D
            <4>1. CASE n = r.name
                BY <2>4, <3>1, <4>1
            <4>2. CASE n # r.name
                BY <3>1, <4>2 DEF Content
            <4> QED BY <4>1, <4>2
        <3>4. Content' = [n \in D |-> IF n = r.name THEN v ELSE Content[n]]
            BY <3>2, <3>3
        <3>5. Store!Kept(r.name, r.flag) = v
            BY DEF Store!Kept
        <3> QED BY <1>4, <3>4, <3>5 DEF Store!Stored
    <2>6. Store!Reply(c, "ok", Empty, FALSE)
        BY <1>1, <1>2, <2>1, PendingReply
    <2> QED BY <1>3, <2>1, <2>3, <2>5, <2>6 DEF Store!Answer, Store!Empty, Empty
<1>10. CASE Delete(c)
    <2>1. PICK result : result = IF r.name \in DOMAIN rows THEN "existed" ELSE "absent"
        OBVIOUS
    <2>2. /\ Reply(c, result, Empty, <<>>, FALSE)
          /\ r.op = "delete"
          /\ rows' = Without(rows, {r.name})
        BY <1>10, <2>1 DEF Delete, Runs
    <2>3. Store!Reply(c, result, Empty, FALSE)
        BY <1>1, <1>2, <2>2, PendingReply
    <2>4. result = IF r.name \in DOMAIN Content THEN "existed" ELSE "absent"
        BY <1>4, <2>1
    <2>5. Content' = Store!Without(Content, {r.name})
        <3>1. /\ DOMAIN rows' = DOMAIN rows \ {r.name}
              /\ \A n \in DOMAIN rows \ {r.name} : rows'[n] = rows[n]
            BY <2>2 DEF Without
        <3>2. Content' = [n \in DOMAIN rows \ {r.name} |->
                              IF IsReadable(n, rows'[n])
                              THEN FlagOf(rows'[n]) ELSE Unreadable]
            BY <3>1 DEF Content
        <3>3. \A n \in DOMAIN rows \ {r.name} :
                  (IF IsReadable(n, rows'[n]) THEN FlagOf(rows'[n]) ELSE Unreadable)
                      = Content[n]
            BY <3>1 DEF Content
        <3> QED BY <1>4, <3>2, <3>3 DEF Store!Without
    <2> QED BY <1>3, <2>2, <2>3, <2>4, <2>5 DEF Store!Answer, Store!Empty, Empty
<1> QED BY <1>7, <1>8, <1>9, <1>10

(* The cursor moves unseen; the answer of list is the whole store at the   *)
(* instant it ends.                                                        *)
LEMMA ReadRowRefines ==
    ASSUME StoreInv, NEW c \in Callers, ReadRow(c)
    PROVE  Content' = Content /\ Pending' = Pending
<1>1. HasLock(c) /\ call[c].request.op = "list" /\ rows' = rows
    BY DEF ReadRow, Runs
<1>2. PICK n : call' = [call EXCEPT ![c] = Reading(call[c].request, call[c].known,
                                                   Stored(RowsRead(c), n, rows[n]))]
    BY DEF ReadRow
<1>3. /\ call'[c] = Reading(call[c].request, call[c].known,
                            Stored(RowsRead(c), n, rows[n]))
      /\ \A d \in Callers : d # c => call'[d] = call[d]
    BY <1>2 DEF StoreInv
<1>4. Abstraction(call'[c]) = Abstraction(call[c])
    BY <1>1, <1>3, Holder, Stages DEF Abstraction
<1>5. Pending' = [Pending EXCEPT ![c] = Pending[c]]
    BY <1>3, <1>4, PendingStep, PendingShape
<1> QED BY <1>1, <1>5 DEF Content, Pending

LEMMA FinishListRefines ==
    ASSUME StoreInv, NEW c \in Callers, FinishList(c)
    PROVE  Store!Answer(c)
<1> DEFINE r == call[c].request
<1>1. /\ HasLock(c) /\ r.op = "list" /\ rows' = rows
      /\ ~IsAudit(r)
      /\ call[c].stage \in {"asked", "reading"}
      /\ DOMAIN rows \subseteq DOMAIN RowsRead(c)
    BY Holder DEF FinishList, Runs, IsAudit
<1>2. PICK found : found = FlagsIn(RowsRead(c))
    OBVIOUS
<1>3. Reply(c, "flags", found, <<>>, FALSE)
    BY <1>2 DEF FinishList
<1>4. Store!Reply(c, "flags", found, FALSE)
    BY <1>1, <1>3, PendingReply
<1>5. found = Store!Readable(Content)
    <2>1. /\ DOMAIN RowsRead(c) = DOMAIN rows
          /\ \A n \in DOMAIN RowsRead(c) : RowsRead(c)[n] = rows[n]
        BY <1>1, Holder
    <2> QED BY <1>2, <2>1, AllFlags DEF StoreInv
<1>6. Pending[c].stage = "asked" /\ Pending[c].request = r
    BY <1>1, PendingAsked
<1> QED BY <1>1, <1>4, <1>5, <1>6 DEF Store!Answer, Content

LEMMA AuditRefines ==
    ASSUME StoreInv, NEW c \in Callers, RecordChange(c) \/ ListChanges(c)
    PROVE  Content' = Content /\ Pending' = Pending
<1>1. /\ call[c] # Idle
      /\ IsAudit(call[c].request)
      /\ rows' = rows
    BY Holder DEF RecordChange, ListChanges, Runs, IsAudit
<1>2. CASE RecordChange(c)
    BY <1>1, <1>2, AuditStutters DEF RecordChange, Content
<1>3. CASE ListChanges(c)
    <2>1. PICK s : Reply(c, "changes", Empty, s, FALSE)
        BY <1>3 DEF ListChanges
    <2> QED BY <1>1, <2>1, AuditStutters DEF Content
<1> QED BY <1>2, <1>3

(* A call that fails has no effect; a list then leaves flags out.          *)
LEMMA FailRefines ==
    ASSUME StoreInv, NEW c \in Callers, Fail(c)
    PROVE  Store!Fail(c) \/ (Content' = Content /\ Pending' = Pending)
<1> DEFINE r == call[c].request
<1>0. Content' = Content
    BY DEF Fail, Content
<1>1. /\ HasLock(c)
      /\ call[c] # Idle
      /\ call[c].stage \in {"asked", "reading"}
      /\ r \in Requests
      /\ r.op # "list" => RowsRead(c) = Empty
    BY Holder DEF Fail
<1>2. PICK result : result = FailedResult(r.op)
    OBVIOUS
<1>3. PICK found : found = FlagsIn(RowsRead(c))
    OBVIOUS
<1>4. Reply(c, result, found, <<>>, TRUE)
    BY <1>2, <1>3 DEF Fail
<1>5. CASE IsAudit(r)
    BY <1>0, <1>1, <1>4, <1>5, AuditStutters
<1>6. CASE ~IsAudit(r)
    <2>1. Pending[c].stage = "asked" /\ Pending[c].request = r
        BY <1>1, <1>6, PendingAsked
    <2>2. Store!Reply(c, result, found, TRUE)
        BY <1>1, <1>4, <1>6, PendingReply
    <2>3. r.op \in {"get", "set", "delete", "list"}
        BY <1>1, <1>6, RequestTypes DEF IsAudit
    <2>4. FlagsIn(Empty) = Store!Empty
        <3>1. DOMAIN Empty = {}
            BY DEF Empty
        <3>2. {x \in DOMAIN Empty : IsReadable(x, Empty[x])} = {}
            BY <3>1
        <3> QED BY <3>2 DEF FlagsIn, Store!Empty
    <2>5. CASE r.op \in {"set", "delete"}
        <3>1. result = "error" /\ found = Store!Empty
            BY <1>1, <1>2, <1>3, <2>4, <2>5 DEF FailedResult
        <3> QED BY <1>0, <2>1, <2>2, <2>5, <3>1 DEF Store!Fail
    <2>6. CASE r.op = "get"
        <3>1. result = "flags" /\ found = Store!Empty
            BY <1>1, <1>2, <1>3, <2>4, <2>6 DEF FailedResult
        <3> QED BY <1>0, <2>1, <2>2, <2>6, <3>1 DEF Store!Fail
    <2>7. CASE r.op = "list"
        <3>1. /\ DOMAIN RowsRead(c) \subseteq DOMAIN rows
              /\ \A n \in DOMAIN RowsRead(c) : RowsRead(c)[n] = rows[n]
              /\ IsTable(rows)
            BY <1>1, Holder DEF StoreInv
        <3>2. PICK S : S = DOMAIN RowsRead(c)
            OBVIOUS
        <3>3. DOMAIN RowsRead(c) = DOMAIN rows \cap S /\ S \in SUBSET Names
            BY <3>1, <3>2 DEF IsTable
        <3>4. found = Store!Among(Content, S)
            BY <1>3, <3>1, <3>3, FlagsAmong
        <3>5. result = "flags"
            BY <1>2, <2>7 DEF FailedResult
        <3> QED BY <1>0, <2>1, <2>2, <2>7, <3>3, <3>4, <3>5 DEF Store!Fail
    <2> QED BY <2>3, <2>5, <2>6, <2>7
<1> QED BY <1>5, <1>6

(* A call given up, lost or collected is forgotten.                        *)
LEMMA ForgetRefines ==
    ASSUME StoreInv, rows' = rows, NEW S \in SUBSET Callers,
           \A c \in Callers : call'[c] = IF c \in S THEN Idle ELSE call[c]
    PROVE  Store!Forget(S)
<1>1. Content' = Content
    BY DEF Content
<1>2. Pending' = [c \in Callers |-> Abstraction(call'[c])]
    BY DEF Pending, Abstraction
<1>3. \A c \in Callers :
          Abstraction(call'[c]) = IF c \in S THEN Store!Idle ELSE Pending[c]
    BY PendingShape DEF Abstraction, Store!Idle
<1>4. Pending' = [c \in Callers |-> IF c \in S THEN Store!Idle ELSE Pending[c]]
    BY <1>2, <1>3
<1> QED BY <1>1, <1>4 DEF Store!Forget

LEMMA StepRefines ==
    StoreInv /\ [Next]_vars => [Store!Next]_<<Content, Pending>>
<1> SUFFICES ASSUME StoreInv, [Next]_vars
             PROVE  [Store!Next]_<<Content, Pending>>
    OBVIOUS
<1>1. ASSUME NEW c \in Callers, NEW r \in Requests, Ask(c, r)
      PROVE  [Store!Next]_<<Content, Pending>>
    BY <1>1, AskRefines
<1>2. ASSUME NEW c \in Callers, Run(c)
      PROVE  [Store!Next]_<<Content, Pending>>
    <2>1. CASE Refuse(c) \/ Get(c) \/ Set(c) \/ Delete(c)
        BY <2>1, AnswerRefines DEF Store!Next
    <2>2. CASE ReadRow(c)
        BY <2>2, ReadRowRefines
    <2>3. CASE FinishList(c)
        BY <2>3, FinishListRefines DEF Store!Next
    <2>4. CASE RecordChange(c) \/ ListChanges(c)
        BY <2>4, AuditRefines
    <2>5. CASE Fail(c)
        BY <2>5, FailRefines DEF Store!Next
    <2> QED BY <1>2, <2>1, <2>2, <2>3, <2>4, <2>5 DEF Run
<1>3. ASSUME NEW c \in Callers, Cancel(c) \/ Collect(c)
      PROVE  [Store!Next]_<<Content, Pending>>
    <2>1. \A d \in Callers : call'[d] = IF d \in {c} THEN Idle ELSE call[d]
        BY <1>3 DEF Cancel, Collect, StoreInv
    <2>2. rows' = rows /\ {c} \in SUBSET Callers
        BY <1>3 DEF Cancel, Collect
    <2>3. Store!Forget({c})
        BY <2>1, <2>2, ForgetRefines
    <2> QED BY <2>2, <2>3 DEF Store!Next
<1>4. CASE Crash
    <2>1. Store!Forget(Callers)
        BY <1>4, ForgetRefines DEF Crash
    <2> QED BY <2>1 DEF Store!Next
<1>5. CASE UNCHANGED vars
    BY <1>5 DEF vars, Content, Pending, Abstraction
<1> QED BY <1>1, <1>2, <1>3, <1>4, <1>5 DEF Next

(* The store implements FlagStore: behind the mutex every get, set, list   *)
(* and delete takes effect at one instant or not at all, through failing   *)
(* statements, dropped calls and crashes, for any table it finds           *)
(* (SqliteFlagStore).                                                      *)
THEOREM SqliteRefinesFlagStore == Spec => ImplementsFlagStore
<1>1. Spec => []StoreInv
    BY StoreInvariant
<1>2. Init => Store!Init
    BY InitRefines
<1>3. StoreInv /\ [Next]_vars => [Store!Next]_<<Content, Pending>>
    BY StepRefines
<1> QED BY <1>1, <1>2, <1>3, PTL DEF Spec, ImplementsFlagStore, Store!Spec
=============================================================================
