---------------------------- MODULE SqliteStore ----------------------------
(***************************************************************************)
(* SqliteFlagStore (store.rs): the tables flags and flag_changes behind    *)
(* one connection, which an async mutex gives to one caller at a time, in  *)
(* the order in which they asked.  Waiting for it is the only await of a   *)
(* call: until then a call can be dropped, afterwards it runs to its end.  *)
(* Any statement can fail.  A crash loses the calls and keeps the file.    *)
(***************************************************************************)
EXTENDS StoreOps, Sequences, FiniteSets, Functions

CONSTANTS
    Callers,        \* tasks that share the store
    Checked,        \* the names FlagName::new accepts
    Unreadable,     \* a row that get and list do not give back
    Requests,       \* the calls that are made
    FoundRows,      \* what the table flags may hold when it is opened
    MaxChanges      \* bound: audit records

ASSUME CheckedAssumption == Checked \subseteq Names

ASSUME UnreadableAssumption == Unreadable \notin Flags

ASSUME MaxChangesAssumption == MaxChanges \in Nat

VARIABLES
    rows,       \* the table flags: a function from names to rows
    changes,    \* the table flag_changes, in the order of its ids
    queue,      \* the mutex: its holder, then those who wait
    call        \* the call of each caller

vars == <<rows, changes, queue, call>>

AllRequests ==
    [op : {"get", "delete", "changes"}, name : Names]
        \cup [op : {"set"}, name : Names, flag : Flags]
        \cup [op : {"list"}]
        \cup [op : {"record"}, name : Names, when : Int]

ASSUME RequestsAssumption == Requests \subseteq AllRequests

-----------------------------------------------------------------------------
(* The columns of a row, and what get and list make of them.               *)
Rows == [enabled : Int, percentage : Int]

IsTable(m) == DOMAIN m \subseteq Names /\ \A n \in DOMAIN m : m[n] \in Rows

ASSUME FoundRowsAssumption == \A m \in FoundRows : IsTable(m)

RowOf(f) ==
    [enabled |-> IF f.enabled THEN 1 ELSE 0, percentage |-> f.percentage]

FlagOf(row) == [enabled |-> row.enabled # 0, percentage |-> row.percentage]

IsReadable(n, row) == n \in Checked /\ row.percentage \in 0..100

(* The flags in the rows m.                                                *)
FlagsIn(m) ==
    [n \in {x \in DOMAIN m : IsReadable(x, m[x])} |-> FlagOf(m[n])]

(* A call.  known is history: for list_changes, the number of records      *)
(* written before it began.                                                *)
Idle == [stage |-> "idle"]

Asked(r, known) == [stage |-> "asked", request |-> r, known |-> known]

(* A list amid the rows, with those it has read.                           *)
Reading(r, known, m) ==
    [stage |-> "reading", request |-> r, known |-> known, read |-> m]

Answered(r, known, result, found, ids, fault) ==
    [stage |-> "answered", request |-> r, known |-> known, result |-> result,
     found |-> found, ids |-> ids, fault |-> fault]

IsAudit(r) == r.op \in {"record", "changes"}

(* set refuses a percentage above 100 before it asks for the connection.   *)
Refused(r) == r.op = "set" /\ r.flag.percentage > 100

WantsLock(c) ==
    \/ call[c].stage = "reading"
    \/ call[c].stage = "asked" /\ ~Refused(call[c].request)

TypeOK ==
    /\ IsTable(rows)
    /\ changes \in Seq([name : Names, when : Int])
    /\ Range(queue) = {c \in Callers : WantsLock(c)}
    /\ IsInjective(queue)
    /\ \A c \in Callers :
          /\ call[c] # Idle => call[c].request \in Requests
          /\ call[c].stage = "reading" =>
                /\ call[c].request.op = "list"
                /\ c = Head(queue)

-----------------------------------------------------------------------------
(* The mutex.  A faulty variant: not held while a statement runs.          *)
HasLockWhileWaiting(c) == c \in Range(queue)

(* A faulty variant: who came last goes first.                             *)
HasLockLast(c) == queue # <<>> /\ c = queue[Len(queue)]

HasLock(c) == queue # <<>> /\ c = Head(queue)

Place(c) == CHOOSE i \in DOMAIN queue : queue[i] = c

LeftQueue(c) ==
    IF c \in Range(queue)
    THEN [i \in 1..(Len(queue) - 1) |-> queue[IF i < Place(c) THEN i ELSE i + 1]]
    ELSE queue

Init ==
    /\ rows \in FoundRows
    /\ changes = <<>>
    /\ queue = <<>>
    /\ call = [c \in Callers |-> Idle]

Records == Cardinality({c \in Callers : /\ call[c].stage = "asked"
                                        /\ call[c].request.op = "record"})

Known(r) == IF r.op = "changes" THEN Len(changes) ELSE 0

Ask(c, r) ==
    /\ call[c] = Idle
    /\ r.op = "record" => Len(changes) + Records < MaxChanges
    /\ call' = [call EXCEPT ![c] = Asked(r, Known(r))]
    /\ queue' = IF Refused(r) THEN queue ELSE Append(queue, c)
    /\ UNCHANGED <<rows, changes>>

(* The answer to a call, which also lets the next caller have the mutex.   *)
Reply(c, result, found, ids, fault) ==
    /\ call' = [call EXCEPT ![c] = Answered(call[c].request, call[c].known,
                                            result, found, ids, fault)]
    /\ queue' = LeftQueue(c)

Refuse(c) ==
    /\ call[c].stage = "asked"
    /\ Refused(call[c].request)
    /\ Reply(c, "error", Empty, <<>>, FALSE)
    /\ UNCHANGED <<rows, changes>>

(* The caller at the head of the queue is about to run op.                 *)
Runs(c, op) == HasLock(c) /\ call[c].request.op = op

Get(c) ==
    /\ Runs(c, "get")
    /\ Reply(c, "flags",
             FlagsIn(Without(rows, Names \ {call[c].request.name})), <<>>, FALSE)
    /\ UNCHANGED <<rows, changes>>

Set(c) ==
    /\ Runs(c, "set")
    /\ rows' = Stored(rows, call[c].request.name, RowOf(call[c].request.flag))
    /\ Reply(c, "ok", Empty, <<>>, FALSE)
    /\ UNCHANGED changes

Delete(c) ==
    /\ Runs(c, "delete")
    /\ rows' = Without(rows, {call[c].request.name})
    /\ Reply(c, IF call[c].request.name \in DOMAIN rows
                THEN "existed" ELSE "absent", Empty, <<>>, FALSE)
    /\ UNCHANGED changes

(* list steps a cursor from row to row, in an order SQL leaves open.       *)
RowsRead(c) == IF call[c].stage = "reading" THEN call[c].read ELSE Empty

ReadRow(c) ==
    /\ Runs(c, "list")
    /\ \E n \in DOMAIN rows \ DOMAIN RowsRead(c) :
          call' = [call EXCEPT ![c] = Reading(call[c].request, call[c].known,
                                              Stored(RowsRead(c), n, rows[n]))]
    /\ UNCHANGED <<rows, changes, queue>>

FinishList(c) ==
    /\ Runs(c, "list")
    /\ DOMAIN rows \subseteq DOMAIN RowsRead(c)
    /\ Reply(c, "flags", FlagsIn(RowsRead(c)), <<>>, FALSE)
    /\ UNCHANGED <<rows, changes>>

RecordChange(c) ==
    /\ Runs(c, "record")
    /\ changes' = Append(changes, [name |-> call[c].request.name,
                                   when |-> call[c].request.when])
    /\ Reply(c, "ok", Empty, <<>>, FALSE)
    /\ UNCHANGED rows

(* The ids of the records of n by falling time; SQL leaves the order of    *)
(* equal times open.                                                       *)
IdsOf(n) == {i \in DOMAIN changes : changes[i].name = n}

(* A faulty variant: LIMIT 1.                                              *)
ByTimeFirstOnly(n) ==
    {<<i>> : i \in {j \in IdsOf(n) : \A k \in IdsOf(n) :
                        changes[j].when >= changes[k].when}}

ByTime(n) ==
    {s \in [1..Cardinality(IdsOf(n)) -> IdsOf(n)] :
        /\ IsInjective(s)
        /\ \A i, j \in DOMAIN s :
              i < j => changes[s[i]].when >= changes[s[j]].when}

ListChanges(c) ==
    /\ Runs(c, "changes")
    /\ \E s \in ByTime(call[c].request.name) :
          Reply(c, "changes", Empty, s, FALSE)
    /\ UNCHANGED <<rows, changes>>

(* A faulty variant: the audit swallows errors as get and list do.         *)
FailedResultSwallowed(op) ==
    IF op \in {"get", "list"} THEN "flags"
    ELSE IF op = "changes" THEN "changes" ELSE "error"

(* A statement or a row fails: get answers None, list what it has read,    *)
(* the others an error.                                                    *)
FailedResult(op) == IF op \in {"get", "list"} THEN "flags" ELSE "error"

Fail(c) ==
    /\ HasLock(c)
    /\ Reply(c, FailedResult(call[c].request.op), FlagsIn(RowsRead(c)), <<>>, TRUE)
    /\ UNCHANGED <<rows, changes>>

(* A faulty variant: the place in the queue is kept.                       *)
CancelKeepsPlace(c) ==
    /\ call[c].stage = "asked"
    /\ call' = [call EXCEPT ![c] = Idle]
    /\ UNCHANGED <<rows, changes, queue>>

(* The caller drops the future while it waits.                             *)
Cancel(c) ==
    /\ call[c].stage = "asked"
    /\ call' = [call EXCEPT ![c] = Idle]
    /\ queue' = LeftQueue(c)
    /\ UNCHANGED <<rows, changes>>

Collect(c) ==
    /\ call[c].stage = "answered"
    /\ call' = [call EXCEPT ![c] = Idle]
    /\ UNCHANGED <<rows, changes, queue>>

Crash ==
    /\ queue' = <<>>
    /\ call' = [c \in Callers |-> Idle]
    /\ UNCHANGED <<rows, changes>>

Run(c) ==
    \/ Refuse(c)
    \/ Get(c)
    \/ Set(c)
    \/ Delete(c)
    \/ ReadRow(c)
    \/ FinishList(c)
    \/ RecordChange(c)
    \/ ListChanges(c)
    \/ Fail(c)

Next ==
    \/ \E c \in Callers, r \in Requests : Ask(c, r)
    \/ \E c \in Callers : Run(c) \/ Cancel(c) \/ Collect(c)
    \/ Crash

Spec == Init /\ [][Next]_vars

(* Tasks that can run are polled.                                          *)
FairSpec == Spec /\ \A c \in Callers : WF_vars(Run(c))

-----------------------------------------------------------------------------
(* The store implements FlagStore: row by row, but behind the mutex, a     *)
(* list is one instant; a call given up or failed has no effect; what set  *)
(* reports stored is what get finds, and neither names nor percentages     *)
(* that get would not give back can hide among them.                       *)
Abstraction(state) ==
    IF state = Idle \/ IsAudit(state.request)
    THEN [stage |-> "idle"]
    ELSE IF state.stage = "answered"
    THEN [stage |-> "answered", request |-> state.request,
          result |-> state.result, found |-> state.found, fault |-> state.fault]
    ELSE [stage |-> "asked", request |-> state.request]

Content ==
    [n \in DOMAIN rows |->
        IF IsReadable(n, rows[n]) THEN FlagOf(rows[n]) ELSE Unreadable]

Pending == [c \in Callers |-> Abstraction(call[c])]

Store == INSTANCE FlagStore WITH
    Requests <- {r \in Requests : ~IsAudit(r)},
    content <- Content,
    pending <- Pending

ImplementsFlagStore == Store!Spec

(* A call is answered, given up or lost in a crash: a caller that drops    *)
(* its call, a refused set and a failed statement leave the mutex to the   *)
(* others.                                                                 *)
EveryCallEnds ==
    \A c \in Callers : WantsLock(c) ~> ~WantsLock(c)

(* The audit answers all or nothing: an answer has each record of the flag *)
(* written before the call began once, none of another flag, the times     *)
(* falling; an error is never taken for an empty history (list_changes).   *)
AuditAllOrError ==
    \A c \in Callers :
        (call[c].stage = "answered" /\ call[c].result = "changes") =>
            LET s == call[c].ids IN
            /\ IsInjective(s)
            /\ \A i \in DOMAIN s : changes[s[i]].name = call[c].request.name
            /\ \A i \in 1..call[c].known :
                  changes[i].name = call[c].request.name => i \in Range(s)
            /\ \A i, j \in DOMAIN s :
                  i < j => changes[s[i]].when >= changes[s[j]].when
=============================================================================
