----------------------------- MODULE FlagStore -----------------------------
(***************************************************************************)
(* What the trait FlagStore (store.rs) promises the callers that share one *)
(* store, without lock, rows or cursor: a call is asked, takes effect and  *)
(* is answered at one instant, and is collected.  It can be given up until *)
(* it is answered, and then has no effect.                                 *)
(*                                                                         *)
(* A database error has no effect either, but only set and delete report   *)
(* it: get then finds nothing and list leaves flags out.                   *)
(***************************************************************************)
EXTENDS StoreOps

CONSTANTS
    Callers,        \* tasks that use the store
    Checked,        \* the names FlagName::new accepts
    Unreadable,     \* what a store holds of a flag it cannot give back
    Requests        \* calls of get, list, set and delete

VARIABLES
    content,        \* the names in the store, each with a flag or Unreadable
    pending         \* the call of each caller

Idle == [stage |-> "idle"]

Asked(r) == [stage |-> "asked", request |-> r]

Answered(r, result, found, fault) ==
    [stage |-> "answered", request |-> r, result |-> result, found |-> found,
     fault |-> fault]

Readable(m) == Without(m, {n \in DOMAIN m : m[n] = Unreadable})

(* The readable flags of m among the names S.                              *)
Among(m, S) == Without(Readable(m), Names \ S)

Kept(n, f) == IF n \in Checked THEN f ELSE Unreadable

Init ==
    /\ DOMAIN content \subseteq Names
    /\ \A n \in DOMAIN content : content[n] \in Flags \cup {Unreadable}
    /\ pending = [c \in Callers |-> Idle]

Ask(c, r) ==
    /\ pending[c] = Idle
    /\ pending' = [pending EXCEPT ![c] = Asked(r)]
    /\ UNCHANGED content

Reply(c, result, found, fault) ==
    pending' = [pending EXCEPT
                  ![c] = Answered(pending[c].request, result, found, fault)]

Answer(c) ==
    /\ pending[c].stage = "asked"
    /\ LET r == pending[c].request IN
       \/ /\ r.op = "get"
          /\ Reply(c, "flags", Among(content, {r.name}), FALSE)
          /\ UNCHANGED content
       \/ /\ r.op = "list"
          /\ Reply(c, "flags", Readable(content), FALSE)
          /\ UNCHANGED content
       \/ /\ r.op = "set"
          /\ r.flag.percentage <= 100
          /\ Reply(c, "ok", Empty, FALSE)
          /\ content' = Stored(content, r.name, Kept(r.name, r.flag))
       \/ /\ r.op = "set"
          /\ r.flag.percentage > 100
          /\ Reply(c, "error", Empty, FALSE)
          /\ UNCHANGED content
       \/ /\ r.op = "delete"
          /\ Reply(c, IF r.name \in DOMAIN content THEN "existed" ELSE "absent",
                   Empty, FALSE)
          /\ content' = Without(content, {r.name})

Fail(c) ==
    /\ pending[c].stage = "asked"
    /\ LET r == pending[c].request IN
       \/ r.op \in {"set", "delete"} /\ Reply(c, "error", Empty, TRUE)
       \/ r.op = "get" /\ Reply(c, "flags", Empty, TRUE)
       \/ /\ r.op = "list"
          /\ \E S \in SUBSET Names : Reply(c, "flags", Among(content, S), TRUE)
    /\ UNCHANGED content

(* Answers are collected, calls given up, one by one or all in a crash.    *)
Forget(S) ==
    /\ pending' = [c \in Callers |-> IF c \in S THEN Idle ELSE pending[c]]
    /\ UNCHANGED content

Next ==
    \/ \E c \in Callers, r \in Requests : Ask(c, r)
    \/ \E c \in Callers : Answer(c) \/ Fail(c)
    \/ \E S \in SUBSET Callers : Forget(S)

Spec == Init /\ [][Next]_<<content, pending>>
=============================================================================
