------------------------------ MODULE OfrepOps ------------------------------
(***************************************************************************)
(* The wire types of ofrep.rs and what serde makes of them.  An object is  *)
(* a sequence of members where a name may occur twice (a context), and     *)
(* otherwise a function.                                                   *)
(***************************************************************************)
EXTENDS Integers, SequencesExt

CONSTANTS
    Subjects,       \* targeting keys; strings for JSON
    Names,          \* names that a caller gives to attributes
    Values,         \* JSON values other than strings and null
    Flags,          \* the flags that are asked for
    None, Null,     \* an Option that is None, and null in JSON
    Unreadable      \* what a reader makes of what it refuses

-----------------------------------------------------------------------------
(* Contexts.                                                               *)
Json == Subjects \cup Values

Contexts == [targeting_key : Subjects \cup {None},
             attributes : UNION {[S -> Json] :
                                 S \in {T \in SUBSET Names : IsFiniteSet(T)}}]

(* A faulty variant: the field keeps its name in Rust.                     *)
KeyFieldUnrenamed == "targeting_key"

KeyField == "targetingKey"

Members(field, c) ==
    LET names == SetToSeq(DOMAIN c.attributes)
    IN  (IF c.targeting_key = None THEN <<>> ELSE <<<<field, c.targeting_key>>>>)
        \o [i \in DOMAIN names |-> <<names[i], c.attributes[names[i]]>>]

ContextJson(c) == Members(KeyField, c)

(* The members that are read as the key, and what the others are swept     *)
(* into: the attributes.                                                   *)
KeyMembers(json) == {i \in DOMAIN json : json[i][1] = KeyField}

AttributesOf(json) ==
    LET rest == {json[i] : i \in DOMAIN json \ KeyMembers(json)}
    IN  [n \in {m[1] : m \in rest} |-> (CHOOSE m \in rest : m[1] = n)[2]]

(* A faulty variant: of two members of one name the last one counts.       *)
ContextOfLastMember(json) ==
    [targeting_key |-> IF KeyMembers(json) = {} THEN None
                       ELSE json[Max(KeyMembers(json))][2],
     attributes |-> AttributesOf(json)]

(* A member named like the field is the field, whoever wrote it, and must  *)
(* be a string and the only one.  The object is read from text, where      *)
(* duplicates are still there.                                             *)
ContextOf(json) ==
    IF \/ \E i, j \in KeyMembers(json) : i # j
       \/ \E i \in KeyMembers(json) : json[i][2] \notin Subjects
    THEN Unreadable
    ELSE [targeting_key |-> IF KeyMembers(json) = {} THEN None
                            ELSE json[CHOOSE i \in KeyMembers(json) : TRUE][2],
          attributes |-> AttributesOf(json)]

-----------------------------------------------------------------------------
(* Entries.                                                                *)
Reasons == {"STATIC", "TARGETING_MATCH", "SPLIT", "DISABLED", "UNKNOWN"}

ErrorCodes == {"PARSE_ERROR", "TARGETING_KEY_MISSING", "INVALID_CONTEXT",
               "GENERAL", "FLAG_NOT_FOUND"}

Successes == [key : Flags, value : {"true", "false", "CodeDefault"},
              reason : Reasons, variant : {"on", "off", None},
              metadata : {"metadata", Null, None}]

Failures == [key : Flags, errorCode : ErrorCodes, errorDetails : {"details", None}]

Entries == Successes \cup Failures

(* Which signs are told apart: None and null are none of the values, and   *)
(* what cannot be read is no context, no entry and no bulk of entries.     *)
ASSUME MarksAssumption ==
    /\ None \notin Subjects \cup Flags \cup Reasons \cup ErrorCodes \cup
            {Null, "true", "false", "CodeDefault", "on", "off", "metadata", "details"}
    /\ Null \notin {"true", "false", "CodeDefault", "on", "off", "metadata", "details"}
    /\ Unreadable \notin Contexts
    /\ Unreadable \notin Entries \cup Seq(Entries)

IsFailure(e) == "errorCode" \in DOMAIN e

On(k, r) == [key |-> k, value |-> "true", reason |-> r, variant |-> "on",
             metadata |-> None]
Off(k, r) == [On(k, r) EXCEPT !.value = "false", !.variant = "off"]
Failure(k, code) == [key |-> k, errorCode |-> code, errorDetails |-> None]

(* FlagNotFound: the members of a failure, told apart by the status alone. *)
FlagNotFound(k) == Failure(k, "FLAG_NOT_FOUND")

(* A faulty variant: a flag that does not exist is a failure of the client.*)
StatusForAnyClientError(code) == IF code = "GENERAL" THEN 500 ELSE 400

StatusFor(code) ==
    CASE code = "FLAG_NOT_FOUND" -> 404
      [] code = "GENERAL" -> 500
      [] OTHER -> 400

(* A faulty variant: every entry is written as its first variant.          *)
EntryJsonAsSuccess(e) ==
    [x \in {"key", "value", "reason"} |->
        CASE x = "key" -> e.key
          [] x = "value" -> IF IsFailure(e) THEN Null ELSE e.value
          [] x = "reason" -> IF IsFailure(e) THEN "UNKNOWN" ELSE e.reason]

(* A field that is None is not written; the code default is null.          *)
EntryJson(e) ==
    [x \in {y \in DOMAIN e : e[y] # None} |->
        IF x = "value" /\ e[x] = "CodeDefault" THEN Null ELSE e[x]]

(* A faulty variant: an absent field is read as null.                      *)
OptionalNull(json, x) == IF x \in DOMAIN json THEN json[x] ELSE Null

(* A field that is absent or null is None.                                 *)
Optional(json, x) ==
    IF x \in DOMAIN json /\ json[x] # Null THEN json[x] ELSE None

(* The variants of an untagged enum are tried in order.                    *)
EntryOf(json) ==
    CASE {"key", "value", "reason"} \subseteq DOMAIN json ->
           [key |-> json.key,
            value |-> IF json.value = Null THEN "CodeDefault" ELSE json.value,
            reason |-> json.reason,
            variant |-> Optional(json, "variant"),
            metadata |-> Optional(json, "metadata")]
      [] /\ ~({"value", "reason"} \subseteq DOMAIN json)
         /\ {"key", "errorCode"} \subseteq DOMAIN json ->
           [key |-> json.key,
            errorCode |-> json.errorCode,
            errorDetails |-> Optional(json, "errorDetails")]
      [] OTHER -> Unreadable

BulkJson(entries) == [i \in DOMAIN entries |-> EntryJson(entries[i])]

(* One entry that cannot be read makes the whole bulk unreadable.          *)
BulkOf(json) ==
    LET entries == [i \in DOMAIN json |-> EntryOf(json[i])]
    IN  IF Unreadable \in ToSet(entries) THEN Unreadable ELSE entries

NewContext(k) == [targeting_key |-> k, attributes |-> [n \in {} |-> Null]]

WithAttribute(c, n, v) ==
    [c EXCEPT !.attributes =
        [x \in DOMAIN @ \cup {n} |-> IF x = n THEN v ELSE @[x]]]
=============================================================================
