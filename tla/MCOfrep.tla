------------------------------- MODULE MCOfrep -------------------------------
(* One other attribute name and one named like the targeting key.  The     *)
(* flag sets are a name and a revision: "a" 3, "a" 4, "a3" 3, "a" 33,      *)
(* "a3" 4, "a" 43 and "a33" without one, so that names run into revisions. *)
EXTENDS Ofrep, Bitwise

CONSTANTS f1, f2

MCExclusiveOr(a, b) == a ^^ b

MCNames == {"plan", "targetingKey"}

FlagSet(name, revision, entries) ==
    [parts |-> <<name, revision>>, entries |-> entries]

CodeDefault(k) ==
    [key |-> k, value |-> "CodeDefault", reason |-> "UNKNOWN", variant |-> None,
     metadata |-> "metadata"]

MCFlagSets ==
    {FlagSet(<<97>>, <<51>>, <<On(f1, "SPLIT"), Off(f2, "DISABLED")>>),
     FlagSet(<<97>>, <<52>>, <<Failure(f2, "TARGETING_KEY_MISSING"), On(f1, "STATIC")>>),
     FlagSet(<<97, 51>>, <<51>>, <<CodeDefault(f1), Failure(f2, "GENERAL")>>),
     FlagSet(<<97>>, <<51, 51>>, <<Off(f2, "SPLIT")>>),
     FlagSet(<<97, 51>>, <<52>>,
             <<[Failure(f1, "INVALID_CONTEXT") EXCEPT !.errorDetails = "details"]>>),
     FlagSet(<<97>>, <<52, 51>>,
             <<[On(f2, "TARGETING_MATCH") EXCEPT !.metadata = Null],
               CodeDefault(f1)>>),
     FlagSet(<<97, 51, 51>>, <<>>, <<>>)}

(* A weak tag with a comma in it, and a strong one.                        *)
MCOtherTags == {<<"W/", "\"", "v1", ",", "v2", "\"">>, <<" ", "\"", "v1", "\"">>}
=============================================================================
