--------------------------- MODULE MCSqliteStore ---------------------------
(* Two callers, a name that FlagName::new accepts and one made with        *)
(* new_unchecked, and a file that may hold a row written by another        *)
(* program.  Requests touch both names and both sides of 100 percent.      *)
EXTENDS SqliteStore

CONSTANTS c1, c2, a, b, bad

MCCallers == {c1, c2}
MCNames == {a, b, bad}
MCChecked == {a, b}

Flag(e, p) == [enabled |-> e, percentage |-> p]

MCRequests ==
    {[op |-> "get", name |-> a],
     [op |-> "list"],
     [op |-> "delete", name |-> b],
     [op |-> "set", name |-> a, flag |-> Flag(TRUE, 100)],
     [op |-> "set", name |-> a, flag |-> Flag(FALSE, 101)],
     [op |-> "set", name |-> bad, flag |-> Flag(TRUE, 40)],
     [op |-> "record", name |-> a, when |-> 1],
     [op |-> "record", name |-> a, when |-> 2],
     [op |-> "record", name |-> b, when |-> 1],
     [op |-> "changes", name |-> a]}

MCFoundRows ==
    {Empty,
     [n \in {a, b} |-> [enabled |-> 2, percentage |-> IF n = a THEN 256 ELSE 100]]}
=============================================================================
