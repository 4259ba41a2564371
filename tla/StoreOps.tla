------------------------------ MODULE StoreOps ------------------------------
(***************************************************************************)
(* Flags (flag.rs) and the content of a store: a function from the names   *)
(* it holds to flags.                                                      *)
(***************************************************************************)
EXTENDS Integers

CONSTANT Names          \* flag names

(* A flag's fields are public: an in-memory flag may hold any u8.          *)
Flags == [enabled : BOOLEAN, percentage : 0..255]

IsContent(m) == DOMAIN m \subseteq Names /\ \A n \in DOMAIN m : m[n] \in Flags

Empty == [n \in {} |-> [enabled |-> FALSE, percentage |-> 0]]

Stored(m, n, f) == [x \in DOMAIN m \cup {n} |-> IF x = n THEN f ELSE m[x]]

Without(m, S) == [x \in DOMAIN m \ S |-> m[x]]
=============================================================================
