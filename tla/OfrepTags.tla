------------------------------ MODULE OfrepTags ------------------------------
(***************************************************************************)
(* The tag of a flag set and its comparison with an If-None-Match header   *)
(* (ofrep.rs: weak_etag, if_none_match_hits).                              *)
(*                                                                         *)
(* The hash is FNV-1a modulo 2^16 instead of 2^64.  Exclusive or and       *)
(* product let no high bit act on a lower one, so this is exactly the low  *)
(* 16 bits of the tag: where they differ, the tags differ.                 *)
(***************************************************************************)
EXTENDS Integers, SequencesExt

CONSTANT ExclusiveOr(_, _)      \* of two numbers, bit by bit

-----------------------------------------------------------------------------
(* The hash.                                                               *)
Modulus == 65536
Offset == 8997      \* 0xcbf29ce484222325 modulo 2^16
Prime == 435        \* 0x100000001b3 modulo 2^16
Separator == 255

Absorb(hash, byte) == (ExclusiveOr(hash, byte) * Prime) % Modulus

(* A faulty variant: nothing between the parts.                            *)
HashUnseparated(parts) == FoldLeft(Absorb, Offset, FlattenSeq(parts))

Hash(parts) ==
    FoldLeft(Absorb, Offset,
             FlattenSeq([i \in DOMAIN parts |-> Append(parts[i], Separator)]))

(* Text is a sequence of signs; the digits of a tag are one sign.          *)
Digits(parts) == ToString(Hash(parts))

WeakEtag(parts) == <<"W/", "\"", Digits(parts), "\"">>

(* What a proxy may make of a weak tag.                                    *)
Strong(tag) == Tail(tag)

-----------------------------------------------------------------------------
(* The comparison.                                                         *)
TrimStart(text, sign) ==
    LET n == CHOOSE k \in 0..Len(text) :
                /\ \A i \in 1..k : text[i] = sign
                /\ k < Len(text) => text[k + 1] # sign
    IN  SubSeq(text, n + 1, Len(text))

Trim(text, sign) == Reverse(TrimStart(Reverse(TrimStart(text, sign)), sign))

(* A faulty variant: strong comparison.                                    *)
NormalizeStrong(text) == Trim(Trim(text, " "), "\"")

Normalize(text) == Trim(TrimStart(Trim(text, " "), "W/"), "\"")

Candidates(header) ==
    LET cuts == {0, Len(header) + 1} \cup {i \in DOMAIN header : header[i] = ","}
        Follows(i, j) == i < j /\ \A k \in cuts : ~(i < k /\ k < j)
    IN  {SubSeq(header, c[1] + 1, c[2] - 1) :
            c \in {d \in cuts \X cuts : Follows(d[1], d[2])}}

IfNoneMatchHits(header, current) ==
    \E c \in Candidates(header) :
        Trim(c, " ") = <<"*">> \/ Normalize(c) = Normalize(current)
=============================================================================
