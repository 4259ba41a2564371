---------------------------- MODULE OfrepProofs ----------------------------
(***************************************************************************)
(* Proofs about evaluations over OFREP for every set of subjects, names,   *)
(* values and flag sets, every number of relays and every hash.            *)
(***************************************************************************)
EXTENDS Ofrep, FiniteSetTheorems, SequenceTheorems, TLAPS

(* The members of a finite set, each once.                                 *)
LEMMA SetInOrder ==
    ASSUME NEW S, IsFiniteSet(S)
    PROVE  /\ DOMAIN SetToSeq(S) = 1..Cardinality(S)
           /\ Cardinality(S) \in Nat
           /\ \A i \in 1..Cardinality(S) : SetToSeq(S)[i] \in S
           /\ \A x \in S : \E i \in 1..Cardinality(S) : SetToSeq(S)[i] = x
           /\ \A i, j \in 1..Cardinality(S) :
                  SetToSeq(S)[i] = SetToSeq(S)[j] => i = j
<1> DEFINE n == Cardinality(S)
<1>1. n \in Nat /\ ExistsBijection(1..n, S)
    BY FS_CardinalityType
<1>2. \E f \in [1..n -> S] : IsInjective(f)
    BY <1>1 DEF ExistsBijection, Bijection, Injection
<1>3. PICK s : s = SetToSeq(S)
    OBVIOUS
<1>4. s \in [1..n -> S] /\ IsInjective(s)
    BY <1>2, <1>3 DEF SetToSeq
<1>5. IsFiniteSet(1..n) /\ Cardinality(1..n) = n
    BY <1>1, FS_Interval
<1>6. s \in Injection(1..n, S)
    BY <1>4 DEF Injection
<1>7. s \in Surjection(1..n, S)
    BY <1>5, <1>6, FS_Injection
<1> QED BY <1>1, <1>3, <1>4, <1>7 DEF Surjection, IsInjective

-----------------------------------------------------------------------------
(* Contexts over the wire.                                                 *)
LEMMA ContextParts ==
    ASSUME NEW c \in Contexts
    PROVE  /\ c = [targeting_key |-> c.targeting_key, attributes |-> c.attributes]
           /\ c.targeting_key \in Subjects \cup {None}
           /\ IsFiniteSet(DOMAIN c.attributes)
           /\ DOMAIN c.attributes \subseteq Names
           /\ c.attributes = [n \in DOMAIN c.attributes |-> c.attributes[n]]
           /\ \A n \in DOMAIN c.attributes : c.attributes[n] \in Json
<1>1. PICK S \in {T \in SUBSET Names : IsFiniteSet(T)} : c.attributes \in [S -> Json]
    BY DEF Contexts
<1>2. DOMAIN c.attributes = S
    BY <1>1
<1> QED BY <1>1, <1>2 DEF Contexts

(* What the object of a context consists of: the key, first, and one       *)
(* member for each attribute.                                              *)
KeyCount(c) == IF c.targeting_key = None THEN 0 ELSE 1

LEMMA ContextMembers ==
    ASSUME NEW c \in Contexts, NEW json, json = ContextJson(c)
    PROVE  /\ \A i \in DOMAIN json : i \in Nat \ {0}
           /\ KeyCount(c) = 1 =>
                 1 \in DOMAIN json /\ json[1] = <<KeyField, c.targeting_key>>
           /\ \A i \in DOMAIN json : i > KeyCount(c) =>
                 \E n \in DOMAIN c.attributes : json[i] = <<n, c.attributes[n]>>
           /\ \A n \in DOMAIN c.attributes :
                 \E i \in DOMAIN json :
                    i > KeyCount(c) /\ json[i] = <<n, c.attributes[n]>>
           /\ \A i, j \in DOMAIN json :
                 i > KeyCount(c) /\ j > KeyCount(c) /\ json[i][1] = json[j][1] => i = j
<1> DEFINE names == SetToSeq(DOMAIN c.attributes)
           card == Cardinality(DOMAIN c.attributes)
           rest == [i \in DOMAIN names |-> <<names[i], c.attributes[names[i]]>>]
<1>1. /\ DOMAIN names = 1..card /\ card \in Nat
      /\ \A i \in 1..card : names[i] \in DOMAIN c.attributes
      /\ \A n \in DOMAIN c.attributes : \E i \in 1..card : names[i] = n
      /\ \A i, j \in 1..card : names[i] = names[j] => i = j
    BY ContextParts, SetInOrder
<1> HIDE DEF names, card
<1>2. /\ rest \in Seq({<<n, c.attributes[n]>> : n \in DOMAIN c.attributes})
      /\ Len(rest) = card
      /\ \A i \in 1..card : rest[i] = <<names[i], c.attributes[names[i]]>>
    BY <1>1
<1> HIDE DEF rest
<1>3. CASE c.targeting_key = None
    <2>1. json = rest
        BY <1>2, <1>3 DEF ContextJson, Members, names, rest
    <2>2. KeyCount(c) = 0 /\ DOMAIN json = 1..card
        BY <1>1, <1>2, <1>3, <2>1 DEF KeyCount
    <2>3. \A i \in DOMAIN json : i \in 1..card /\ i > 0
        BY <1>1, <2>2
    <2>4. \A n \in DOMAIN c.attributes :
             \E i \in DOMAIN json : i > 0 /\ json[i] = <<n, c.attributes[n]>>
        <3> SUFFICES ASSUME NEW n \in DOMAIN c.attributes
                     PROVE \E i \in DOMAIN json : i > 0 /\ json[i] = <<n, c.attributes[n]>>
            OBVIOUS
        <3>1. PICK k \in 1..card : names[k] = n
            BY <1>1
        <3> QED BY <1>2, <2>1, <2>2, <2>3, <3>1
    <2>5. \A i, j \in DOMAIN json : json[i][1] = json[j][1] => i = j
        BY <1>1, <1>2, <2>1, <2>2
    <2>6. \A i \in DOMAIN json :
             \E n \in DOMAIN c.attributes : json[i] = <<n, c.attributes[n]>>
        BY <1>1, <1>2, <2>1, <2>2
    <2> QED BY <1>1, <2>2, <2>3, <2>4, <2>5, <2>6
<1>4. CASE c.targeting_key # None
    <2>1. json = <<<<KeyField, c.targeting_key>>>> \o rest
        BY <1>2, <1>4 DEF ContextJson, Members, names, rest
    <2>2. /\ DOMAIN json = 1..(card + 1)
          /\ json[1] = <<KeyField, c.targeting_key>>
          /\ \A i \in 2..(card + 1) : json[i] = rest[i - 1]
        BY <1>1, <1>2, <2>1
    <2>3. \A i \in 2..(card + 1) : i - 1 \in 1..card
        BY <1>1
    <2>4. \A i \in 1..card : i + 1 \in 2..(card + 1) /\ (i + 1) - 1 = i
        BY <1>1
    <2>5. KeyCount(c) = 1
        BY <1>4 DEF KeyCount
    <2>6. \A n \in DOMAIN c.attributes :
             \E i \in DOMAIN json : i > 1 /\ json[i] = <<n, c.attributes[n]>>
        <3> SUFFICES ASSUME NEW n \in DOMAIN c.attributes
                     PROVE \E i \in DOMAIN json : i > 1 /\ json[i] = <<n, c.attributes[n]>>
            OBVIOUS
        <3>1. PICK k \in 1..card : names[k] = n
            BY <1>1
        <3>2. k + 1 \in DOMAIN json /\ k + 1 > 1 /\ json[k + 1] = rest[k]
            BY <2>2, <2>4, <1>1
        <3> QED BY <1>2, <3>1, <3>2
    <2>7. \A i \in DOMAIN json : i > 1 => i \in 2..(card + 1)
        BY <1>1, <2>2
    <2>8. \A i, j \in DOMAIN json : i > 1 /\ j > 1 /\ json[i][1] = json[j][1] => i = j
        BY <1>1, <1>2, <2>2, <2>3, <2>7
    <2>9. \A i \in DOMAIN json : i > 1 =>
             \E n \in DOMAIN c.attributes : json[i] = <<n, c.attributes[n]>>
        BY <1>1, <1>2, <2>2, <2>3, <2>7
    <2>10. \A i \in DOMAIN json : i \in Nat \ {0}
        BY <1>1, <2>2
    <2>11. 1 \in DOMAIN json
        BY <1>1, <2>2
    <2> HIDE DEF rest
    <2> QED BY <2>2, <2>5, <2>6, <2>8, <2>9, <2>10, <2>11
<1> QED BY <1>3, <1>4

(* Two contexts are one if they have the same key and the same attributes. *)
LEMMA AttributesRead ==
    ASSUME NEW c \in Contexts, NEW json, json = ContextJson(c),
           \A i \in DOMAIN json : i \in KeyMembers(json) <=> i <= KeyCount(c)
    PROVE  AttributesOf(json) = c.attributes
<1> DEFINE rest == {json[i] : i \in DOMAIN json \ KeyMembers(json)}
<1>1. \A i \in DOMAIN json \ KeyMembers(json) : i \in Nat /\ i > KeyCount(c)
    BY ContextMembers DEF KeyCount
<1>2. \A i \in DOMAIN json : i > KeyCount(c) => i \in DOMAIN json \ KeyMembers(json)
    BY ContextMembers DEF KeyCount
<1>3. rest = {<<n, c.attributes[n]>> : n \in DOMAIN c.attributes}
    <2>1. ASSUME NEW m \in rest
          PROVE  m \in {<<n, c.attributes[n]>> : n \in DOMAIN c.attributes}
        <3>1. PICK i \in DOMAIN json \ KeyMembers(json) : m = json[i]
            OBVIOUS
        <3>2. \E n \in DOMAIN c.attributes : json[i] = <<n, c.attributes[n]>>
            BY <1>1, <3>1, ContextMembers
        <3> QED BY <3>1, <3>2
    <2>2. ASSUME NEW n \in DOMAIN c.attributes
          PROVE  <<n, c.attributes[n]>> \in rest
        <3>1. PICK i \in DOMAIN json : i > KeyCount(c) /\ json[i] = <<n, c.attributes[n]>>
            BY ContextMembers
        <3> QED BY <1>2, <3>1
    <2> QED BY <2>1, <2>2
<1> HIDE DEF rest
<1>4. {m[1] : m \in rest} = DOMAIN c.attributes
    <2>1. ASSUME NEW m \in rest
          PROVE  m[1] \in DOMAIN c.attributes
        BY <1>3
    <2>2. ASSUME NEW n \in DOMAIN c.attributes
          PROVE  \E m \in rest : n = m[1]
        <3>1. <<n, c.attributes[n]>> \in rest /\ <<n, c.attributes[n]>>[1] = n
            BY <1>3
        <3> QED BY <3>1
    <2> QED BY <2>1, <2>2
<1>5. ASSUME NEW n \in DOMAIN c.attributes
      PROVE  (CHOOSE m \in rest : m[1] = n)[2] = c.attributes[n]
    <2>1. \E m \in rest : m[1] = n
        <3>1. <<n, c.attributes[n]>> \in rest /\ <<n, c.attributes[n]>>[1] = n
            BY <1>3
        <3> QED BY <3>1
    <2>2. \A m \in rest : m[1] = n => m[2] = c.attributes[n]
        BY <1>3
    <2> QED BY <2>1, <2>2
<1>6. AttributesOf(json) = [n \in DOMAIN c.attributes |-> c.attributes[n]]
    <2>1. AttributesOf(json) =
             [n \in {m[1] : m \in rest} |-> (CHOOSE m \in rest : m[1] = n)[2]]
        BY DEF AttributesOf, rest
    <2> QED BY <1>4, <1>5, <2>1
<1> QED BY <1>6, ContextParts

(* Without an attribute named like the key, what is read is what was       *)
(* written.                                                                *)
LEMMA ContextRoundTrip ==
    ASSUME NEW c \in Contexts, KeyField \notin DOMAIN c.attributes
    PROVE  ContextOf(ContextJson(c)) = c
<1>1. PICK json : json = ContextJson(c)
    OBVIOUS
<1>2. ASSUME NEW i \in DOMAIN json
      PROVE  i \in KeyMembers(json) <=> i <= KeyCount(c)
    <2>1. CASE i > KeyCount(c)
        <3>1. \E n \in DOMAIN c.attributes : json[i] = <<n, c.attributes[n]>>
            BY <1>1, <2>1, ContextMembers
        <3>2. json[i][1] # KeyField
            BY <3>1
        <3>3. ~(i <= KeyCount(c))
            BY <1>1, <2>1, ContextMembers DEF KeyCount
        <3> QED BY <3>2, <3>3 DEF KeyMembers
    <2>2. CASE ~(i > KeyCount(c))
        <3>1. i = 1 /\ KeyCount(c) = 1
            BY <1>1, <2>2, ContextMembers DEF KeyCount
        <3>2. json[i][1] = KeyField
            BY <1>1, <3>1, ContextMembers
        <3> QED BY <3>1, <3>2 DEF KeyMembers
    <2> QED BY <2>1, <2>2
<1>3. AttributesOf(json) = c.attributes
    BY <1>1, <1>2, AttributesRead
<1>4. CASE c.targeting_key = None
    <2>1. KeyMembers(json) = {}
        BY <1>1, <1>2, <1>4, ContextMembers DEF KeyCount, KeyMembers
    <2>2. ContextOf(json) = [targeting_key |-> None, attributes |-> c.attributes]
        BY <1>3, <2>1 DEF ContextOf
    <2> QED BY <1>1, <1>4, <2>2, ContextParts
<1>5. CASE c.targeting_key # None
    <2>1. KeyMembers(json) = {1}
        BY <1>1, <1>2, <1>5, ContextMembers DEF KeyCount, KeyMembers
    <2>2. json[1] = <<KeyField, c.targeting_key>> /\ c.targeting_key \in Subjects
        BY <1>1, <1>5, ContextMembers, ContextParts DEF KeyCount
    <2>3. ContextOf(json) =
             [targeting_key |-> c.targeting_key, attributes |-> c.attributes]
        BY <1>3, <2>1, <2>2 DEF ContextOf
    <2> QED BY <1>1, <2>3, ContextParts
<1> QED BY <1>4, <1>5

(* With one, beside a key, the object has two members of that name, and is *)
(* refused.                                                                *)
LEMMA DuplicateRefused ==
    ASSUME NEW c \in Contexts, KeyField \in DOMAIN c.attributes,
           c.targeting_key # None
    PROVE  ContextOf(ContextJson(c)) = Unreadable
<1>1. PICK json : json = ContextJson(c)
    OBVIOUS
<1>2. KeyCount(c) = 1
    BY DEF KeyCount
<1>3. 1 \in KeyMembers(json)
    BY <1>1, <1>2, ContextMembers DEF KeyMembers
<1>4. PICK i \in DOMAIN json : i > 1 /\ json[i] = <<KeyField, c.attributes[KeyField]>>
    BY <1>1, <1>2, ContextMembers
<1>5. i \in KeyMembers(json) /\ i # 1
    BY <1>1, <1>4, ContextMembers DEF KeyMembers
<1> QED BY <1>1, <1>3, <1>5 DEF ContextOf

(* What is read from an object that a context was written to is a context, *)
(* if it can be read.                                                      *)
LEMMA ContextReadType ==
    ASSUME NEW c \in Contexts
    PROVE  ContextOf(ContextJson(c)) \in Contexts \cup {Unreadable}
<1>1. PICK json : json = ContextJson(c)
    OBVIOUS
<1>2. CASE KeyField \notin DOMAIN c.attributes
    BY <1>2, ContextRoundTrip
<1>3. CASE KeyField \in DOMAIN c.attributes /\ c.targeting_key # None
    BY <1>3, DuplicateRefused
<1>4. CASE KeyField \in DOMAIN c.attributes /\ c.targeting_key = None
    <2>1. KeyCount(c) = 0 /\ \A i \in DOMAIN json : i > 0
        BY <1>1, <1>4, ContextMembers DEF KeyCount
    <2> DEFINE rest == {json[i] : i \in DOMAIN json \ KeyMembers(json)}
    <2>2. \A m \in rest : \E n \in DOMAIN c.attributes : m = <<n, c.attributes[n]>>
        BY <1>1, <2>1, ContextMembers
    <2> HIDE DEF rest
    <2>3. {m[1] : m \in rest} \subseteq DOMAIN c.attributes
        BY <2>2
    <2>4. {m[1] : m \in rest} \in {T \in SUBSET Names : IsFiniteSet(T)}
        BY <2>3, ContextParts, FS_Subset
    <2>5. ASSUME NEW n \in {m[1] : m \in rest}
          PROVE  (CHOOSE m \in rest : m[1] = n)[2] \in Json
        <3>1. \E m \in rest : m[1] = n
            BY <2>5
        <3>2. \A m \in rest : m[2] \in Json
            <4> SUFFICES ASSUME NEW m \in rest PROVE m[2] \in Json
                OBVIOUS
            <4>1. PICK k \in DOMAIN c.attributes : m = <<k, c.attributes[k]>>
                BY <2>2
            <4>2. m[2] = c.attributes[k]
                BY <4>1
            <4> QED BY <4>1, <4>2, ContextParts
        <3> QED BY <3>1, <3>2
    <2>6. AttributesOf(json) \in [{m[1] : m \in rest} -> Json]
        <3>1. AttributesOf(json) =
                 [n \in {m[1] : m \in rest} |-> (CHOOSE m \in rest : m[1] = n)[2]]
            BY DEF AttributesOf, rest
        <3> QED BY <2>5, <3>1
    <2>7. AttributesOf(json) \in UNION {[S -> Json] :
                S \in {T \in SUBSET Names : IsFiniteSet(T)}}
        BY <2>4, <2>6
    <2>8. ContextOf(json) # Unreadable =>
             ContextOf(json).targeting_key \in Subjects \cup {None}
        BY DEF ContextOf
    <2>9. ContextOf(json) # Unreadable =>
             ContextOf(json) = [targeting_key |-> ContextOf(json).targeting_key,
                                attributes |-> AttributesOf(json)]
        BY DEF ContextOf
    <2> QED BY <1>1, <2>7, <2>8, <2>9 DEF Contexts
<1> QED BY <1>2, <1>3, <1>4

-----------------------------------------------------------------------------
(* Entries over the wire.                                                  *)
LEMMA EntryParts ==
    /\ \A e \in Successes :
          /\ ~IsFailure(e)
          /\ DOMAIN e = {"key", "value", "reason", "variant", "metadata"}
          /\ e = [key |-> e.key, value |-> e.value, reason |-> e.reason,
                  variant |-> e.variant, metadata |-> e.metadata]
    /\ \A e \in Failures :
          /\ IsFailure(e)
          /\ DOMAIN e = {"key", "errorCode", "errorDetails"}
          /\ e = [key |-> e.key, errorCode |-> e.errorCode,
                  errorDetails |-> e.errorDetails]
BY DEF Successes, Failures, IsFailure

LEMMA EntryReadType ==
    ASSUME NEW e \in Entries
    PROVE  /\ EntryAsRead(e) \in Entries
           /\ EntryAsRead(EntryAsRead(e)) = EntryAsRead(e)
           /\ IsFailure(e) => EntryAsRead(e) = e
<1>1. CASE e \in Failures
    BY <1>1, EntryParts DEF EntryAsRead, Entries
<1>2. CASE e \in Successes
    <2>1. EntryAsRead(e) = [e EXCEPT !.metadata = IF @ = Null THEN None ELSE @]
        BY <1>2, EntryParts DEF EntryAsRead
    <2>2. EntryAsRead(e) \in Successes /\ EntryAsRead(e).metadata # Null
        BY <1>2, <2>1, MarksAssumption DEF Successes
    <2>3. EntryAsRead(EntryAsRead(e)) = EntryAsRead(e)
        BY <2>2, EntryParts DEF EntryAsRead, Successes
    <2> QED BY <1>2, <2>2, <2>3, EntryParts DEF Entries
<1> QED BY <1>1, <1>2 DEF Entries

LEMMA SuccessRoundTrip ==
    ASSUME NEW e \in Successes
    PROVE  EntryOf(EntryJson(e)) = EntryAsRead(e)
<1> DEFINE json == EntryJson(e)
<1>1. /\ DOMAIN e = {"key", "value", "reason", "variant", "metadata"}
      /\ e.key # None /\ e.value # None /\ e.reason # None
      /\ e.value \in {"true", "false", "CodeDefault"}
      /\ e.variant \in {"on", "off", None}
      /\ e.metadata \in {"metadata", Null, None}
    BY EntryParts, MarksAssumption DEF Successes
<1>2. DOMAIN json = {y \in DOMAIN e : e[y] # None}
    BY DEF EntryJson
<1>3. {"key", "value", "reason"} \subseteq DOMAIN json
    BY <1>1, <1>2
<1>4. \A x \in DOMAIN json :
         json[x] = IF x = "value" /\ e[x] = "CodeDefault" THEN Null ELSE e[x]
    BY DEF EntryJson
<1> HIDE DEF json
<1>5. /\ json.key = e.key
      /\ json.reason = e.reason
      /\ json.value = IF e.value = "CodeDefault" THEN Null ELSE e.value
    BY <1>3, <1>4
<1>6. (IF json.value = Null THEN "CodeDefault" ELSE json.value) = e.value
    BY <1>1, <1>5, MarksAssumption
<1>7. Optional(json, "variant") = e.variant
    <2>1. CASE e.variant = None
        BY <1>1, <1>2, <2>1 DEF Optional
    <2>2. CASE e.variant # None
        BY <1>1, <1>2, <1>4, <2>2, MarksAssumption DEF Optional
    <2> QED BY <2>1, <2>2
<1>8. Optional(json, "metadata") = IF e.metadata = Null THEN None ELSE e.metadata
    <2>1. CASE e.metadata = None
        BY <1>1, <1>2, <2>1, MarksAssumption DEF Optional
    <2>2. CASE e.metadata # None
        BY <1>1, <1>2, <1>4, <2>2, MarksAssumption DEF Optional
    <2> QED BY <2>1, <2>2
<1>9. EntryOf(json) =
         [key |-> e.key, value |-> e.value, reason |-> e.reason,
          variant |-> e.variant,
          metadata |-> IF e.metadata = Null THEN None ELSE e.metadata]
    BY <1>3, <1>5, <1>6, <1>7, <1>8 DEF EntryOf
<1>10. EntryAsRead(e) = [e EXCEPT !.metadata = IF @ = Null THEN None ELSE @]
    BY EntryParts DEF EntryAsRead
<1> QED BY <1>9, <1>10, EntryParts DEF json, Successes

LEMMA FailureRoundTrip ==
    ASSUME NEW e \in Failures
    PROVE  EntryOf(EntryJson(e)) = EntryAsRead(e)
<1> DEFINE json == EntryJson(e)
<1>1. /\ DOMAIN e = {"key", "errorCode", "errorDetails"}
      /\ e.key # None /\ e.errorCode # None
      /\ e.errorDetails \in {"details", None}
    BY EntryParts, MarksAssumption DEF Failures
<1>2. DOMAIN json = {y \in DOMAIN e : e[y] # None}
    BY DEF EntryJson
<1>3. {"key", "errorCode"} \subseteq DOMAIN json /\ "value" \notin DOMAIN json
    BY <1>1, <1>2
<1>4. \A x \in DOMAIN json :
         json[x] = IF x = "value" /\ e[x] = "CodeDefault" THEN Null ELSE e[x]
    BY DEF EntryJson
<1> HIDE DEF json
<1>5. json.key = e.key /\ json.errorCode = e.errorCode
    BY <1>3, <1>4
<1>6. Optional(json, "errorDetails") = e.errorDetails
    <2>1. CASE e.errorDetails = None
        BY <1>1, <1>2, <2>1 DEF Optional
    <2>2. CASE e.errorDetails # None
        BY <1>1, <1>2, <1>4, <2>2, MarksAssumption DEF Optional
    <2> QED BY <2>1, <2>2
<1>7. EntryOf(json) =
         [key |-> e.key, errorCode |-> e.errorCode, errorDetails |-> e.errorDetails]
    BY <1>3, <1>5, <1>6 DEF EntryOf
<1> QED BY <1>7, EntryParts DEF json, EntryAsRead

(* A bulk arrives entry by entry, and what was read once is read the same  *)
(* again.                                                                  *)
LEMMA BulkRoundTrip ==
    ASSUME NEW entries \in Seq(Entries)
    PROVE  /\ BulkOf(BulkJson(entries)) = AsRead(entries)
           /\ AsRead(entries) \in Seq(Entries)
           /\ AsRead(AsRead(entries)) = AsRead(entries)
           /\ AsRead(entries) # Unreadable
<1>1. DOMAIN entries = 1..Len(entries) /\ Len(entries) \in Nat
    OBVIOUS
<1>2. \A i \in DOMAIN entries : entries[i] \in Entries
    OBVIOUS
<1>3. \A i \in DOMAIN entries : EntryOf(EntryJson(entries[i])) = EntryAsRead(entries[i])
    BY <1>2, SuccessRoundTrip, FailureRoundTrip DEF Entries
<1>4. \A i \in DOMAIN entries :
         /\ EntryAsRead(entries[i]) \in Entries
         /\ EntryAsRead(EntryAsRead(entries[i])) = EntryAsRead(entries[i])
    BY <1>2, EntryReadType
<1>5. AsRead(entries) \in Seq(Entries)
    BY <1>1, <1>4 DEF AsRead
<1>6. AsRead(AsRead(entries)) = AsRead(entries)
    BY <1>4 DEF AsRead
<1>7. [i \in DOMAIN BulkJson(entries) |-> EntryOf(BulkJson(entries)[i])] = AsRead(entries)
    BY <1>3 DEF BulkJson, AsRead
<1>8. Unreadable \notin ToSet(AsRead(entries))
    BY <1>4, MarksAssumption DEF AsRead, ToSet
<1>9. BulkOf(BulkJson(entries)) = AsRead(entries)
    BY <1>7, <1>8 DEF BulkOf
<1> QED BY <1>5, <1>6, <1>9, MarksAssumption

-----------------------------------------------------------------------------
(* Text without the signs it starts with.                                  *)
LEMMA TrimStartIs ==
    ASSUME NEW T, NEW text \in Seq(T), NEW sign, NEW k \in 0..Len(text),
           \A i \in 1..k : text[i] = sign,
           k < Len(text) => text[k + 1] # sign
    PROVE  TrimStart(text, sign) = SubSeq(text, k + 1, Len(text))
<1> DEFINE Stops(m) == /\ \A i \in 1..m : text[i] = sign
                       /\ m < Len(text) => text[m + 1] # sign
           n == CHOOSE m \in 0..Len(text) : Stops(m)
<1>1. Len(text) \in Nat
    OBVIOUS
<1>2. n \in 0..Len(text) /\ Stops(n)
    OBVIOUS
<1>3. ~(n < k)
    BY <1>1, <1>2
<1>4. ~(k < n)
    BY <1>1, <1>2
<1>5. n = k
    <2> HIDE DEF n
    <2> QED BY <1>1, <1>2, <1>3, <1>4
<1> QED BY <1>5 DEF TrimStart

LEMMA TrimStartKeeps ==
    ASSUME NEW T, NEW text \in Seq(T), NEW sign,
           Len(text) > 0 => text[1] # sign
    PROVE  TrimStart(text, sign) = text
<1>1. 0 \in 0..Len(text) /\ Len(text) \in Nat
    OBVIOUS
<1>2. TrimStart(text, sign) = SubSeq(text, 1, Len(text))
    BY <1>1, TrimStartIs
<1> QED BY <1>2

LEMMA TrimStartDrops ==
    ASSUME NEW T, NEW text \in Seq(T), NEW sign,
           Len(text) > 1, text[1] = sign, text[2] # sign
    PROVE  TrimStart(text, sign) = Tail(text)
<1>1. 1 \in 0..Len(text) /\ Len(text) \in Nat
    OBVIOUS
<1>2. TrimStart(text, sign) = SubSeq(text, 2, Len(text))
    BY <1>1, TrimStartIs
<1> QED BY <1>2

(* The same for texts of few signs.                                        *)
LEMMA Reversed ==
    /\ Reverse(<<>>) = <<>>
    /\ \A a : Reverse(<<a>>) = <<a>>
    /\ \A a, b : Reverse(<<a, b>>) = <<b, a>>
    /\ \A a, b, c : Reverse(<<a, b, c>>) = <<c, b, a>>
    /\ \A a, b, c, d : Reverse(<<a, b, c, d>>) = <<d, c, b, a>>
BY DEF Reverse

LEMMA TrimStartKept ==
    /\ \A sign : TrimStart(<<>>, sign) = <<>>
    /\ \A a, sign : a # sign => TrimStart(<<a>>, sign) = <<a>>
    /\ \A a, b, sign : a # sign => TrimStart(<<a, b>>, sign) = <<a, b>>
    /\ \A a, b, c, sign : a # sign => TrimStart(<<a, b, c>>, sign) = <<a, b, c>>
    /\ \A a, b, c, d, sign : a # sign => TrimStart(<<a, b, c, d>>, sign) = <<a, b, c, d>>
<1>0. ASSUME NEW sign PROVE TrimStart(<<>>, sign) = <<>>
    <2>1. PICK t : t = <<>>
        OBVIOUS
    <2>2. t \in Seq({}) /\ ~(Len(t) > 0)
        BY <2>1
    <2>3. TrimStart(t, sign) = t
        BY <2>2, TrimStartKeeps
    <2> QED BY <2>1, <2>3
<1>1. ASSUME NEW a, NEW sign, a # sign
      PROVE  TrimStart(<<a>>, sign) = <<a>>
    <2> DEFINE T == {a}
    <2>1. <<a>> \in Seq(T) /\ <<a>>[1] # sign
        BY <1>1
    <2> HIDE DEF T
    <2> QED BY <2>1, TrimStartKeeps
<1>2. ASSUME NEW a, NEW b, NEW sign, a # sign
      PROVE  TrimStart(<<a, b>>, sign) = <<a, b>>
    <2> DEFINE T == {a, b}
    <2>1. <<a, b>> \in Seq(T) /\ <<a, b>>[1] # sign
        BY <1>2
    <2> HIDE DEF T
    <2> QED BY <2>1, TrimStartKeeps
<1>3. ASSUME NEW a, NEW b, NEW c, NEW sign, a # sign
      PROVE  TrimStart(<<a, b, c>>, sign) = <<a, b, c>>
    <2> DEFINE T == {a, b, c}
    <2>1. <<a, b, c>> \in Seq(T) /\ <<a, b, c>>[1] # sign
        BY <1>3
    <2> HIDE DEF T
    <2> QED BY <2>1, TrimStartKeeps
<1>4. ASSUME NEW a, NEW b, NEW c, NEW d, NEW sign, a # sign
      PROVE  TrimStart(<<a, b, c, d>>, sign) = <<a, b, c, d>>
    <2> DEFINE T == {a, b, c, d}
    <2>1. <<a, b, c, d>> \in Seq(T) /\ <<a, b, c, d>>[1] # sign
        BY <1>4
    <2> HIDE DEF T
    <2> QED BY <2>1, TrimStartKeeps
<1> QED BY <1>0, <1>1, <1>2, <1>3, <1>4

LEMMA TrimStartDropped ==
    /\ \A a, sign :
          a # sign => TrimStart(<<sign, a>>, sign) = <<a>>
    /\ \A a, b, sign :
          a # sign => TrimStart(<<sign, a, b>>, sign) = <<a, b>>
    /\ \A a, b, c, sign :
          a # sign => TrimStart(<<sign, a, b, c>>, sign) = <<a, b, c>>
    /\ \A a, b, c, d, sign :
          a # sign => TrimStart(<<sign, a, b, c, d>>, sign) = <<a, b, c, d>>
<1>1. ASSUME NEW a, NEW sign, a # sign
      PROVE  TrimStart(<<sign, a>>, sign) = <<a>>
    <2> DEFINE T == {a, sign}
    <2>1. PICK t : t = <<sign, a>>
        OBVIOUS
    <2>2. t \in Seq(T) /\ Len(t) > 1 /\ t[1] = sign /\ t[2] # sign /\ Tail(t) = <<a>>
        BY <1>1, <2>1
    <2> HIDE DEF T
    <2>3. TrimStart(t, sign) = Tail(t)
        BY <2>2, TrimStartDrops
    <2> QED BY <2>1, <2>2, <2>3
<1>2. ASSUME NEW a, NEW b, NEW sign, a # sign
      PROVE  TrimStart(<<sign, a, b>>, sign) = <<a, b>>
    <2> DEFINE T == {a, b, sign}
    <2>1. PICK t : t = <<sign, a, b>>
        OBVIOUS
    <2>2. t \in Seq(T) /\ Len(t) > 1 /\ t[1] = sign /\ t[2] # sign /\ Tail(t) = <<a, b>>
        BY <1>2, <2>1
    <2> HIDE DEF T
    <2>3. TrimStart(t, sign) = Tail(t)
        BY <2>2, TrimStartDrops
    <2> QED BY <2>1, <2>2, <2>3
<1>3. ASSUME NEW a, NEW b, NEW c, NEW sign, a # sign
      PROVE  TrimStart(<<sign, a, b, c>>, sign) = <<a, b, c>>
    <2> DEFINE T == {a, b, c, sign}
    <2>1. PICK t : t = <<sign, a, b, c>>
        OBVIOUS
    <2>2. t \in Seq(T) /\ Len(t) > 1 /\ t[1] = sign /\ t[2] # sign /\ Tail(t) = <<a, b, c>>
        BY <1>3, <2>1
    <2> HIDE DEF T
    <2>3. TrimStart(t, sign) = Tail(t)
        BY <2>2, TrimStartDrops
    <2> QED BY <2>1, <2>2, <2>3
<1>4. ASSUME NEW a, NEW b, NEW c, NEW d, NEW sign, a # sign
      PROVE  TrimStart(<<sign, a, b, c, d>>, sign) = <<a, b, c, d>>
    <2> DEFINE T == {a, b, c, d, sign}
    <2>1. PICK t : t = <<sign, a, b, c, d>>
        OBVIOUS
    <2>2. t \in Seq(T) /\ Len(t) > 1 /\ t[1] = sign /\ t[2] # sign /\ Tail(t) = <<a, b, c, d>>
        BY <1>4, <2>1
    <2> HIDE DEF T
    <2>3. TrimStart(t, sign) = Tail(t)
        BY <2>2, TrimStartDrops
    <2> QED BY <2>1, <2>2, <2>3
<1> QED BY <1>1, <1>2, <1>3, <1>4

(* What a header or a tag, weak or strong, with or without the blank of a  *)
(* list, is compared by.                                                   *)
LEMMA TrimmedShort ==
    /\ \A sign : Trim(<<>>, sign) = <<>>
    /\ \A a, sign : a # sign => Trim(<<sign, a>>, sign) = <<a>>
    /\ \A a, sign : a # sign => Trim(<<sign, a, sign>>, sign) = <<a>>
<1>1. ASSUME NEW sign PROVE Trim(<<>>, sign) = <<>>
    BY TrimStartKept, Reversed DEF Trim
<1>2. ASSUME NEW a, NEW sign, a # sign PROVE Trim(<<sign, a>>, sign) = <<a>>
    BY <1>2, TrimStartKept, TrimStartDropped, Reversed DEF Trim
<1>3. ASSUME NEW a, NEW sign, a # sign PROVE Trim(<<sign, a, sign>>, sign) = <<a>>
    BY <1>3, TrimStartDropped, Reversed DEF Trim
<1> QED BY <1>1, <1>2, <1>3

LEMMA TrimmedThree ==
    ASSUME NEW a, NEW b, NEW c, NEW sign,
           a # sign, c # sign
    PROVE  /\ Trim(<<a, b, c>>, sign) = <<a, b, c>>
           /\ Trim(<<sign, a, b, c>>, sign) = <<a, b, c>>
<1>1. /\ TrimStart(<<a, b, c>>, sign) = <<a, b, c>>
      /\ TrimStart(<<sign, a, b, c>>, sign) = <<a, b, c>>
      /\ TrimStart(<<c, b, a>>, sign) = <<c, b, a>>
    BY TrimStartKept, TrimStartDropped
<1>2. Reverse(<<a, b, c>>) = <<c, b, a>> /\ Reverse(<<c, b, a>>) = <<a, b, c>>
    BY Reversed
<1> QED BY <1>1, <1>2 DEF Trim

LEMMA TrimmedFour ==
    ASSUME NEW a, NEW b, NEW c, NEW d, NEW sign,
           a # sign, d # sign
    PROVE  /\ Trim(<<a, b, c, d>>, sign) = <<a, b, c, d>>
           /\ Trim(<<sign, a, b, c, d>>, sign) = <<a, b, c, d>>
<1>1. /\ TrimStart(<<a, b, c, d>>, sign) = <<a, b, c, d>>
      /\ TrimStart(<<sign, a, b, c, d>>, sign) = <<a, b, c, d>>
      /\ TrimStart(<<d, c, b, a>>, sign) = <<d, c, b, a>>
    BY TrimStartKept, TrimStartDropped
<1>2. Reverse(<<a, b, c, d>>) = <<d, c, b, a>> /\ Reverse(<<d, c, b, a>>) = <<a, b, c, d>>
    BY Reversed
<1> QED BY <1>1, <1>2 DEF Trim

LEMMA TagNormalized ==
    ASSUME NEW d \in STRING \ {" ", "W/", "\"", ",", "*"}
    PROVE  /\ Normalize(<<>>) = <<>>
           /\ Normalize(<<"W/", "\"", d, "\"">>) = <<d>>
           /\ Normalize(<<"\"", d, "\"">>) = <<d>>
           /\ Normalize(<<" ", "W/", "\"", d, "\"">>) = <<d>>
           /\ Normalize(<<" ", "\"", d, "\"">>) = <<d>>
           /\ Trim(<<>>, " ") # <<"*">>
           /\ Trim(<<"W/", "\"", d, "\"">>, " ") # <<"*">>
           /\ Trim(<<"\"", d, "\"">>, " ") # <<"*">>
           /\ Trim(<<" ", "W/", "\"", d, "\"">>, " ") # <<"*">>
           /\ Trim(<<" ", "\"", d, "\"">>, " ") # <<"*">>
           /\ Trim(<<" ", "*">>, " ") = <<"*">>
<1>1. PICK w, q, blank, star :
         w = "W/" /\ q = "\"" /\ blank = " " /\ star = "*"
    OBVIOUS
<1>2. /\ w # blank /\ q # blank /\ q # w /\ star # blank
      /\ d # blank /\ d # w /\ d # q /\ d # star
    BY <1>1
<1>3. Trim(<<>>, blank) = <<>> /\ Trim(<<blank, star>>, blank) = <<star>>
    BY <1>2, TrimmedShort
<1>4. /\ Trim(<<w, q, d, q>>, blank) = <<w, q, d, q>>
      /\ Trim(<<blank, w, q, d, q>>, blank) = <<w, q, d, q>>
    BY <1>2, TrimmedFour
<1>5. /\ Trim(<<q, d, q>>, blank) = <<q, d, q>>
      /\ Trim(<<blank, q, d, q>>, blank) = <<q, d, q>>
    BY <1>2, TrimmedThree
<1>6. /\ TrimStart(<<w, q, d, q>>, w) = <<q, d, q>>
      /\ TrimStart(<<q, d, q>>, w) = <<q, d, q>>
      /\ TrimStart(<<>>, w) = <<>>
    <2>1. TrimStart(<<w, q, d, q>>, w) = <<q, d, q>>
        BY <1>2, TrimStartDropped
    <2>2. TrimStart(<<q, d, q>>, w) = <<q, d, q>>
        BY <1>2, TrimStartKept
    <2>3. TrimStart(<<>>, w) = <<>>
        BY TrimStartKept
    <2> QED BY <2>1, <2>2, <2>3
<1>7. Trim(<<q, d, q>>, q) = <<d>> /\ Trim(<<>>, q) = <<>>
    BY <1>2, TrimmedShort
<1>8. \A text : Normalize(text) = Trim(TrimStart(Trim(text, blank), w), q)
    BY <1>1 DEF Normalize
<1>9. /\ Normalize(<<>>) = <<>>
      /\ Normalize(<<w, q, d, q>>) = <<d>>
      /\ Normalize(<<q, d, q>>) = <<d>>
      /\ Normalize(<<blank, w, q, d, q>>) = <<d>>
      /\ Normalize(<<blank, q, d, q>>) = <<d>>
    BY <1>3, <1>4, <1>5, <1>6, <1>7, <1>8
<1>10. /\ Trim(<<>>, blank) # <<star>>
       /\ Trim(<<w, q, d, q>>, blank) # <<star>>
       /\ Trim(<<q, d, q>>, blank) # <<star>>
       /\ Trim(<<blank, w, q, d, q>>, blank) # <<star>>
       /\ Trim(<<blank, q, d, q>>, blank) # <<star>>
       /\ Trim(<<blank, star>>, blank) = <<star>>
    <2>1. \A u, v : u = v => Len(u) = Len(v)
        OBVIOUS
    <2>2. /\ Len(<<>>) = 0 /\ Len(<<star>>) = 1
          /\ Len(<<w, q, d, q>>) = 4 /\ Len(<<q, d, q>>) = 3
        OBVIOUS
    <2>3. /\ <<>> # <<star>>
          /\ <<w, q, d, q>> # <<star>>
          /\ <<q, d, q>> # <<star>>
        BY <2>1, <2>2
    <2> QED BY <1>3, <1>4, <1>5, <2>3
<1> QED BY <1>1, <1>9, <1>10

-----------------------------------------------------------------------------
(* The tags that a header lists: what stands between two commas that       *)
(* follow each other, or between one and an end.                           *)
Cuts(h, sign) == {0, Len(h) + 1} \cup {i \in DOMAIN h : h[i] = sign}

Adjacent(h, sign, i, j) == i < j /\ \A k \in Cuts(h, sign) : ~(i < k /\ k < j)

Piece(h, sign, x) ==
    \E i, j \in Cuts(h, sign) : Adjacent(h, sign, i, j) /\ x = SubSeq(h, i + 1, j - 1)

Lacks(text, sign) == \A i \in DOMAIN text : text[i] # sign

LEMMA CandidatesAre ==
    \A h, x : x \in Candidates(h) <=> Piece(h, ",", x)
<1> SUFFICES ASSUME NEW h, NEW x
             PROVE  x \in Candidates(h) <=> Piece(h, ",", x)
    OBVIOUS
<1> DEFINE Pairs == {d \in Cuts(h, ",") \X Cuts(h, ",") : Adjacent(h, ",", d[1], d[2])}
<1>1. Candidates(h) = {SubSeq(h, c[1] + 1, c[2] - 1) : c \in Pairs}
    BY DEF Candidates, Cuts, Adjacent
<1>2. ASSUME NEW i \in Cuts(h, ","), NEW j \in Cuts(h, ","), Adjacent(h, ",", i, j)
      PROVE  SubSeq(h, i + 1, j - 1) \in Candidates(h)
    <2>1. <<i, j>> \in Pairs /\ <<i, j>>[1] = i /\ <<i, j>>[2] = j
        BY <1>2
    <2> QED BY <1>1, <2>1
<1>3. ASSUME NEW y \in Candidates(h)
      PROVE  Piece(h, ",", y)
    <2>1. PICK c \in Pairs : y = SubSeq(h, c[1] + 1, c[2] - 1)
        BY <1>1
    <2>2. c[1] \in Cuts(h, ",") /\ c[2] \in Cuts(h, ",") /\ Adjacent(h, ",", c[1], c[2])
        BY <2>1
    <2> QED BY <2>1, <2>2 DEF Piece
<1> QED BY <1>2, <1>3 DEF Piece

LEMMA OnePiece ==
    ASSUME NEW T, NEW h \in Seq(T), NEW sign, Lacks(h, sign)
    PROVE  \A x : Piece(h, sign, x) <=> x = h
<1>1. Len(h) \in Nat /\ Cuts(h, sign) = {0, Len(h) + 1}
    BY DEF Cuts, Lacks
<1>2. \A i, j \in Cuts(h, sign) :
         Adjacent(h, sign, i, j) <=> i = 0 /\ j = Len(h) + 1
    BY <1>1 DEF Adjacent
<1>3. SubSeq(h, 0 + 1, (Len(h) + 1) - 1) = h
    <2>1. 0 + 1 = 1 /\ (Len(h) + 1) - 1 = Len(h)
        BY <1>1
    <2> QED BY <2>1
<1> QED BY <1>1, <1>2, <1>3 DEF Piece

LEMMA SubSeqAt ==
    ASSUME NEW h, NEW p \in Int, NEW q \in Int, NEW i \in 1..(q - p + 1)
    PROVE  SubSeq(h, p, q)[i] = h[p + i - 1]
OBVIOUS

LEMMA LastPiece ==
    ASSUME NEW T, NEW sign \in T, NEW blank \in T, sign # blank,
           NEW t \in Seq(T), NEW y \in Seq(T), NEW h \in Seq(T),
           Lacks(y, sign), h = t \o <<sign, blank>> \o y
    PROVE  \A x : Piece(h, sign, x) <=> Piece(t, sign, x) \/ x = <<blank>> \o y
<1>0. Len(t) \in Nat /\ Len(y) \in Nat
    OBVIOUS
<1>13. PICK n \in Nat : n = Len(t)
    BY <1>0
<1>14. PICK m \in Nat : m = Len(y)
    BY <1>0
<1>1. n = Len(t) /\ m = Len(y) /\ n \in Nat /\ m \in Nat
    BY <1>13, <1>14
<1>2. /\ Len(h) = n + 2 + m
      /\ DOMAIN h = 1..(n + 2 + m)
      /\ \A i \in 1..n : h[i] = t[i]
      /\ h[n + 1] = sign /\ h[n + 2] = blank
      /\ \A i \in 1..m : h[n + 2 + i] = y[i]
    BY <1>1
<1>3. \A k \in Cuts(t, sign) : k \in 0..(n + 1)
    BY <1>1 DEF Cuts
<1>4. \A k : k \in Cuts(h, sign) <=> k \in Cuts(t, sign) \/ k = n + m + 3
    <2>1. ASSUME NEW k \in DOMAIN h, h[k] = sign PROVE k \in Cuts(t, sign)
        <3>1. CASE k > n + 2
            <4>1. k - (n + 2) \in 1..m /\ n + 2 + (k - (n + 2)) = k
                BY <1>1, <1>2, <3>1
            <4>2. h[k] = y[k - (n + 2)] /\ k - (n + 2) \in DOMAIN y
                BY <1>1, <1>2, <4>1
            <4> QED BY <2>1, <4>2 DEF Lacks
        <3>2. CASE ~(k > n + 2)
            BY <1>1, <1>2, <2>1, <3>2 DEF Cuts
        <3> QED BY <3>1, <3>2
    <2>2. ASSUME NEW k \in Cuts(t, sign) PROVE k \in Cuts(h, sign)
        BY <1>1, <1>2, <2>2 DEF Cuts
    <2>3. n + m + 3 \in Cuts(h, sign)
        BY <1>1, <1>2 DEF Cuts
    <2>4. \A k \in Cuts(h, sign) :
             k = 0 \/ k = n + m + 3 \/ (k \in DOMAIN h /\ h[k] = sign)
        BY <1>1, <1>2 DEF Cuts
    <2>5. 0 \in Cuts(t, sign)
        BY DEF Cuts
    <2> QED BY <2>1, <2>2, <2>3, <2>4, <2>5
<1>5. n + 1 \in Cuts(t, sign) /\ n + 1 \in Cuts(h, sign) /\ n + m + 3 \in Cuts(h, sign)
    BY <1>1, <1>4 DEF Cuts
<1>6. \A i, j \in Cuts(t, sign) :
         /\ Adjacent(h, sign, i, j) <=> Adjacent(t, sign, i, j)
         /\ SubSeq(h, i + 1, j - 1) = SubSeq(t, i + 1, j - 1)
    <2> SUFFICES ASSUME NEW i \in Cuts(t, sign), NEW j \in Cuts(t, sign)
                 PROVE  /\ Adjacent(h, sign, i, j) <=> Adjacent(t, sign, i, j)
                        /\ SubSeq(h, i + 1, j - 1) = SubSeq(t, i + 1, j - 1)
        OBVIOUS
    <2>0. \A k : k = n + m + 3 => ~(k < j)
        BY <1>1, <1>3
    <2>1. Adjacent(h, sign, i, j) <=> Adjacent(t, sign, i, j)
        BY <1>4, <2>0 DEF Adjacent
    <2>2. i \in 0..(n + 1) /\ j - 1 \in -1..n
        BY <1>1, <1>3
    <2>3. SubSeq(h, i + 1, j - 1) = SubSeq(t, i + 1, j - 1)
        BY <1>1, <1>2, <2>2
    <2> QED BY <2>1, <2>3
<1>7. \A i \in Cuts(h, sign) : Adjacent(h, sign, i, n + m + 3) <=> i = n + 1
    <2>1. ASSUME NEW i \in Cuts(h, sign), Adjacent(h, sign, i, n + m + 3)
          PROVE  i = n + 1
        <3>1. i < n + m + 3 /\ ~(i < n + 1 /\ n + 1 < n + m + 3)
            BY <1>5, <2>1 DEF Adjacent
        <3>2. i \in Cuts(t, sign) \/ i = n + m + 3
            BY <1>4
        <3>3. i \in 0..(n + 1)
            BY <1>1, <1>3, <3>1, <3>2
        <3> QED BY <1>1, <3>1, <3>3
    <2>2. n + 1 < n + m + 3
        BY <1>1
    <2>3. \A k \in Cuts(h, sign) : ~(n + 1 < k /\ k < n + m + 3)
        <3> SUFFICES ASSUME NEW k \in Cuts(h, sign)
                     PROVE  ~(n + 1 < k /\ k < n + m + 3)
            OBVIOUS
        <3>1. CASE k \in Cuts(t, sign)
            BY <1>1, <1>3, <3>1
        <3>2. CASE k = n + m + 3
            BY <1>1, <3>2
        <3> QED BY <1>4, <3>1, <3>2
    <2> QED BY <2>1, <2>2, <2>3 DEF Adjacent
<1>8. \A j \in Cuts(h, sign) : ~Adjacent(h, sign, n + m + 3, j)
    <2> SUFFICES ASSUME NEW j \in Cuts(h, sign)
                 PROVE  ~(n + m + 3 < j)
        BY DEF Adjacent
    <2>1. CASE j \in Cuts(t, sign)
        BY <1>1, <1>3, <2>1
    <2>2. CASE j = n + m + 3
        BY <1>1, <2>2
    <2> QED BY <1>4, <2>1, <2>2
<1>9. SubSeq(h, (n + 1) + 1, (n + m + 3) - 1) = <<blank>> \o y
    <2>1. PICK p, q : p = (n + 1) + 1 /\ q = (n + m + 3) - 1
        OBVIOUS
    <2>2. p = n + 2 /\ q = n + m + 2
        BY <1>1, <2>1
    <2>3. Len(SubSeq(h, p, q)) = m + 1 /\ Len(<<blank>> \o y) = m + 1
        BY <1>1, <1>2, <2>2
    <2>4. ASSUME NEW i \in 1..(m + 1)
          PROVE  SubSeq(h, p, q)[i] = (<<blank>> \o y)[i]
        <3>1. SubSeq(h, p, q)[i] = h[n + 1 + i]
            <4>1. p \in Int /\ q \in Int /\ i \in 1..(q - p + 1) /\ p + i - 1 = n + 1 + i
                BY <1>1, <2>2
            <4>2. SubSeq(h, p, q)[i] = h[p + i - 1]
                BY <4>1, SubSeqAt
            <4> QED BY <4>1, <4>2
        <3>2. CASE i = 1
            <4>1. n + 1 + i = n + 2
                BY <1>1, <3>2
            <4>2. (<<blank>> \o y)[1] = blank
                OBVIOUS
            <4> QED BY <1>2, <3>1, <3>2, <4>1, <4>2
        <3>3. CASE i > 1
            <4>1. i - 1 \in 1..m /\ n + 2 + (i - 1) = n + 1 + i
                BY <1>1, <3>3
            <4>2. h[n + 1 + i] = y[i - 1]
                BY <1>2, <4>1
            <4>3. (<<blank>> \o y)[i] = y[i - 1]
                BY <1>1, <3>3
            <4> QED BY <3>1, <4>2, <4>3
        <3>4. i = 1 \/ i > 1
            BY <1>1
        <3> QED BY <3>2, <3>3, <3>4
    <2>5. SubSeq(h, p, q) \in Seq(T) /\ <<blank>> \o y \in Seq(T)
        BY <1>1, <1>2, <2>2
    <2>6. SubSeq(h, p, q) = <<blank>> \o y
        <3>1. \A u, v \in Seq(T) :
                 /\ Len(u) = Len(v)
                 /\ \A i \in 1..Len(u) : u[i] = v[i]
                 => u = v
            <4> SUFFICES ASSUME NEW u \in Seq(T), NEW v \in Seq(T), Len(u) = Len(v),
                                \A i \in 1..Len(u) : u[i] = v[i]
                         PROVE  u = v
                OBVIOUS
            <4>1. /\ u = [i \in 1..Len(u) |-> u[i]]
                  /\ v = [i \in 1..Len(v) |-> v[i]]
                OBVIOUS
            <4> QED BY <4>1
        <3> QED BY <2>3, <2>4, <2>5, <3>1
    <2> QED BY <2>1, <2>6
<1>10. ASSUME NEW x, Piece(h, sign, x) PROVE Piece(t, sign, x) \/ x = <<blank>> \o y
    <2>1. PICK i, j \in Cuts(h, sign) :
             Adjacent(h, sign, i, j) /\ x = SubSeq(h, i + 1, j - 1)
        BY <1>10 DEF Piece
    <2>2. i \in Cuts(t, sign)
        BY <1>4, <1>8, <2>1
    <2>3. CASE j = n + m + 3
        BY <1>7, <1>9, <2>1, <2>3
    <2>4. CASE j \in Cuts(t, sign)
        BY <1>6, <2>1, <2>2, <2>4 DEF Piece
    <2> QED BY <1>4, <2>3, <2>4
<1>11. ASSUME NEW x, Piece(t, sign, x) PROVE Piece(h, sign, x)
    BY <1>4, <1>6, <1>11 DEF Piece
<1>12. Piece(h, sign, <<blank>> \o y)
    BY <1>5, <1>7, <1>9 DEF Piece
<1> QED BY <1>10, <1>11, <1>12

(* A sign before a text of few signs.                                      *)
LEMMA BeforeThree ==
    ASSUME NEW T, NEW x \in T, NEW q \in T, NEW d \in T
    PROVE  <<x>> \o <<q, d, q>> = <<x, q, d, q>>
<1>1. PICK r, s, v : r = <<x>> /\ s = <<q, d, q>> /\ v = <<x, q, d, q>>
    OBVIOUS
<1>2. r \in Seq(T) /\ s \in Seq(T) /\ Len(r) = 1 /\ Len(s) = 3
    BY <1>1
<1>3. r \o s \in Seq(T) /\ Len(r \o s) = 4
    <2>1. r \o s \in Seq(T) /\ Len(r \o s) = Len(r) + Len(s)
        BY <1>2, ConcatProperties
    <2> QED BY <1>2, <2>1
<1>4. (r \o s)[1] = x /\ (r \o s)[2] = q /\ (r \o s)[3] = d /\ (r \o s)[4] = q
    BY <1>1, <1>2
<1>5. /\ v \in Seq(T) /\ Len(v) = 4
      /\ v[1] = x /\ v[2] = q /\ v[3] = d /\ v[4] = q
    BY <1>1
<1>6. ASSUME NEW i \in 1..4 PROVE (r \o s)[i] = v[i]
    <2>1. i = 1 \/ i = 2 \/ i = 3 \/ i = 4
        OBVIOUS
    <2> QED BY <1>4, <1>5, <2>1
<1> QED BY <1>1, <1>3, <1>5, <1>6, SeqEqual

LEMMA BeforeFour ==
    ASSUME NEW T, NEW x \in T, NEW w \in T, NEW q \in T, NEW d \in T
    PROVE  <<x>> \o <<w, q, d, q>> = <<x, w, q, d, q>>
<1>1. PICK r, s, v : r = <<x>> /\ s = <<w, q, d, q>> /\ v = <<x, w, q, d, q>>
    OBVIOUS
<1>2. r \in Seq(T) /\ s \in Seq(T) /\ Len(r) = 1 /\ Len(s) = 4
    BY <1>1
<1>3. r \o s \in Seq(T) /\ Len(r \o s) = 5
    <2>1. r \o s \in Seq(T) /\ Len(r \o s) = Len(r) + Len(s)
        BY <1>2, ConcatProperties
    <2> QED BY <1>2, <2>1
<1>4. (r \o s)[1] = x /\ (r \o s)[2] = w /\ (r \o s)[3] = q /\ (r \o s)[4] = d /\ (r \o s)[5] = q
    BY <1>1, <1>2
<1>5. /\ v \in Seq(T) /\ Len(v) = 5
      /\ v[1] = x /\ v[2] = w /\ v[3] = q /\ v[4] = d /\ v[5] = q
    BY <1>1
<1>6. ASSUME NEW i \in 1..5 PROVE (r \o s)[i] = v[i]
    <2>1. i = 1 \/ i = 2 \/ i = 3 \/ i = 4 \/ i = 5
        OBVIOUS
    <2> QED BY <1>4, <1>5, <2>1
<1> QED BY <1>1, <1>3, <1>5, <1>6, SeqEqual

LEMMA TwoSigns ==
    ASSUME NEW T, NEW x \in T, NEW y \in T
    PROVE  <<x, y>> \in Seq(T)
OBVIOUS

(* Both forms of a tag as texts.                                           *)
LEMMA TagTexts ==
    ASSUME NEW T, NEW w \in T, NEW q \in T, NEW d \in T, NEW comma,
           w # comma, q # comma, d # comma
    PROVE  /\ <<w, q, d, q>> \in Seq(T) /\ <<q, d, q>> \in Seq(T)
           /\ \A i \in DOMAIN <<w, q, d, q>> : <<w, q, d, q>>[i] # comma
           /\ \A i \in DOMAIN <<q, d, q>> : <<q, d, q>>[i] # comma
           /\ Tail(<<w, q, d, q>>) = <<q, d, q>>
<1>1. <<w, q, d, q>> \in Seq(T) /\ <<q, d, q>> \in Seq(T)
    OBVIOUS
<1>2. /\ \A i \in DOMAIN <<w, q, d, q>> : <<w, q, d, q>>[i] # comma
      /\ \A i \in DOMAIN <<q, d, q>> : <<q, d, q>>[i] # comma
    OBVIOUS
<1>3. Tail(<<w, q, d, q>>) = <<q, d, q>>
    OBVIOUS
<1> QED BY <1>1, <1>2, <1>3

(* The signs of a header: strings, the literals among them named, since    *)
(* the provers do not know that these are strings.                         *)
Signs == STRING \cup {"W/", "\"", " ", ","}

(* The tag of a flag set, in either form, is one candidate, and is compared*)
(* by its digits.                                                          *)
LEMMA TagFacts ==
    ASSUME NEW fs \in FlagSets, NEW tag \in TagForms(fs)
    PROVE  /\ tag \in Seq(Signs)
           /\ Lacks(tag, ",")
           /\ Normalize(tag) = <<Digits(fs.parts)>>
           /\ Normalize(<<" ">> \o tag) = <<Digits(fs.parts)>>
           /\ Trim(tag, " ") # <<"*">>
           /\ Trim(<<" ">> \o tag, " ") # <<"*">>
<1>1. PICK d : d = Digits(fs.parts)
    OBVIOUS
<1>2. d \in STRING \ {" ", "W/", "\"", ",", "*"}
    BY <1>1, FlagSetsAssumption
<1>3. PICK w, q, blank, comma :
         w = "W/" /\ q = "\"" /\ blank = " " /\ comma = ","
    OBVIOUS
<1>4. /\ w \in Signs /\ q \in Signs /\ blank \in Signs /\ d \in Signs
      /\ w # comma /\ q # comma /\ d # comma
    BY <1>2, <1>3 DEF Signs
<1>5. TagOf[fs] = <<w, q, d, q>>
    BY <1>1, <1>3 DEF TagOf, WeakEtag
<1>6. tag = <<w, q, d, q>> \/ tag = <<q, d, q>>
    <2>1. Strong(TagOf[fs]) = <<q, d, q>>
        BY <1>4, <1>5, TagTexts DEF Strong
    <2> QED BY <1>5, <2>1 DEF TagForms
<1>7. tag \in Seq(Signs) /\ \A i \in DOMAIN tag : tag[i] # comma
    <2>1. /\ <<w, q, d, q>> \in Seq(Signs) /\ <<q, d, q>> \in Seq(Signs)
          /\ \A i \in DOMAIN <<w, q, d, q>> : <<w, q, d, q>>[i] # comma
          /\ \A i \in DOMAIN <<q, d, q>> : <<q, d, q>>[i] # comma
        BY <1>4, TagTexts
    <2>2. PICK u, v : u = <<w, q, d, q>> /\ v = <<q, d, q>>
        OBVIOUS
    <2>3. /\ u \in Seq(Signs) /\ \A i \in DOMAIN u : u[i] # comma
          /\ v \in Seq(Signs) /\ \A i \in DOMAIN v : v[i] # comma
        BY <2>1, <2>2
    <2>4. tag = u \/ tag = v
        BY <1>6, <2>2
    <2> QED BY <2>3, <2>4
<1>8. /\ <<blank>> \o <<w, q, d, q>> = <<blank, w, q, d, q>>
      /\ <<blank>> \o <<q, d, q>> = <<blank, q, d, q>>
    BY <1>4, BeforeThree, BeforeFour
<1>9. /\ Normalize(<<w, q, d, q>>) = <<d>> /\ Normalize(<<q, d, q>>) = <<d>>
      /\ Normalize(<<blank, w, q, d, q>>) = <<d>>
      /\ Normalize(<<blank, q, d, q>>) = <<d>>
    BY <1>2, <1>3, TagNormalized
<1>10. /\ Trim(<<w, q, d, q>>, " ") # <<"*">> /\ Trim(<<q, d, q>>, " ") # <<"*">>
       /\ Trim(<<blank, w, q, d, q>>, " ") # <<"*">>
       /\ Trim(<<blank, q, d, q>>, " ") # <<"*">>
    BY <1>2, <1>3, TagNormalized
<1>11. Normalize(tag) = <<d>> /\ Normalize(<<blank>> \o tag) = <<d>>
    BY <1>6, <1>8, <1>9
<1>12. Trim(tag, " ") # <<"*">> /\ Trim(<<blank>> \o tag, " ") # <<"*">>
    BY <1>6, <1>8, <1>10
<1> QED BY <1>1, <1>3, <1>7, <1>11, <1>12 DEF Lacks

(* What a header hits, by its candidates.                                  *)
Matches(c, x) == Trim(c, " ") = <<"*">> \/ Normalize(c) = Normalize(x)

LEMMA HitsByCandidate ==
    \A h, x : IfNoneMatchHits(h, x) <=> \E c : Piece(h, ",", c) /\ Matches(c, x)
BY CandidatesAre DEF IfNoneMatchHits, Matches

LEMMA HeaderHits ==
    ASSUME NEW tag \in Seq(Signs), Lacks(tag, ","), NEW x
    PROVE  /\ IfNoneMatchHits(tag, x) <=> Matches(tag, x)
           /\ \A t \in OtherTags :
                 IfNoneMatchHits(t \o <<",", " ">> \o tag, x) <=>
                    IfNoneMatchHits(t, x) \/ Matches(<<" ">> \o tag, x)
<1>1. PICK comma, blank : comma = "," /\ blank = " "
    OBVIOUS
<1>2. comma # blank /\ comma \in Signs /\ blank \in Signs
    BY <1>1 DEF Signs
<1>3. Lacks(tag, comma)
    BY <1>1
<1>4. IfNoneMatchHits(tag, x) <=> Matches(tag, x)
    <2>1. \A c : Piece(tag, comma, c) <=> c = tag
        BY <1>3, OnePiece
    <2> QED BY <1>1, <2>1, HitsByCandidate
<1>5. ASSUME NEW t \in OtherTags
      PROVE  IfNoneMatchHits(t \o <<",", " ">> \o tag, x) <=>
                IfNoneMatchHits(t, x) \/ Matches(<<" ">> \o tag, x)
    <2>1. t \in Seq(Signs)
        BY OtherTagsAssumption, SeqMonotonic DEF Signs
    <2>2. PICK h : h = t \o <<comma, blank>> \o tag
        OBVIOUS
    <2>3. h \in Seq(Signs)
        <3>1. <<comma, blank>> \in Seq(Signs)
            BY <1>2, TwoSigns
        <3> QED BY <2>1, <2>2, <3>1, ConcatProperties
    <2>4. \A c : Piece(h, comma, c) <=> Piece(t, comma, c) \/ c = <<blank>> \o tag
        BY <1>2, <1>3, <2>1, <2>2, <2>3, LastPiece
    <2> QED BY <1>1, <2>2, <2>4, HitsByCandidate
<1> QED BY <1>4, <1>5

(* No header hits nothing, a star everything, and the tag of a flag set,   *)
(* in whichever form and beside which others, hits its own.                *)
LEMMA TagMatches ==
    ASSUME NEW fs \in FlagSets, NEW gs \in FlagSets, NEW tag \in TagForms(gs)
    PROVE  /\ Matches(tag, TagOf[fs]) <=> Digits(gs.parts) = Digits(fs.parts)
           /\ Matches(<<" ">> \o tag, TagOf[fs]) <=> Digits(gs.parts) = Digits(fs.parts)
<1>1. /\ Normalize(tag) = <<Digits(gs.parts)>>
      /\ Normalize(<<" ">> \o tag) = <<Digits(gs.parts)>>
      /\ Trim(tag, " ") # <<"*">> /\ Trim(<<" ">> \o tag, " ") # <<"*">>
    BY TagFacts
<1>2. TagOf[fs] \in TagForms(fs)
    BY DEF TagForms
<1>3. Normalize(TagOf[fs]) = <<Digits(fs.parts)>>
    BY <1>2, TagFacts
<1>4. \A x, y : <<x>> = <<y>> <=> x = y
    OBVIOUS
<1> QED BY <1>1, <1>3, <1>4 DEF Matches

LEMMA OwnTagHits ==
    ASSUME NEW fs \in FlagSets, NEW tag \in TagForms(fs)
    PROVE  /\ IfNoneMatchHits(tag, TagOf[fs])
           /\ \A t \in OtherTags : IfNoneMatchHits(t \o <<",", " ">> \o tag, TagOf[fs])
BY TagFacts, TagMatches, HeaderHits

LEMMA NoHeaderHitsNothing ==
    ASSUME NEW fs \in FlagSets
    PROVE  ~IfNoneMatchHits(<<>>, TagOf[fs])
<1>1. PICK h : h = <<>>
    OBVIOUS
<1>2. h \in Seq(Signs) /\ Lacks(h, ",")
    BY <1>1 DEF Lacks
<1>3. TagOf[fs] \in TagForms(fs)
    BY DEF TagForms
<1>4. Normalize(TagOf[fs]) = <<Digits(fs.parts)>>
    BY <1>3, TagFacts
<1>5. Normalize(h) = <<>> /\ Trim(h, " ") # <<"*">>
    BY <1>1, FlagSetsAssumption, TagNormalized
<1>6. ~Matches(h, TagOf[fs])
    <2>1. ASSUME NEW x PROVE <<>> # <<x>>
        <3>1. \A u, v : u = v => Len(u) = Len(v)
            OBVIOUS
        <3>2. Len(<<>>) = 0 /\ Len(<<x>>) = 1
            OBVIOUS
        <3> QED BY <3>1, <3>2
    <2> QED BY <1>4, <1>5, <2>1 DEF Matches
<1>7. ~IfNoneMatchHits(h, TagOf[fs])
    BY <1>2, <1>6, HeaderHits
<1> QED BY <1>1, <1>7

LEMMA StarHitsAll ==
    ASSUME NEW fs \in FlagSets
    PROVE  IfNoneMatchHits(<<" ", "*">>, TagOf[fs])
<1>1. PICK blank, star, comma : blank = " " /\ star = "*" /\ comma = ","
    OBVIOUS
<1>2. blank # comma /\ star # comma
    BY <1>1
<1>3. PICK T : T = {blank, star}
    OBVIOUS
<1>4. PICK h : h = <<blank, star>>
    OBVIOUS
<1>5. h \in Seq(T) /\ Lacks(h, comma)
    BY <1>2, <1>3, <1>4 DEF Lacks
<1>6. Piece(h, comma, h)
    BY <1>5, OnePiece
<1>7. Trim(h, " ") = <<"*">>
    BY <1>1, <1>4, FlagSetsAssumption, TagNormalized
<1> QED BY <1>1, <1>4, <1>6, <1>7, HitsByCandidate DEF Matches

(* A header with a tag, alone or after others.                             *)
Tells(h, tag) == h = tag \/ \E t \in OtherTags : h = t \o <<",", " ">> \o tag

LEMMA OwnHeaderHits ==
    ASSUME NEW fs \in FlagSets, NEW tag \in TagForms(fs), NEW h, Tells(h, tag)
    PROVE  IfNoneMatchHits(h, TagOf[fs])
BY OwnTagHits DEF Tells

(* When no two flag sets of the server have one tag and no tag of another  *)
(* server is taken for one of them, the tag of a flag set hits no other.   *)
TagsTellApart ==
    /\ \A f, g \in FlagSets : Digits(f.parts) = Digits(g.parts) => f = g
    /\ \A t \in OtherTags, fs \in FlagSets : ~IfNoneMatchHits(t, TagOf[fs])

LEMMA OtherTagMisses ==
    ASSUME TagsTellApart, NEW fs \in FlagSets, NEW gs \in FlagSets,
           NEW tag \in TagForms(gs), NEW h, Tells(h, tag),
           IfNoneMatchHits(h, TagOf[fs])
    PROVE  gs = fs
<1>1. Matches(tag, TagOf[fs]) \/ Matches(<<" ">> \o tag, TagOf[fs])
    <2>1. tag \in Seq(Signs) /\ Lacks(tag, ",")
        BY TagFacts
    <2>2. CASE h = tag
        BY <2>1, <2>2, HeaderHits
    <2>3. CASE \E t \in OtherTags : h = t \o <<",", " ">> \o tag
        <3>1. PICK t \in OtherTags : h = t \o <<",", " ">> \o tag
            BY <2>3
        <3>2. ~IfNoneMatchHits(t, TagOf[fs])
            BY DEF TagsTellApart
        <3>3. IfNoneMatchHits(t \o <<",", " ">> \o tag, TagOf[fs]) <=>
                 IfNoneMatchHits(t, TagOf[fs]) \/ Matches(<<" ">> \o tag, TagOf[fs])
            BY <2>1, HeaderHits
        <3> QED BY <3>1, <3>2, <3>3
    <2> QED BY <2>2, <2>3 DEF Tells
<1>2. Digits(gs.parts) = Digits(fs.parts)
    BY <1>1, TagMatches
<1> QED BY <1>2 DEF TagsTellApart

-----------------------------------------------------------------------------
(* The inductive invariant.  What a request still says of what was asked:  *)
(* the whole of it, unless an attribute without a key beside it is named   *)
(* like the key.                                                           *)
Carries(c) ==
    \/ c = asked
    \/ asked.targeting_key = None /\ KeyField \in DOMAIN asked.attributes

RequestParts ==
    /\ request = [flag |-> request.flag, header |-> request.header,
                  body |-> request.body]
    /\ request.flag \in Flags \cup {None}

ResponseParts ==
    response = [status |-> response.status, tag |-> response.tag,
                body |-> response.body]

(* What is held came from one flag set.                                    *)
HeldFits ==
    held # None => /\ held.of \in FlagSets
                   /\ held.tag \in TagForms(held.of)
                   /\ held.entries = AsRead(held.of.entries)

(* A header names what is held.                                            *)
HeaderFits ==
    \/ request.header = <<>>
    \/ /\ held # None
       /\ request.flag = None
       /\ request.header = <<" ", "*">> \/ Tells(request.header, held.tag)

OnTheWay ==
    /\ stage = "request" =>
          \E c \in Contexts : request.body = ContextJson(c) /\ Carries(c)
    /\ stage = "serving" => seen \in Contexts /\ Carries(seen)
    /\ stage \in {"building", "request", "serving"} => served = None
    /\ stage # "received" => HeaderFits

(* What the answer says, and then what the provider makes of it.           *)
Answered(entries) ==
    \/ served = None /\ response.status = 400 /\ response.tag = <<>> /\ entries = <<>>
    \/ /\ served \in FlagSets
       /\ request.flag = None
       /\ response.tag \in TagForms(served)
       /\ response.status = 200
       /\ entries = served.entries
       /\ stage = "response" => ~IfNoneMatchHits(request.header, TagOf[served])
    \/ /\ served \in FlagSets
       /\ request.flag = None
       /\ response.tag \in TagForms(served)
       /\ response.status = 304
       /\ entries = <<>>
       /\ HeaderFits
       /\ IfNoneMatchHits(request.header, TagOf[served])
    \/ /\ served \in FlagSets
       /\ request.flag \in Flags
       /\ response.tag = <<>>
       /\ response.status = StatusOf(AnswerTo(served, request.flag))
       /\ entries = <<AnswerTo(served, request.flag)>>

Response ==
    stage = "response" =>
        \E entries \in Seq(Entries) :
            Answered(entries) /\ BulkOf(response.body) = AsRead(entries)

Taken(entries) ==
    CASE response.status = 200 -> [outcome |-> "flags", entries |-> AsRead(entries)]
      [] response.status = 304 -> [outcome |-> "flags", entries |-> held.entries]
      [] response.status = 404 -> [outcome |-> "fallback", entries |-> <<>>]
      [] OTHER -> [outcome |-> "error", entries |-> <<>>]

Received ==
    stage = "received" =>
        \E entries \in Seq(Entries) : Answered(entries) /\ got = Taken(entries)

IInv ==
    /\ current \in FlagSets
    /\ stage \in {"building", "request", "serving", "response", "received"}
    /\ asked \in Contexts
    /\ seen \in Contexts \cup {None}
    /\ served \in FlagSets \cup {None}
    /\ response.status \in {0, 200, 304, 400, 404, 500}
    /\ hops \in 0..MaxHops
    /\ stage # "received" => got = Nothing
    /\ RequestParts
    /\ ResponseParts
    /\ HeldFits
    /\ OnTheWay
    /\ Response
    /\ Received


LEMMA ContextsBuilt ==
    /\ \A k \in Subjects \cup {None} : NewContext(k) \in Contexts
    /\ \A c \in Contexts, n \in Names, v \in Json : WithAttribute(c, n, v) \in Contexts
<1>1. ASSUME NEW k \in Subjects \cup {None} PROVE NewContext(k) \in Contexts
    <2>1. {} \in {T \in SUBSET Names : IsFiniteSet(T)}
        BY FS_EmptySet
    <2>2. [n \in {} |-> Null] \in [{} -> Json]
        OBVIOUS
    <2> QED BY <2>1, <2>2 DEF NewContext, Contexts
<1>2. ASSUME NEW c \in Contexts, NEW n \in Names, NEW v \in Json
      PROVE  WithAttribute(c, n, v) \in Contexts
    <2> DEFINE S == DOMAIN c.attributes \cup {n}
               a == [x \in S |-> IF x = n THEN v ELSE c.attributes[x]]
    <2>1. S \in {T \in SUBSET Names : IsFiniteSet(T)}
        BY ContextParts, FS_AddElement
    <2>2. a \in [S -> Json]
        BY ContextParts
    <2>3. WithAttribute(c, n, v) = [targeting_key |-> c.targeting_key, attributes |-> a]
        <3>1. WithAttribute(c, n, v) = [c EXCEPT !.attributes = a]
            BY DEF WithAttribute
        <3> QED BY <3>1, ContextParts
    <2> QED BY <2>1, <2>2, <2>3, ContextParts DEF Contexts
<1> QED BY <1>1, <1>2

LEMMA Answers ==
    ASSUME NEW fs \in FlagSets, NEW k \in Flags
    PROVE  /\ AnswerTo(fs, k) \in Entries
           /\ StatusOf(AnswerTo(fs, k)) \in {200, 400, 404, 500}
<1>1. AnswerTo(fs, k) \in Entries
    <2>1. CASE EntriesFor(fs, k) = {}
        BY <2>1 DEF AnswerTo, FlagNotFound, Failure, Entries, Failures, ErrorCodes
    <2>2. CASE EntriesFor(fs, k) # {}
        <3>1. AnswerTo(fs, k) \in EntriesFor(fs, k)
            BY <2>2 DEF AnswerTo
        <3>2. fs.entries \in Seq(Entries)
            BY FlagSetsAssumption
        <3>3. \A i \in DOMAIN fs.entries : fs.entries[i] \in Entries
            BY <3>2
        <3>4. EntriesFor(fs, k) \subseteq Entries
            BY <3>3 DEF EntriesFor, ToSet
        <3> QED BY <3>1, <3>4
    <2> QED BY <2>1, <2>2
<1> QED BY <1>1 DEF StatusOf, StatusFor

(* The lemmas that the steps need, for every flag set.                     *)
LEMMA FlagSetFacts ==
    \A fs \in FlagSets :
        /\ fs.entries \in Seq(Entries)
        /\ AsRead(fs.entries) \in Seq(Entries)
        /\ AsRead(AsRead(fs.entries)) = AsRead(fs.entries)
        /\ BulkOf(BulkJson(fs.entries)) = AsRead(fs.entries)
        /\ ~IfNoneMatchHits(<<>>, TagOf[fs])
        /\ \A k \in Flags :
              /\ AnswerTo(fs, k) \in Entries
              /\ StatusOf(AnswerTo(fs, k)) \in {200, 400, 404, 500}
<1> SUFFICES ASSUME NEW fs \in FlagSets
             PROVE  /\ fs.entries \in Seq(Entries)
                    /\ AsRead(fs.entries) \in Seq(Entries)
                    /\ AsRead(AsRead(fs.entries)) = AsRead(fs.entries)
                    /\ BulkOf(BulkJson(fs.entries)) = AsRead(fs.entries)
                    /\ ~IfNoneMatchHits(<<>>, TagOf[fs])
                    /\ \A k \in Flags :
                          /\ AnswerTo(fs, k) \in Entries
                          /\ StatusOf(AnswerTo(fs, k)) \in {200, 400, 404, 500}
    OBVIOUS
<1>1. fs.entries \in Seq(Entries)
    BY FlagSetsAssumption
<1>2. /\ AsRead(fs.entries) \in Seq(Entries)
      /\ AsRead(AsRead(fs.entries)) = AsRead(fs.entries)
      /\ BulkOf(BulkJson(fs.entries)) = AsRead(fs.entries)
    BY <1>1, BulkRoundTrip
<1>3. ~IfNoneMatchHits(<<>>, TagOf[fs])
    BY NoHeaderHitsNothing
<1>4. \A k \in Flags : /\ AnswerTo(fs, k) \in Entries
                       /\ StatusOf(AnswerTo(fs, k)) \in {200, 400, 404, 500}
    BY Answers
<1> QED BY <1>1, <1>2, <1>3, <1>4

(* So a header that hits names what is held.                               *)
LEMMA HitMeansHeld ==
    ASSUME HeaderFits, served \in FlagSets,
           IfNoneMatchHits(request.header, TagOf[served])
    PROVE  held # None
<1>1. request.header = <<>> => FALSE
    <2> SUFFICES ASSUME request.header = <<>> PROVE FALSE
        OBVIOUS
    <2>1. IfNoneMatchHits(<<>>, TagOf[served])
        BY Zenon
    <2> QED BY <2>1, FlagSetFacts
<1> QED BY <1>1 DEF HeaderFits

LEMMA Init_IInv == Init => IInv
<1> SUFFICES ASSUME Init PROVE IInv
    OBVIOUS
<1>1. asked \in Contexts
    BY ContextsBuilt DEF Init
<1>2. RequestParts /\ ResponseParts /\ HeldFits
    BY DEF Init, RequestParts, ResponseParts, HeldFits, NoRequest, NoResponse
<1>3. OnTheWay /\ Response /\ Received
    BY DEF Init, OnTheWay, HeaderFits, NoRequest, Response, Received
<1> QED BY <1>1, <1>2, <1>3, MaxHopsAssumption DEF Init, IInv, NoResponse

(* The type of every value the state holds.                                *)
LEMMA IInv_TypeOK == IInv => TypeOK
<1> SUFFICES ASSUME IInv PROVE TypeOK
    OBVIOUS
<1>1. held # None => held.entries \in Seq(Entries) /\ AsRead(held.entries) = held.entries
    BY FlagSetFacts DEF IInv, HeldFits
<1>2. /\ got \in [outcome : {"none", "flags", "fallback", "error"}, entries : Seq(Entries)]
      /\ AsRead(got.entries) = got.entries
    <2>1. <<>> \in Seq(Entries) /\ AsRead(<<>>) = <<>>
        BY DEF AsRead
    <2>2. CASE stage # "received"
        <3>1. got = [outcome |-> "none", entries |-> <<>>]
            BY <2>2 DEF IInv, Nothing
        <3> QED BY <2>1, <3>1
    <2>3. CASE stage = "received"
        <3>1. PICK entries \in Seq(Entries) :
                 Answered(entries) /\ got = Taken(entries)
            BY <2>3 DEF IInv, Received
        <3>2. response.status = 304 => held # None
            <4>1. response.status = 304 /\ request.flag \in Flags => FALSE
                BY <3>1, FlagSetFacts, MarksAssumption DEF Answered
            <4> QED BY <3>1, <4>1, HitMeansHeld DEF Answered
        <3>3. AsRead(entries) \in Seq(Entries) /\ AsRead(AsRead(entries)) = AsRead(entries)
            BY <3>1, BulkRoundTrip
        <3> QED BY <1>1, <2>1, <3>1, <3>2, <3>3 DEF Taken
    <2> QED BY <2>2, <2>3
<1>3. held # None => /\ held.of \in FlagSets /\ held.tag \in TagForms(held.of)
                     /\ held.entries \in Seq(Entries)
    BY <1>1 DEF IInv, HeldFits
<1> QED BY <1>2, <1>3 DEF IInv, TypeOK, RequestParts

(* Every step keeps the invariant.  What holds in every stage but the last *)
(* two is kept together.                                                   *)
LEMMA BeforeAnswer ==
    ASSUME current' \in FlagSets, stage' \in {"building", "request", "serving"},
           asked' \in Contexts, seen' \in Contexts \cup {None}, served' = None,
           response'.status \in {0, 200, 304, 400, 404, 500}, hops' \in 0..MaxHops,
           got' = Nothing, RequestParts', ResponseParts', HeldFits', OnTheWay'
    PROVE  IInv'
BY DEF IInv, Response, Received

LEMMA HeaderKept ==
    ASSUME HeaderFits, request'.flag = request.flag,
           request'.header = request.header, held' = held
    PROVE  HeaderFits'
<1>1. CASE request.header = <<>>
    BY <1>1 DEF HeaderFits
<1>2. CASE request.header # <<>>
    <2>1. held' # None /\ request'.flag = None
        BY <1>2 DEF HeaderFits
    <2>2. request.header = <<" ", "*">> \/ Tells(request.header, held.tag)
        BY <1>2 DEF HeaderFits
    <2> QED BY <2>1, <2>2, Zenon DEF HeaderFits
<1> QED BY <1>1, <1>2

LEMMA With_IInv ==
    ASSUME IInv, NEW n \in Names, NEW v \in Json, With(n, v)
    PROVE  IInv'
<1>1. asked' \in Contexts
    BY ContextsBuilt DEF IInv, With
<1>2. RequestParts' /\ ResponseParts' /\ HeldFits'
    BY DEF IInv, With, RequestParts, ResponseParts, HeldFits
<1>3. OnTheWay'
    BY DEF IInv, With, OnTheWay, HeaderFits
<1> QED BY <1>1, <1>2, <1>3, BeforeAnswer DEF IInv, With, OnTheWay

LEMMA Send_IInv ==
    ASSUME IInv, NEW flag \in Flags \cup {None}, NEW header,
           header # <<>> => flag = None /\ header \in Headers,
           Send(flag, header, ContextJson(asked))
    PROVE  IInv'
<1>1. RequestParts' /\ ResponseParts' /\ HeldFits'
    BY DEF IInv, Send, RequestParts, ResponseParts, HeldFits
<1>2. HeaderFits'
    BY DEF Send, HeaderFits, Headers, Tells
<1>3. OnTheWay'
    BY <1>2 DEF IInv, Send, OnTheWay, Carries
<1> QED BY <1>1, <1>3, BeforeAnswer DEF IInv, Send, OnTheWay

LEMMA RelayRequest_IInv ==
    ASSUME IInv, RelayRequest
    PROVE  IInv'
<1>1. PICK c \in Contexts : request.body = ContextJson(c) /\ Carries(c)
    BY DEF IInv, RelayRequest, OnTheWay
<1>2. PICK d : d = ContextOf(ContextJson(c))
    OBVIOUS
<1>3. d \in Contexts
    BY <1>1, <1>2, ContextReadType DEF RelayRequest
<1>4. d = c \/ (c.targeting_key = None /\ KeyField \in DOMAIN c.attributes)
    BY <1>1, <1>2, ContextRoundTrip, DuplicateRefused DEF RelayRequest
<1>5. Carries(d)
    BY <1>1, <1>4 DEF Carries
<1>6. /\ request' = [flag |-> request.flag, header |-> request.header,
                     body |-> ContextJson(d)]
      /\ request'.flag = request.flag /\ request'.header = request.header
      /\ request'.body = ContextJson(d)
    BY <1>1, <1>2 DEF IInv, RelayRequest, RequestParts
<1>7. RequestParts' /\ ResponseParts' /\ HeldFits'
    BY <1>6 DEF IInv, RelayRequest, RequestParts, ResponseParts, HeldFits
<1>8. HeaderFits'
    BY <1>6, HeaderKept DEF IInv, RelayRequest, OnTheWay
<1>9. OnTheWay'
    BY <1>3, <1>5, <1>6, <1>8 DEF IInv, RelayRequest, OnTheWay, Carries
<1>10. hops' \in 0..MaxHops
    BY MaxHopsAssumption DEF IInv, RelayRequest
<1> QED BY <1>7, <1>9, <1>10, BeforeAnswer DEF IInv, RelayRequest, OnTheWay

LEMMA Read_IInv ==
    ASSUME IInv, Read
    PROVE  IInv'
<1>1. PICK c \in Contexts : request.body = ContextJson(c) /\ Carries(c)
    BY DEF IInv, Read, OnTheWay
<1>2. PICK d : d = ContextOf(ContextJson(c))
    OBVIOUS
<1>3. d \in Contexts
    BY <1>1, <1>2, ContextReadType DEF Read
<1>4. d = c \/ (c.targeting_key = None /\ KeyField \in DOMAIN c.attributes)
    BY <1>1, <1>2, ContextRoundTrip, DuplicateRefused DEF Read
<1>5. Carries(d) /\ seen' = d
    BY <1>1, <1>2, <1>4 DEF Carries, Read
<1>6. /\ request' = [flag |-> request.flag, header |-> request.header, body |-> <<>>]
      /\ request'.flag = request.flag /\ request'.header = request.header
    BY DEF IInv, Read, RequestParts
<1>7. RequestParts' /\ ResponseParts' /\ HeldFits'
    BY <1>6 DEF IInv, Read, RequestParts, ResponseParts, HeldFits
<1>8. HeaderFits'
    BY <1>6, HeaderKept DEF IInv, Read, OnTheWay
<1>9. OnTheWay'
    BY <1>3, <1>5, <1>8 DEF IInv, Read, OnTheWay, Carries
<1> QED BY <1>3, <1>5, <1>7, <1>9, BeforeAnswer, MaxHopsAssumption DEF IInv, Read, OnTheWay

(* An answer, whatever it is, keeps what was asked for and what is held.   *)
LEMMA Respond_IInv ==
    ASSUME IInv, stage \in {"request", "serving"}, NEW status, NEW tag, NEW body,
           Respond(status, tag, body), status \in {200, 304, 400, 404, 500},
           served' \in FlagSets \cup {None},
           NEW entries \in Seq(Entries), Answered(entries)',
           BulkOf(body) = AsRead(entries)
    PROVE  IInv'
<1>1. /\ request' = [flag |-> request.flag, header |-> request.header, body |-> <<>>]
      /\ request'.flag = request.flag /\ request'.header = request.header
    BY DEF IInv, Respond, RequestParts
<1>2. response' = [status |-> status, tag |-> tag, body |-> body]
    BY DEF Respond
<1>3. RequestParts' /\ ResponseParts' /\ HeldFits'
    BY <1>1, <1>2 DEF IInv, Respond, RequestParts, ResponseParts, HeldFits
<1>4. HeaderFits'
    BY <1>1, HeaderKept DEF IInv, Respond, OnTheWay
<1>5. OnTheWay'
    BY <1>4 DEF Respond, OnTheWay
<1>6. Response' /\ Received'
    BY <1>2 DEF Respond, Response, Received
<1>7. asked' \in Contexts /\ got' = Nothing
    BY ContextsBuilt DEF IInv, Respond
<1> QED BY <1>2, <1>3, <1>5, <1>6, <1>7, MaxHopsAssumption DEF IInv, Respond

LEMMA Refuse_IInv ==
    ASSUME IInv, Refuse
    PROVE  IInv'
<1>1. PICK entries : entries = <<>>
    OBVIOUS
<1>2. entries \in Seq(Entries) /\ BulkOf(<<>>) = AsRead(entries)
    BY <1>1 DEF BulkOf, AsRead, ToSet
<1>3. served = None /\ served' = None
    BY DEF IInv, Refuse, OnTheWay
<1>4. Respond(400, <<>>, <<>>)
    BY DEF Refuse, StatusFor
<1>5. Answered(entries)'
    BY <1>1, <1>3, <1>4 DEF Answered, Respond
<1> QED BY <1>2, <1>3, <1>4, <1>5, Respond_IInv DEF Refuse

LEMMA AnswerBulk_IInv ==
    ASSUME IInv, AnswerBulk
    PROVE  IInv'
<1>1. PICK fs \in FlagSets : fs = current
    BY DEF IInv
<1>2. /\ served' = fs /\ request'.flag = None
      /\ request'.flag = request.flag /\ request'.header = request.header
    BY <1>1 DEF IInv, AnswerBulk, Respond, RequestParts
<1>3. TagOf[fs] \in TagForms(fs)
    BY DEF TagForms
<1>4. HeaderFits'
    BY <1>2, HeaderKept DEF IInv, AnswerBulk, Respond, OnTheWay
<1>5. CASE IfNoneMatchHits(request.header, TagOf[fs])
    <2>1. Respond(304, TagOf[fs], <<>>)
        BY <1>1, <1>5 DEF AnswerBulk
    <2>2. PICK entries : entries = <<>>
        OBVIOUS
    <2>3. entries \in Seq(Entries) /\ BulkOf(<<>>) = AsRead(entries)
        BY <2>2 DEF BulkOf, AsRead, ToSet
    <2>4. response'.tag = TagOf[fs] /\ response'.status = 304
        BY <2>1 DEF Respond
    <2>5. Answered(entries)'
        BY <1>2, <1>3, <1>4, <1>5, <2>2, <2>4 DEF Answered
    <2> QED BY <1>2, <2>1, <2>3, <2>5, Respond_IInv DEF AnswerBulk
<1>6. CASE ~IfNoneMatchHits(request.header, TagOf[fs])
    <2>1. Respond(200, TagOf[fs], BulkJson(fs.entries))
        BY <1>1, <1>6 DEF AnswerBulk
    <2>2. fs.entries \in Seq(Entries) /\ BulkOf(BulkJson(fs.entries)) = AsRead(fs.entries)
        BY FlagSetFacts
    <2>3. response'.tag = TagOf[fs] /\ response'.status = 200
        BY <2>1 DEF Respond
    <2>4. Answered(fs.entries)'
        BY <1>2, <1>3, <1>6, <2>3 DEF Answered
    <2> QED BY <1>2, <2>1, <2>2, <2>4, Respond_IInv DEF AnswerBulk
<1> QED BY <1>5, <1>6

LEMMA AnswerSingle_IInv ==
    ASSUME IInv, AnswerSingle
    PROVE  IInv'
<1>1. PICK fs \in FlagSets, k \in Flags : fs = current /\ k = request.flag
    BY DEF IInv, AnswerSingle, RequestParts
<1>2. PICK e \in Entries : e = AnswerTo(fs, k)
    BY <1>1, FlagSetFacts
<1>3. Respond(StatusOf(e), <<>>, BulkJson(<<e>>))
    BY <1>1, <1>2 DEF AnswerSingle
<1>4. PICK entries : entries = <<e>>
    OBVIOUS
<1>5. entries \in Seq(Entries) /\ BulkOf(BulkJson(entries)) = AsRead(entries)
    <2>1. <<e>> \in Seq(Entries)
        BY <1>2
    <2> QED BY <1>4, <2>1, BulkRoundTrip
<1>6. /\ served' = fs /\ request'.flag = k
      /\ response'.tag = <<>> /\ response'.status = StatusOf(e)
    BY <1>1, <1>3 DEF IInv, AnswerSingle, Respond, RequestParts
<1>7. Answered(entries)'
    BY <1>1, <1>2, <1>4, <1>6 DEF Answered
<1>8. StatusOf(e) \in {200, 304, 400, 404, 500}
    BY <1>1, <1>2, FlagSetFacts
<1> QED BY <1>3, <1>4, <1>5, <1>6, <1>7, <1>8, Respond_IInv DEF AnswerSingle

(* Other flags at the server, or no step at all.                           *)
LEMMA FlagsChange_IInv ==
    ASSUME IInv, current' \in FlagSets,
           UNCHANGED <<stage, asked, request, seen, served, response, hops, got, held>>
    PROVE  IInv'
<1>1. RequestParts' /\ ResponseParts' /\ HeldFits'
    BY DEF IInv, RequestParts, ResponseParts, HeldFits
<1>2. HeaderFits => HeaderFits'
    BY HeaderKept
<1>3. OnTheWay'
    BY <1>2 DEF IInv, OnTheWay, Carries
<1>4. ASSUME NEW entries \in Seq(Entries), Answered(entries)
      PROVE  Answered(entries)'
    <2>1. IfNoneMatchHits(request.header, TagOf[served])' <=>
             IfNoneMatchHits(request.header, TagOf[served])
        OBVIOUS
    <2> QED BY <1>2, <1>4, <2>1 DEF Answered
<1>5. Response'
    BY <1>4 DEF IInv, Response
<1>6. Received'
    <2> SUFFICES ASSUME stage = "received" PROVE Received'
        BY DEF Received
    <2>1. PICK entries \in Seq(Entries) :
             Answered(entries) /\ got = Taken(entries)
        BY DEF IInv, Received
    <2>2. Answered(entries)'
        BY <1>4, <2>1
    <2>3. got' = Taken(entries)'
        BY <2>1 DEF Taken
    <2> QED BY <2>2, <2>3 DEF Received
<1> QED BY <1>1, <1>3, <1>5, <1>6 DEF IInv

LEMMA Begin_IInv ==
    ASSUME IInv, NEW k \in Subjects \cup {None}, Begin(k)
    PROVE  IInv'
<1>1. asked' \in Contexts
    BY ContextsBuilt DEF Begin
<1>2. RequestParts' /\ ResponseParts' /\ HeldFits'
    BY DEF IInv, Begin, RequestParts, ResponseParts, HeldFits, NoRequest, NoResponse
<1>3. OnTheWay'
    BY DEF Begin, OnTheWay, HeaderFits, NoRequest
<1> QED BY <1>1, <1>2, <1>3, BeforeAnswer, MaxHopsAssumption DEF IInv, Begin, NoResponse

(* A relay can make a weak tag strong, and a strong one no stronger.       *)
LEMMA Strengthened ==
    \A fs \in FlagSets : \A tag \in TagForms(fs) :
        IsWeak(tag) => Strong(tag) \in TagForms(fs)
<1> SUFFICES ASSUME NEW fs \in FlagSets, NEW tag \in TagForms(fs), IsWeak(tag)
             PROVE  Strong(tag) \in TagForms(fs)
    OBVIOUS
<1>1. CASE tag = TagOf[fs]
    BY <1>1 DEF TagForms
<1>2. CASE tag = Strong(TagOf[fs])
    <2>1. PICK w, q, d : w = "W/" /\ q = "\"" /\ d = Digits(fs.parts)
        OBVIOUS
    <2>2. tag = <<q, d, q>>
        <3>1. TagOf[fs] = <<w, q, d, q>>
            BY <2>1 DEF TagOf, WeakEtag
        <3>2. Tail(<<w, q, d, q>>) = <<q, d, q>>
            OBVIOUS
        <3> QED BY <1>2, <3>1, <3>2 DEF Strong
    <2>3. Head(<<q, d, q>>) = q
        OBVIOUS
    <2>4. Head(tag) = w /\ w # q
        BY <2>1 DEF IsWeak
    <2> QED BY <2>2, <2>3, <2>4
<1> QED BY <1>1, <1>2 DEF TagForms

LEMMA RelayResponse_IInv ==
    ASSUME IInv, NEW strengthens \in BOOLEAN, RelayResponse(strengthens)
    PROVE  IInv'
<1>1. PICK entries \in Seq(Entries) :
         Answered(entries) /\ BulkOf(response.body) = AsRead(entries)
    BY DEF IInv, RelayResponse, Response
<1>2. /\ AsRead(entries) \in Seq(Entries)
      /\ BulkOf(BulkJson(AsRead(entries))) = AsRead(entries)
    <2>1. PICK read \in Seq(Entries) : read = AsRead(entries)
        BY <1>1, BulkRoundTrip
    <2>2. BulkOf(BulkJson(read)) = AsRead(read) /\ AsRead(read) = read
        BY <2>1, BulkRoundTrip
    <2> QED BY <2>1, <2>2
<1>3. PICK tag : tag = IF strengthens THEN Strong(response.tag) ELSE response.tag
    OBVIOUS
<1>4. response' = [status |-> response.status, tag |-> tag,
                   body |-> BulkJson(AsRead(entries))]
    BY <1>1, <1>3 DEF IInv, RelayResponse, ResponseParts
<1>5. /\ response'.status = response.status /\ response'.tag = tag
      /\ response'.body = BulkJson(AsRead(entries))
    BY <1>4
<1>6. response.tag = <<>> => tag = <<>>
    BY <1>3 DEF RelayResponse, IsWeak
<1>7. \A fs \in FlagSets : response.tag \in TagForms(fs) => tag \in TagForms(fs)
    BY <1>3, Strengthened DEF RelayResponse
<1>8. UNCHANGED <<stage, request, served, held, got, asked, seen, current>>
    BY DEF RelayResponse
<1>9. Answered(entries)'
    <2>1. HeaderFits => HeaderFits'
        BY <1>8, HeaderKept
    <2>2. IfNoneMatchHits(request.header, TagOf[served])' <=>
             IfNoneMatchHits(request.header, TagOf[served])
        BY <1>8
    <2> QED BY <1>1, <1>5, <1>6, <1>7, <1>8, <2>1, <2>2 DEF Answered
<1>10. Response' /\ Received'
    BY <1>1, <1>2, <1>5, <1>8, <1>9 DEF Response, Received, RelayResponse
<1>11. RequestParts' /\ HeldFits'
    BY <1>8 DEF IInv, RequestParts, HeldFits
<1>12. ResponseParts'
    BY <1>4, <1>5 DEF ResponseParts
<1>13. OnTheWay'
    BY <1>8, HeaderKept DEF IInv, OnTheWay, RelayResponse
<1>14. hops' \in 0..MaxHops
    BY MaxHopsAssumption DEF IInv, RelayResponse
<1> QED BY <1>5, <1>8, <1>10, <1>11, <1>12, <1>13, <1>14 DEF IInv, RelayResponse

LEMMA Receive_IInv ==
    ASSUME IInv, Receive
    PROVE  IInv'
<1>1. PICK entries \in Seq(Entries) :
         Answered(entries) /\ BulkOf(response.body) = AsRead(entries)
    BY DEF IInv, Receive, Response
<1>2. AsRead(entries) # Unreadable
    BY BulkRoundTrip
<1>3. UNCHANGED <<current, asked, request, seen, served, response>>
    BY DEF Receive
<1>4. got' = Taken(entries)
    BY <1>1, <1>2 DEF Receive, Reading, Taken
<1>5. CASE request.flag = None /\ response.status = 200
    <2>1. /\ served \in FlagSets /\ response.tag \in TagForms(served)
          /\ entries = served.entries
        BY <1>1, <1>5, MarksAssumption DEF Answered
    <2>2. Reading = [outcome |-> "flags", entries |-> AsRead(entries)]
        BY <1>1, <1>2, <1>5 DEF Reading
    <2>3. held' = [tag |-> response.tag, entries |-> AsRead(entries), of |-> served]
        BY <1>5, <2>2 DEF Receive
    <2>4. HeldFits'
        BY <2>1, <2>3 DEF HeldFits
    <2>5. Answered(entries)'
        BY <1>3, <1>5, <2>1 DEF Answered, Receive
    <2>6. Received'
        BY <1>3, <1>4, <1>5, <2>5 DEF Received, Taken
    <2> QED BY <1>3, <2>4, <2>6, MaxHopsAssumption
            DEF IInv, Receive, RequestParts, ResponseParts, OnTheWay, Response
<1>6. CASE ~(request.flag = None /\ response.status = 200)
    <2>1. held' = held
        BY <1>6 DEF Receive
    <2>2. HeldFits' /\ (HeaderFits => HeaderFits')
        BY <1>3, <2>1, HeaderKept DEF IInv, HeldFits
    <2>3. Answered(entries)'
        BY <1>1, <1>3, <2>2 DEF Answered, Receive
    <2>4. Received'
        BY <1>3, <1>4, <2>1, <2>3 DEF Received, Taken
    <2> QED BY <1>3, <2>2, <2>4, MaxHopsAssumption
            DEF IInv, Receive, RequestParts, ResponseParts, OnTheWay, Response
<1> QED BY <1>5, <1>6

LEMMA Next_IInv == IInv /\ [Next]_vars => IInv'
<1> SUFFICES ASSUME IInv, [Next]_vars PROVE IInv'
    OBVIOUS
<1>1. CASE UNCHANGED vars
    <2>1. current' \in FlagSets
        BY <1>1 DEF vars, IInv
    <2> QED BY <1>1, <2>1, FlagsChange_IInv DEF vars
<1>2. ASSUME NEW n \in Names, NEW v \in Json, With(n, v) PROVE IInv'
    BY <1>2, With_IInv
<1>3. ASSUME NEW flag \in Flags, SendSingle(flag) PROVE IInv'
    <2>1. Send(flag, <<>>, ContextJson(asked))
        BY <1>3 DEF SendSingle
    <2>2. PICK header : header = <<>>
        OBVIOUS
    <2> QED BY <2>1, <2>2, Send_IInv
<1>4. ASSUME NEW header \in Headers, SendBulk(header) PROVE IInv'
    BY <1>4, Send_IInv DEF SendBulk
<1>5. CASE SendForeign
    <2>1. Send(None, <<>>, ContextJson(asked))
        BY <1>5 DEF SendForeign, ContextJson, KeyField
    <2>2. PICK header : header = <<>>
        OBVIOUS
    <2> QED BY <2>1, <2>2, Send_IInv
<1>6. ASSUME NEW fs \in FlagSets, Change(fs) PROVE IInv'
    BY <1>6, FlagsChange_IInv DEF Change
<1>7. ASSUME NEW strengthens \in BOOLEAN, RelayResponse(strengthens) PROVE IInv'
    BY <1>7, RelayResponse_IInv
<1>8. ASSUME NEW k \in Subjects \cup {None}, Begin(k) PROVE IInv'
    BY <1>8, Begin_IInv
<1> QED BY <1>1, <1>2, <1>3, <1>4, <1>5, <1>6, <1>7, <1>8, RelayRequest_IInv,
           Refuse_IInv, Read_IInv, AnswerBulk_IInv, AnswerSingle_IInv, Receive_IInv
        DEF Next

(* The invariant holds in every exchange.                                  *)
THEOREM SpecIInv == Spec => []IInv
BY Init_IInv, Next_IInv, PTL DEF Spec

-----------------------------------------------------------------------------
(* What follows from it.  Every value has its type.                        *)
THEOREM TypeIsKept == Spec => []TypeOK
BY SpecIInv, IInv_TypeOK, PTL

(* The server reads the subject and all attributes of any context in which *)
(* no attribute is named like the key.                                     *)
THEOREM ContextIsWhole == Spec => []ContextArrivesWhole
<1>1. IInv => ContextArrivesWhole
    BY DEF IInv, OnTheWay, Carries, ContextArrivesWhole, KeyField
<1> QED BY <1>1, SpecIInv, PTL

(* No attribute makes the server evaluate for another subject.             *)
THEOREM SubjectIsKept == Spec => []NoOtherSubject
<1>1. IInv => NoOtherSubject
    BY DEF IInv, OnTheWay, Carries, NoOtherSubject
<1> QED BY <1>1, SpecIInv, PTL

(* The provider reads the entries that the server wrote.                   *)
THEOREM EntriesAreWhole == Spec => []EntriesArriveWhole
<1>1. IInv => EntriesArriveWhole
    <2> SUFFICES ASSUME IInv, AnsweredBulk, response.status # 304
                 PROVE  got.entries = AsRead(served.entries)
        BY DEF EntriesArriveWhole
    <2>1. PICK entries \in Seq(Entries) :
             /\ Answered(entries)
             /\ response.status = 200 =>
                   got = [outcome |-> "flags", entries |-> AsRead(entries)]
        BY DEF IInv, Received, AnsweredBulk, Taken
    <2> QED BY <2>1, MarksAssumption DEF AnsweredBulk, Answered
<1> QED BY <1>1, SpecIInv, PTL

(* A provider that names what it holds downloads it no second time.        *)
THEOREM NoDownloadIsNeedless == Spec => []NoNeedlessDownload
<1>1. IInv => NoNeedlessDownload
    <2> SUFFICES ASSUME IInv, stage = "response", request.header # <<>>,
                        served # None, response.status = 200, held.of = served
                 PROVE  FALSE
        BY DEF NoNeedlessDownload
    <2>1. /\ held # None /\ request.flag = None
          /\ request.header = <<" ", "*">> \/ Tells(request.header, held.tag)
        BY DEF IInv, OnTheWay, HeaderFits
    <2>2. served \in FlagSets /\ ~IfNoneMatchHits(request.header, TagOf[served])
        <3>1. \E entries \in Seq(Entries) : Answered(entries)
            BY DEF IInv, Response
        <3>2. request.flag \notin Flags
            BY <2>1, MarksAssumption
        <3> QED BY <3>1, <3>2 DEF Answered
    <2>3. PICK fs \in FlagSets : fs = served
        BY <2>2
    <2>7. PICK tag \in TagForms(fs) : tag = held.tag
        BY <2>1, <2>3 DEF IInv, HeldFits
    <2>4. PICK h : h = request.header
        OBVIOUS
    <2>5. h = <<" ", "*">> \/ Tells(h, tag)
        BY <2>1, <2>7, <2>4
    <2>6. IfNoneMatchHits(h, TagOf[fs])
        <3>1. CASE h = <<" ", "*">>
            BY <3>1, StarHitsAll
        <3>2. CASE Tells(h, tag)
            BY <3>2, OwnHeaderHits
        <3> QED BY <2>5, <3>1, <3>2
    <2> QED BY <2>2, <2>3, <2>4, <2>6
<1> QED BY <1>1, SpecIInv, PTL

(* What a single flag's answer means to the provider.                      *)
THEOREM OnlyMissingFallsBack == Spec => []OnlyMissingFlagFallsBack
<1>1. IInv => OnlyMissingFlagFallsBack
    <2> SUFFICES ASSUME IInv, stage = "received", request.flag # None, served # None
                 PROVE  LET found == EntriesFor(served, request.flag) IN
                        /\ found = {} => got.outcome = "fallback"
                        /\ \A e \in found :
                              IF ~IsFailure(e)
                              THEN got = [outcome |-> "flags", entries |-> AsRead(<<e>>)]
                              ELSE got.outcome = IF e.errorCode = "FLAG_NOT_FOUND"
                                                 THEN "fallback" ELSE "error"
        BY DEF OnlyMissingFlagFallsBack
    <2>1. PICK fs \in FlagSets, k \in Flags : fs = served /\ k = request.flag
        BY DEF IInv, RequestParts
    <2>2. PICK answer \in Entries : answer = AnswerTo(fs, k)
        BY <2>1, FlagSetFacts
    <2>3. PICK entries \in Seq(Entries) :
             Answered(entries) /\ got = Taken(entries)
        BY DEF IInv, Received
    <2>4. entries = <<answer>> /\ response.status = StatusOf(answer)
        BY <2>1, <2>2, <2>3, MarksAssumption DEF Answered
    <2>5. ~IsFailure(answer) =>
             got = [outcome |-> "flags", entries |-> AsRead(<<answer>>)]
        BY <2>3, <2>4 DEF StatusOf, Taken
    <2>6. IsFailure(answer) =>
             got.outcome = IF answer.errorCode = "FLAG_NOT_FOUND"
                           THEN "fallback" ELSE "error"
        BY <2>3, <2>4 DEF StatusOf, StatusFor, Taken
    <2>7. EntriesFor(fs, k) = {} => IsFailure(answer) /\ answer.errorCode = "FLAG_NOT_FOUND"
        BY <2>2 DEF AnswerTo, FlagNotFound, Failure, IsFailure
    <2>8. ASSUME NEW e \in EntriesFor(fs, k) PROVE e = answer
        <3>1. answer \in EntriesFor(fs, k)
            BY <2>2, <2>8 DEF AnswerTo
        <3>2. PICK i \in DOMAIN fs.entries, j \in DOMAIN fs.entries :
                 e = fs.entries[i] /\ answer = fs.entries[j]
            BY <2>8, <3>1 DEF EntriesFor, ToSet
        <3>3. e.key = answer.key
            BY <2>8, <3>1 DEF EntriesFor
        <3> QED BY <3>2, <3>3, FlagSetsAssumption
    <2> QED BY <2>1, <2>5, <2>6, <2>7, <2>8
<1> QED BY <1>1, SpecIInv, PTL

(* A provider that is told nothing changed shows what the server has, as   *)
(* long as the tags tell the flag sets apart: of a hash of 64 bits of any  *)
(* parts nobody can promise that, but nothing more is needed.              *)
THEOREM NothingChangedIsTrue ==
    ASSUME TagsTellApart
    PROVE  Spec => []NotModifiedIsTrue
<1>1. IInv => NotModifiedIsTrue
    <2> SUFFICES ASSUME IInv, AnsweredBulk, response.status = 304,
                        Last(request.header) # "*"
                 PROVE  got.entries = AsRead(served.entries)
        BY DEF NotModifiedIsTrue
    <2>1. PICK entries \in Seq(Entries) :
             /\ Answered(entries)
             /\ got = [outcome |-> "flags", entries |-> held.entries]
        BY DEF IInv, Received, AnsweredBulk, Taken
    <2>2. /\ served \in FlagSets /\ HeaderFits
          /\ IfNoneMatchHits(request.header, TagOf[served])
        BY <2>1, MarksAssumption DEF Answered, AnsweredBulk
    <2>3. held # None
        BY <2>2, HitMeansHeld
    <2>10. PICK fs \in FlagSets, gs \in FlagSets : fs = served /\ gs = held.of
        BY <2>2, <2>3 DEF IInv, HeldFits
    <2>11. PICK tag \in TagForms(gs) : tag = held.tag
        BY <2>3, <2>10 DEF IInv, HeldFits
    <2>4. fs = served /\ gs = held.of /\ tag = held.tag
        BY <2>10, <2>11
    <2>5. PICK h : h = request.header
        OBVIOUS
    <2>6. Tells(h, tag)
        <3>1. h # <<>>
            BY <2>2, <2>4, <2>5, FlagSetFacts
        <3>2. h # <<" ", "*">>
            <4>1. Last(<<" ", "*">>) = "*"
                BY DEF Last
            <4> QED BY <2>5, <4>1
        <3> QED BY <2>2, <2>4, <2>5, <3>1, <3>2 DEF HeaderFits
    <2>7. IfNoneMatchHits(h, TagOf[fs])
        BY <2>2, <2>4, <2>5
    <2>9. gs = fs
        BY <2>6, <2>7, OtherTagMisses
    <2> QED BY <2>1, <2>3, <2>4, <2>9 DEF IInv, HeldFits
<1> QED BY <1>1, SpecIInv, PTL
=============================================================================
