------------------------------- MODULE Ofrep -------------------------------
(***************************************************************************)
(* Evaluations over OFREP (ofrep.rs).  A provider builds a context and     *)
(* asks for one flag or for all of them, then with the tag of the answer   *)
(* it holds; relays on either way read each message and write it again; a  *)
(* server answers from flags that change; an exchange may be given up.     *)
(***************************************************************************)
EXTENDS OfrepOps, OfrepTags

CONSTANTS
    FlagSets,       \* what the server may hold: [parts, entries]
    OtherTags,      \* tags of other servers, as a header holds them
    MaxHops         \* bound: relays in each direction

(* The parts that identify a flag set are UTF-8, which has no byte 255; no *)
(* two flag sets of a server have the same.                                *)
ASSUME FlagSetsAssumption ==
    /\ \A fs \in FlagSets :
          /\ fs.parts \in Seq(Seq(0..254))
          /\ fs.entries \in Seq(Entries)
          /\ \A i, j \in DOMAIN fs.entries :
                fs.entries[i].key = fs.entries[j].key => i = j
          /\ Digits(fs.parts) \in STRING \ {" ", "W/", "\"", ",", "*"}
    /\ \A f, g \in FlagSets : f.parts = g.parts => f = g

ASSUME OtherTagsAssumption == OtherTags \subseteq Seq(STRING)

ASSUME MaxHopsAssumption == MaxHops \in Nat

VARIABLES
    current,        \* the flag set of the server
    stage,          \* "building", "request", "serving", "response", "received"
    asked,          \* the context of the provider
    request,        \* [flag, header, body]; None is asked for to have all flags
    seen,           \* the context as the server read it
    served,         \* the flag set it answered from
    response,       \* [status, tag, body]
    hops,           \* relays the message has passed
    got,            \* what the provider makes of the answer
    held            \* the flags it keeps: [tag, entries, of]

vars == <<current, stage, asked, request, seen, served, response, hops, got, held>>

NoRequest == [flag |-> None, header |-> <<>>, body |-> <<>>]
NoResponse == [status |-> 0, tag |-> <<>>, body |-> <<>>]
Nothing == [outcome |-> "none", entries |-> <<>>]

TagOf == [fs \in FlagSets |-> WeakEtag(fs.parts)]

(* The tag of a flag set as it stands in a header: relays may change it.   *)
TagForms(fs) == {TagOf[fs], Strong(TagOf[fs])}

(* All that is lost on the way back is metadata that is an explicit null.  *)
EntryAsRead(e) ==
    IF IsFailure(e) THEN e
    ELSE [e EXCEPT !.metadata = IF @ = Null THEN None ELSE @]

AsRead(entries) == [i \in DOMAIN entries |-> EntryAsRead(entries[i])]

TypeOK ==
    /\ current \in FlagSets
    /\ stage \in {"building", "request", "serving", "response", "received"}
    /\ asked \in Contexts
    /\ request.flag \in Flags \cup {None}
    /\ seen \in Contexts \cup {None}
    /\ served \in FlagSets \cup {None}
    /\ response.status \in {0, 200, 304, 400, 404, 500}
    /\ hops \in 0..MaxHops
    /\ got \in [outcome : {"none", "flags", "fallback", "error"},
                entries : Seq(Entries)]
    /\ AsRead(got.entries) = got.entries
    /\ held # None => /\ held.of \in FlagSets
                      /\ held.tag \in TagForms(held.of)
                      /\ held.entries \in Seq(Entries)

Init ==
    /\ current \in FlagSets
    /\ stage = "building"
    /\ asked \in {NewContext(k) : k \in Subjects \cup {None}}
    /\ request = NoRequest
    /\ seen = None
    /\ served = None
    /\ response = NoResponse
    /\ hops = 0
    /\ got = Nothing
    /\ held = None

-----------------------------------------------------------------------------
(* The provider asks.                                                      *)
With(n, v) ==
    /\ stage = "building"
    /\ asked' = WithAttribute(asked, n, v)
    /\ UNCHANGED <<current, stage, request, seen, served, response, hops, got, held>>

(* The tag of what it holds, alone or among others, or any tag at all.     *)
Headers ==
    IF held = None THEN {<<>>}
    ELSE {<<>>, held.tag, <<" ", "*">>}
            \cup {t \o <<",", " ">> \o held.tag : t \in OtherTags}

Send(flag, header, body) ==
    /\ stage = "building"
    /\ stage' = "request"
    /\ request' = [flag |-> flag, header |-> header, body |-> body]
    /\ UNCHANGED <<current, asked, seen, served, response, hops, got, held>>

SendSingle(flag) == Send(flag, <<>>, ContextJson(asked))

SendBulk(header) == Send(None, header, ContextJson(asked))

(* A provider of another vendor, which follows the protocol.               *)
SendForeign ==
    /\ "targetingKey" \notin DOMAIN asked.attributes
    /\ Send(None, <<>>, Members("targetingKey", asked))

RelayRequest ==
    /\ stage = "request"
    /\ hops < MaxHops
    /\ ContextOf(request.body) # Unreadable
    /\ request' = [request EXCEPT !.body = ContextJson(ContextOf(@))]
    /\ hops' = hops + 1
    /\ UNCHANGED <<current, stage, asked, seen, served, response, got, held>>

-----------------------------------------------------------------------------
(* The server answers; what it was asked is of no more use.                *)
Respond(status, tag, body) ==
    /\ stage' = "response"
    /\ response' = [status |-> status, tag |-> tag, body |-> body]
    /\ asked' = NewContext(None)
    /\ request' = [request EXCEPT !.body = <<>>]
    /\ seen' = None
    /\ hops' = 0
    /\ UNCHANGED <<current, got, held>>

(* A relay or the server cannot read the request (BulkEvaluationFailure).  *)
Refuse ==
    /\ stage = "request"
    /\ ContextOf(request.body) = Unreadable
    /\ Respond(StatusFor("PARSE_ERROR"), <<>>, <<>>)
    /\ UNCHANGED served

Read ==
    /\ stage = "request"
    /\ ContextOf(request.body) # Unreadable
    /\ stage' = "serving"
    /\ seen' = ContextOf(request.body)
    /\ request' = [request EXCEPT !.body = <<>>]
    /\ hops' = 0
    /\ UNCHANGED <<current, asked, served, response, got, held>>

AnswerBulk ==
    /\ stage = "serving"
    /\ request.flag = None
    /\ served' = current
    /\ IF IfNoneMatchHits(request.header, TagOf[current])
       THEN Respond(304, TagOf[current], <<>>)
       ELSE Respond(200, TagOf[current], BulkJson(current.entries))

EntriesFor(fs, k) == {e \in ToSet(fs.entries) : e.key = k}

AnswerTo(fs, k) ==
    IF EntriesFor(fs, k) = {} THEN FlagNotFound(k)
    ELSE CHOOSE e \in EntriesFor(fs, k) : TRUE

StatusOf(e) == IF IsFailure(e) THEN StatusFor(e.errorCode) ELSE 200

AnswerSingle ==
    /\ stage = "serving"
    /\ request.flag # None
    /\ served' = current
    /\ LET e == AnswerTo(current, request.flag)
       IN  Respond(StatusOf(e), <<>>, BulkJson(<<e>>))

(* Another revision of the flags, or other flags.                          *)
Change(fs) ==
    /\ current' = fs
    /\ UNCHANGED <<stage, asked, request, seen, served, response, hops, got, held>>

-----------------------------------------------------------------------------
(* The way back.  A relay may write a weak tag as a strong one.            *)
IsWeak(tag) == tag # <<>> /\ Head(tag) = "W/"

RelayResponse(strengthens) ==
    /\ stage = "response"
    /\ hops < MaxHops
    /\ BulkOf(response.body) # Unreadable
    /\ strengthens => IsWeak(response.tag)
    /\ response' = [response EXCEPT !.body = BulkJson(BulkOf(@)),
                                    !.tag = IF strengthens THEN Strong(@) ELSE @]
    /\ hops' = hops + 1
    /\ UNCHANGED <<current, stage, asked, request, seen, served, got, held>>

(* What a status means to a provider: a flag it has, what it holds already,*)
(* a flag that does not exist, an error.                                   *)
Reading ==
    LET entries == BulkOf(response.body) IN
    CASE response.status = 200 /\ entries # Unreadable ->
           [outcome |-> "flags", entries |-> entries]
      [] response.status = 304 -> [outcome |-> "flags", entries |-> held.entries]
      [] response.status = 404 -> [outcome |-> "fallback", entries |-> <<>>]
      [] OTHER -> [outcome |-> "error", entries |-> <<>>]

Receive ==
    /\ stage = "response"
    /\ stage' = "received"
    /\ got' = Reading
    /\ held' = IF request.flag = None /\ response.status = 200
                  /\ Reading.outcome = "flags"
               THEN [tag |-> response.tag, entries |-> Reading.entries, of |-> served]
               ELSE held
    /\ hops' = 0
    /\ UNCHANGED <<current, asked, request, seen, served, response>>

(* The provider goes on, after an answer or without waiting for it.        *)
Begin(k) ==
    /\ stage # "building"
    /\ stage' = "building"
    /\ asked' = NewContext(k)
    /\ request' = NoRequest
    /\ seen' = None
    /\ served' = None
    /\ response' = NoResponse
    /\ hops' = 0
    /\ got' = Nothing
    /\ UNCHANGED <<current, held>>

Next ==
    \/ \E n \in Names, v \in Json : With(n, v)
    \/ \E flag \in Flags : SendSingle(flag)
    \/ \E header \in Headers : SendBulk(header)
    \/ SendForeign
    \/ RelayRequest
    \/ Refuse
    \/ Read
    \/ AnswerBulk
    \/ AnswerSingle
    \/ \E fs \in FlagSets : Change(fs)
    \/ \E strengthens \in BOOLEAN : RelayResponse(strengthens)
    \/ Receive
    \/ \E k \in Subjects \cup {None} : Begin(k)

Spec == Init /\ [][Next]_vars

-----------------------------------------------------------------------------
(* The server reads the subject and every attribute that the provider      *)
(* sent, over any relays, whether the provider is of this library or not:  *)
(* the key is not lost among the attributes, nor an attribute dropped, as  *)
(* long as no attribute is named like the key.                             *)
ContextArrivesWhole ==
    stage = "serving" /\ "targetingKey" \notin DOMAIN asked.attributes => seen = asked

(* No attribute, whatever its name, makes a server evaluate the flags for  *)
(* another subject than the one the provider named.                        *)
NoOtherSubject ==
    stage = "serving" /\ asked.targeting_key # None =>
        seen.targeting_key = asked.targeting_key

AnsweredBulk == stage = "received" /\ request.flag = None /\ served # None

(* The provider reads the entries that the server wrote, over any relays:  *)
(* no failure becomes a success, a code default becomes no value, and a    *)
(* flag that failed takes no other flag with it (BulkEntry).               *)
EntriesArriveWhole ==
    AnsweredBulk /\ response.status # 304 => got.entries = AsRead(served.entries)

(* A provider that is told nothing changed shows the flags the server has, *)
(* unless it asked with a star: no two flag sets of the instance have one  *)
(* tag, and no other tag of the header is taken for the current one        *)
(* (weak_etag, if_none_match_hits).                                        *)
NotModifiedIsTrue ==
    AnsweredBulk /\ response.status = 304 /\ Last(request.header) # "*" =>
        got.entries = AsRead(served.entries)

(* A provider that holds what the server has and says so downloads it no   *)
(* second time, in whichever form a relay left the tag and whatever else   *)
(* the header lists (if_none_match_hits: "Getting this wrong makes clients *)
(* re-download a flag set that did not change").                           *)
NoNeedlessDownload ==
    (/\ stage = "response"
     /\ request.header # <<>>
     /\ served # None
     /\ response.status = 200) => held.of # served

(* A provider falls back to the default of its caller for a flag that does *)
(* not exist, takes only a flag that failed for an error, and otherwise    *)
(* has the flag: the bodies of the first two are alike, so it hangs on the *)
(* status (status_for, FlagNotFound).                                      *)
OnlyMissingFlagFallsBack ==
    stage = "received" /\ request.flag # None /\ served # None =>
        LET found == EntriesFor(served, request.flag) IN
        /\ found = {} => got.outcome = "fallback"
        /\ \A e \in found :
              IF ~IsFailure(e)
              THEN got = [outcome |-> "flags", entries |-> AsRead(<<e>>)]
              ELSE got.outcome = IF e.errorCode = "FLAG_NOT_FOUND"
                                 THEN "fallback" ELSE "error"
=============================================================================
