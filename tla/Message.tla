------------------------------ MODULE Message ------------------------------
(***************************************************************************)
(* fetchpp::http::message, as a request its caller builds up and as a      *)
(* response that was received: a multimap of fields and a body.  The       *)
(* setters append to the body, add fields or replace them, so what the     *)
(* readers return depends on the whole sequence of calls, which is kept in *)
(* history.                                                                *)
(*                                                                         *)
(* The text of a content type is the sequence of its parts, pairs of a key *)
(* and a value: <<"type", t>> first, then its parameters.                  *)
(***************************************************************************)
EXTENDS Naturals, Sequences, FiniteSets

CONSTANTS
    Verbs,         \* the methods of the requests
    Statuses,      \* the statuses of the responses
    Bytes,
    Data,          \* what the bodies are made of: sequences of bytes
    ContentTypes,  \* the content_type values the caller sets
    Texts,         \* the texts of content types, malformed ones included
    BadTypes,      \* the types content_type::parse refuses, those with a '.' or '+'
    Methods,       \* the authorization methods it uses
    MaxCalls       \* bound: calls made on one message

ASSUME MaxCallsAssumption == MaxCalls \in Nat
ASSUME DataAssumption == Data \subseteq Seq(Bytes)

VARIABLES
    kind,      \* "request" or "response"
    start,     \* a request's method, or a response's status
    fields,    \* the values of each field, in order
    body,      \* body(), a multi_buffer
    history    \* the calls that were made, in order

vars == <<kind, start, fields, body, history>>

-----------------------------------------------------------------------------
\* http::content_type, a triple of strings; an absent parameter is empty.
Type(t, charset, boundary) ==
    [type |-> t, charset |-> charset, boundary |-> boundary]

Json == "application/json"
Text == "text/plain"
Octets == "application/octet-stream"

PartNames == {"type", "charset", "boundary", "junk"}

ASSUME TextsAssumption == Texts \subseteq Seq(PartNames \X STRING)
ASSUME BadTypesAssumption == {Json, Text, Octets} \cap BadTypes = {}

First(I) == CHOOSE i \in I : \A j \in I : i <= j
Last(I) == CHOOSE i \in I : \A j \in I : j <= i

Keys(text) == [i \in DOMAIN text |-> text[i][1]]

Part(text, key) ==
    LET I == {i \in DOMAIN text : text[i][1] = key} IN
    IF I = {} THEN "" ELSE text[First(I)][2]

\* The regular expression of content_type::parse: a type of its alphabet, then at
\* most a charset and a boundary, in this order and nothing else.
WellFormed(text) ==
    /\ Keys(text) \in {<<"type">>, <<"type", "charset">>, <<"type", "boundary">>,
                       <<"type", "charset", "boundary">>}
    /\ \A i \in DOMAIN text : text[i][2] # ""
    /\ text[1][2] \notin BadTypes

\* content_type::parse of a well formed text (it throws on another one).
Parse(text) == Type(Part(text, "type"), Part(text, "charset"),
                    Part(text, "boundary"))

\* Faulty variant: the parameters are written without their names.
FaultyToString(ct) ==
    << <<"type", ct.type>>, <<"", ct.charset>>, <<"", ct.boundary>> >>

\* to_string(content_type): the parameters are concatenated to a temporary,
\* what is returned is the type.
to_string(ct) == << <<"type", ct.type>> >>

\* boost::iequals (external) on the types and charsets in use.
LowerCase(s) == CASE s = "Application/JSON" -> Json
                  [] s = "UTF8" -> "utf8"
                  [] OTHER -> s
IEquals(a, b) == LowerCase(a) = LowerCase(b)

\* operator== of content types.
SameType(a, b) ==
    /\ IEquals(a.type, b.type)
    /\ IEquals(a.charset, b.charset)
    /\ a.boundary = b.boundary

\* to_string of an authorization method: base64 of user:password, or a token.
Credentials(m) ==
    IF m.scheme = "Basic"
    THEN << <<"Basic", "base64">>, m.user \o <<":">> \o m.password >>
    ELSE << <<"Bearer">>, m.token >>

-----------------------------------------------------------------------------
(***************************************************************************)
(* beast::http::fields (external): insert adds a value after those of the  *)
(* same name, set leaves the new value alone, at and [] read the first.    *)
(***************************************************************************)
Names == {"Host", "User-Agent", "Cache-Control", "Accept", "Authorization",
          "Content-Type", "Content-Length"}

Insert(fs, name, value) == [fs EXCEPT ![name] = Append(@, value)]

Set(fs, name, value) == [fs EXCEPT ![name] = <<value>>]

Erase(fs, name) == [fs EXCEPT ![name] = <<>>]

\* The statuses of responses that have no body.
Bodiless == {"continue", "no_content", "not_modified"}

\* message::prepare_payload (external) for a body of known size: a body where
\* there must be none makes it throw.
PayloadThrows(b) ==
    /\ b # <<>>
    /\ \/ kind = "request" /\ start = "trace"
       \/ kind = "response" /\ start \in Bodiless

PreparePayload(fs, b) ==
    IF PayloadThrows(b) THEN fs
    ELSE IF b # <<>> \/ kind = "response" \/ start \in {"options", "put", "post"}
    THEN Set(fs, "Content-Length", Len(b))
    ELSE Erase(fs, "Content-Length")

-----------------------------------------------------------------------------
\* detail::set_options, for a new request.
SetOptions(fs) ==
    Set(Set(Set(fs, "Host", "host"), "User-Agent", "fetchpp"),
        "Cache-Control", "no-cache")

NoFields == [n \in Names |-> <<>>]

\* The lengths the peer may announce: its body's, none if it came in chunks, or
\* that of a body it left out (a reply to a HEAD, a 304).
Announced(b) ==
    {<<>>} \cup {<<Len(data)>> : data \in IF b = <<>> THEN Data \cup {b} ELSE {b}}

\* basic_request's constructor, or a response as the parser filled it, of any
\* or no type.
Init ==
    /\ history = <<>>
    /\ \/ /\ kind = "request" /\ start \in Verbs
          /\ fields = SetOptions(NoFields) /\ body = <<>>
       \/ /\ kind = "response" /\ start \in Statuses
          /\ body \in IF start \in Bodiless THEN {<<>>} ELSE Data
          /\ \E ct \in {<<>>} \cup {<<x>> : x \in Texts}, length \in Announced(body) :
                fields = [NoFields EXCEPT !["Content-Type"] = ct,
                                          !["Content-Length"] = length]

Call(c) == Len(history) < MaxCalls /\ history' = Append(history, c)

\* Faulty variants: the payload is prepared before the data is in the body; or
\* the type is set.
FaultyPreparesFirst(data, t) ==
    /\ Call(<<"content", data, t>>)
    /\ body' = body \o data
    /\ fields' = PreparePayload(Insert(fields, "Content-Type",
                                       << <<"type", t>> >>), body)
    /\ UNCHANGED <<kind, start>>

FaultySetsType(data, t) ==
    /\ Call(<<"content", data, t>>)
    /\ body' = body \o data
    /\ fields' = PreparePayload(Set(fields, "Content-Type",
                                    << <<"type", t>> >>), body')
    /\ UNCHANGED <<kind, start>>

\* content(): the data goes to the end of the body, a field of type t to the
\* other types, and the payload is prepared.
AppendContent(data, t) ==
    /\ Call(<<"content", data, t>>)
    /\ body' = body \o data
    /\ fields' = PreparePayload(Insert(fields, "Content-Type",
                                       << <<"type", t>> >>), body')
    /\ UNCHANGED <<kind, start>>

ContentString(data) == AppendContent(data, Text)
ContentBuffer(data) == AppendContent(data, Octets)

\* content_type(string_view).
SetTypeText(text) ==
    /\ Call(<<"type", text>>)
    /\ fields' = Set(fields, "Content-Type", text)
    /\ UNCHANGED <<kind, start, body>>

\* set(content_type).
SetType(ct) ==
    /\ Call(<<"set", ct>>)
    /\ fields' = Set(fields, "Content-Type", to_string(ct))
    /\ UNCHANGED <<kind, start, body>>

\* set(authorization::methods).
SetAuthorization(m) ==
    /\ Call(<<"authorization", m>>)
    /\ fields' = Set(fields, "Authorization", Credentials(m))
    /\ UNCHANGED <<kind, start, body>>

\* Faulty variant: the types accepted before stay.
FaultyAccept(text) ==
    /\ kind = "request"
    /\ Call(<<"accept", text>>)
    /\ fields' = Insert(fields, "Accept", text)
    /\ UNCHANGED <<kind, start, body>>

\* accept() of a text or of a content type, for a request.
Accept(text) ==
    /\ kind = "request"
    /\ Call(<<"accept", text>>)
    /\ fields' = Set(fields, "Accept", text)
    /\ UNCHANGED <<kind, start, body>>

AcceptType(ct) == Accept(to_string(ct))

\* A header the caller gives to async_get or async_post.
InsertHeader(name, value) ==
    /\ kind = "request"
    /\ Call(<<"insert", name, value>>)
    /\ fields' = Insert(fields, name, value)
    /\ UNCHANGED <<kind, start, body>>

Next ==
    \/ \E data \in Data : ContentString(data) \/ ContentBuffer(data)
    \/ \E text \in Texts : SetTypeText(text) \/ Accept(text)
    \/ \E ct \in ContentTypes : SetType(ct) \/ AcceptType(ct)
    \/ \E m \in Methods : SetAuthorization(m)
    \/ \E text \in Texts : \E name \in {"Content-Type", "Accept"} :
          InsertHeader(name, text)
    \/ \E n \in {Len(data) : data \in Data} : InsertHeader("Content-Length", n)

Spec == Init /\ [][Next]_vars

-----------------------------------------------------------------------------
\* The readers.  content_type() throws if the type is not well formed, and so
\* do is_json(), is_text() and is_content().
HasContentType == fields["Content-Type"] # <<>>
Readable == HasContentType => WellFormed(fields["Content-Type"][1])

\* Faulty variant: the type that was added last is read.
FaultyContentType ==
    Parse(fields["Content-Type"][Len(fields["Content-Type"])])

ContentType == Parse(fields["Content-Type"][1])

\* content_length(), <<>> for nullopt.
ContentLength == IF fields["Content-Length"] = <<>> THEN <<>>
                 ELSE <<fields["Content-Length"][1]>>

IsContentType(t) == HasContentType /\ ContentType.type = t
IsJson == IsContentType(Json)
IsText == IsContentType(Text)
IsContent == IsContentType(Octets) \/ (~IsJson /\ ~IsText)

-----------------------------------------------------------------------------
\* The types, charsets and boundaries that the caller or content() named.
PartValues ==
    {Text, Octets} \cup {ct.type : ct \in ContentTypes}
    \cup UNION {{text[i][2] : i \in DOMAIN text} : text \in Texts}

TypeText == Seq(PartNames \X PartValues)

FieldValues(n) ==
    CASE n \in {"Content-Type", "Accept"} -> TypeText
      [] n = "Content-Length" -> Nat
      [] n = "Authorization" -> {Credentials(m) : m \in Methods}
      [] n = "Host" -> {"host"}
      [] n = "User-Agent" -> {"fetchpp"}
      [] n = "Cache-Control" -> {"no-cache"}

Calls ==
    ({"content"} \X Data \X {Text, Octets})
    \cup ({"type"} \X Texts) \cup ({"set"} \X ContentTypes)
    \cup ({"authorization"} \X Methods) \cup ({"accept"} \X TypeText)
    \cup ({"insert"} \X {"Content-Type", "Accept"} \X Texts)
    \cup ({"insert"} \X {"Content-Length"} \X Nat)

TypeOK ==
    /\ kind \in {"request", "response"}
    /\ start \in Verbs \cup Statuses
    /\ fields = [n \in Names |-> fields[n]]
    /\ \A n \in Names : /\ fields[n] \in Seq(FieldValues(n))
                        /\ Len(fields[n]) <= Len(history) + 1
    /\ body \in Seq(Bytes)
    /\ history \in Seq(Calls)
    /\ Len(history) <= MaxCalls

\* Where in history the calls of one of the kinds K are.
CallsOf(K) == {i \in DOMAIN history : history[i][1] \in K}

Inserts(name) == {i \in CallsOf({"insert"}) : history[i][2] = name}

(***************************************************************************)
(* Reference: the call that declares a request's type.  The last that set  *)
(* one; without one, the first content() or header that brought one along. *)
(* Later contents and headers do not change it.                            *)
(***************************************************************************)
Declaring ==
    LET sets == CallsOf({"set", "type"})
        others == CallsOf({"content"}) \cup Inserts("Content-Type")
    IN IF sets # {} THEN <<history[Last(sets)]>>
       ELSE IF others # {} THEN <<history[First(others)]>>
       ELSE <<>>

\* The type it named, and whether that is one the readers can read.
TypeOfCall(c) ==
    CASE c[1] = "set" -> c[2].type
      [] c[1] = "type" -> Part(c[2], "type")
      [] c[1] = "content" -> c[3]
      [] c[1] = "insert" -> Part(c[3], "type")

ReadableCall(c) ==
    CASE c[1] = "set" -> c[2].type \notin BadTypes \cup {""}
      [] c[1] = "type" -> WellFormed(c[2])
      [] c[1] = "content" -> TRUE
      [] c[1] = "insert" -> WellFormed(c[3])

\* Reference: the data of the contents among the calls h, in order.
DataOf(c) == IF c[1] = "content" THEN c[2] ELSE <<>>

Given(h) ==
    LET data[i \in 0 .. Len(h)] ==
            IF i = 0 THEN <<>> ELSE data[i - 1] \o DataOf(h[i])
    IN data[Len(h)]

EndsWith(s, end) ==
    /\ Len(end) <= Len(s)
    /\ \A i \in 1 .. Len(end) : s[Len(s) - Len(end) + i] = end[i]

(***************************************************************************)
(* In whatever order a request's type, contents and headers were given,    *)
(* its type reads as declared: content() called before or after a type was *)
(* set leaves that type.                                                   *)
(***************************************************************************)
TypeAsDeclared ==
    kind = "request" =>
        IF Declaring = <<>> THEN ~HasContentType
        ELSE /\ HasContentType
             /\ Part(fields["Content-Type"][1], "type") = TypeOfCall(Declaring[1])

\* The call that declared the type named t.
DeclaredAs(t) == Declaring # <<>> /\ TypeOfCall(Declaring[1]) = t

(***************************************************************************)
(* is_json(), is_text() and is_content() of a request throw exactly if the *)
(* call that declared its type named one the parser refuses, and else tell *)
(* the type declared: neither a content() or a header behind it nor        *)
(* to_string() makes a type unreadable, hides that it is, or is read.      *)
(***************************************************************************)
ReadAsDeclared ==
    kind = "request" =>
        /\ Readable <=> (Declaring # <<>> => ReadableCall(Declaring[1]))
        /\ Readable => /\ IsJson <=> DeclaredAs(Json)
                       /\ IsText <=> DeclaredAs(Text)
                       /\ IsContent <=> ~DeclaredAs(Json) /\ ~DeclaredAs(Text)

(***************************************************************************)
(* After any number of content() calls the body is all of their data in    *)
(* order, behind what was received, and the length announced first, the    *)
(* one that is read, is the whole body's, whatever length a header or the  *)
(* peer gave.  (A message that must have no body gets it all the same:     *)
(* content() throws after it was added and leaves the length as it was.)   *)
(***************************************************************************)
LengthOfAllContents ==
    /\ EndsWith(body, Given(history))
    /\ kind = "request" => body = Given(history)
    /\ CallsOf({"content"}) # {} /\ body # <<>> /\ ~PayloadThrows(body)
          => ContentLength = <<Len(body)>>

(***************************************************************************)
(* However often a request is changed, a field the library writes occurs   *)
(* once, next to those the caller inserted: no stale credentials, type of  *)
(* answer or length stay behind.                                           *)
(***************************************************************************)
NoStaleField ==
    \A n \in Names \ {"Content-Type"} :
        Len(fields[n]) <= 1 + Cardinality(Inserts(n))

(***************************************************************************)
(* A content type that was set is read back, parameters included, until    *)
(* another one replaces it.                                                *)
(***************************************************************************)
ParametersKept ==
    LET sets == CallsOf({"set", "type"}) IN
    sets # {} /\ history[Last(sets)][1] = "set" /\ Readable
        => SameType(ContentType, history[Last(sets)][2])

=============================================================================
