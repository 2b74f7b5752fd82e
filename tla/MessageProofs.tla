---------------------------- MODULE MessageProofs ---------------------------
(***************************************************************************)
(* Proofs about Message, for any bodies, types and number of calls.  The   *)
(* properties compare the readers with the whole history of calls; a call  *)
(* adds one position to the sets of positions they speak of, and its data  *)
(* to Given, a function recursive over the history.                        *)
(***************************************************************************)
EXTENDS Message, FiniteSetTheorems, NaturalsInduction, WellFoundedInduction, TLAPS

-----------------------------------------------------------------------------
(***************************************************************************)
(* Induction, for a set of naturals: a least number outside of it would    *)
(* follow one inside.                                                      *)
(***************************************************************************)
LEMMA LeastOf ==
    ASSUME NEW I, I \subseteq Nat, I # {}
    PROVE  \E i \in I : \A j \in I : i <= j
<1> DEFINE R == {ss \in Nat \X Nat : ss[1] < ss[2]}
<1>1. IsWellFoundedOn(R, Nat)
  BY NatLessThanWellFounded DEF OpToRel
<1>2. \A i, j \in Nat : <<i, j>> \in R <=> i < j
  OBVIOUS
<1> HIDE DEF R
<1>3. PICK i \in I : \A j \in I : <<j, i>> \notin R
  BY <1>1, WFMin
<1>4. \A j \in I : ~(j < i)
  BY <1>2, <1>3
<1> QED BY <1>3, <1>4

LEMMA SetInduction ==
    ASSUME NEW Q, 0 \in Q, \A n \in Nat : n \in Q => n + 1 \in Q
    PROVE  Nat \subseteq Q
<1> SUFFICES ASSUME ~(Nat \subseteq Q) PROVE FALSE
  OBVIOUS
<1> DEFINE T == Nat \ Q
<1>1. T \subseteq Nat /\ T # {}
  OBVIOUS
<1>2. PICK n \in T : \A m \in T : n <= m
  BY <1>1, LeastOf
<1>3. n \in Nat /\ n # 0
  BY <1>1, <1>2
<1>4. n - 1 \in Nat /\ ~(n <= n - 1) /\ (n - 1) + 1 = n
  BY <1>3
<1>5. n - 1 \in Q
  BY <1>2, <1>4
<1> QED BY <1>2, <1>4, <1>5

\* First and Last of a set of positions, by what they are.
LEMMA FirstIs ==
    ASSUME NEW I, I \subseteq Nat, NEW i \in I, \A j \in I : i <= j
    PROVE  First(I) = i
<1> DEFINE x == First(I)
<1>1. x \in I /\ \A j \in I : x <= j
  BY DEF First
<1> HIDE DEF x
<1>2. x \in Nat /\ i \in Nat /\ x <= i /\ i <= x
  BY <1>1
<1>3. x = i
  BY <1>2
<1> QED BY <1>3 DEF x

LEMMA LastIs ==
    ASSUME NEW I, I \subseteq Nat, NEW i \in I, \A j \in I : j <= i
    PROVE  Last(I) = i
<1> DEFINE x == Last(I)
<1>1. x \in I /\ \A j \in I : j <= x
  BY DEF Last
<1> HIDE DEF x
<1>2. x \in Nat /\ i \in Nat /\ x <= i /\ i <= x
  BY <1>1
<1>3. x = i
  BY <1>2
<1> QED BY <1>3 DEF x

LEMMA FirstFound ==
    ASSUME NEW I, I \subseteq Nat, I # {}
    PROVE  First(I) \in I /\ \A j \in I : First(I) <= j
BY LeastOf DEF First

-----------------------------------------------------------------------------
(***************************************************************************)
(* Given is well defined, and a call appended to the history appends its   *)
(* data.                                                                   *)
(***************************************************************************)
DataUpTo(h) ==
    CHOOSE data : data = [i \in 0 .. Len(h) |->
                            IF i = 0 THEN <<>> ELSE data[i - 1] \o DataOf(h[i])]

LEMMA GivenIs == ASSUME NEW h PROVE Given(h) = DataUpTo(h)[Len(h)]
BY DEF Given, DataUpTo

LEMMA DataUpToExists ==
    ASSUME NEW h, NEW n \in Nat
    PROVE  \E data : data = [i \in 0 .. n |->
                         IF i = 0 THEN <<>> ELSE data[i - 1] \o DataOf(h[i])]
<1> DEFINE Eq(d, m) == d = [i \in 0 .. m |->
                              IF i = 0 THEN <<>> ELSE d[i - 1] \o DataOf(h[i])]
           Q == {m \in Nat : \E d : Eq(d, m)}
<1>1. 0 \in Q
  <2> DEFINE d == [i \in 0 .. 0 |-> <<>>]
  <2>1. Eq(d, 0)
    OBVIOUS
  <2> QED BY <2>1
<1>2. ASSUME NEW m \in Nat, m \in Q PROVE m + 1 \in Q
  <2>1. PICK d : Eq(d, m)
    BY <1>2
  <2> DEFINE e == [i \in 0 .. m + 1 |->
                     IF i = m + 1 THEN d[m] \o DataOf(h[m + 1]) ELSE d[i]]
  <2>2. \A i \in 0 .. m : d[i] = IF i = 0 THEN <<>> ELSE d[i - 1] \o DataOf(h[i])
    BY <2>1
  <2>3. \A i \in 0 .. m + 1 :
          e[i] = IF i = 0 THEN <<>> ELSE e[i - 1] \o DataOf(h[i])
    <3> TAKE i \in 0 .. m + 1
    <3>1. CASE i = 0
      BY <2>2, <3>1
    <3>2. CASE i = m + 1
      <4>1. e[m] = d[m] /\ i # 0 /\ i - 1 = m /\ e[i] = d[m] \o DataOf(h[m + 1])
        BY <3>2
      <4> QED BY <3>2, <4>1
    <3>3. CASE i # 0 /\ i # m + 1
      <4>1. i \in 0 .. m /\ i - 1 \in 0 .. m + 1 /\ i - 1 # m + 1
        BY <3>3
      <4>2. e[i] = d[i] /\ e[i - 1] = d[i - 1]
        BY <3>3, <4>1
      <4> QED BY <2>2, <3>3, <4>1, <4>2
    <3> QED BY <3>1, <3>2, <3>3
  <2>4. e = [i \in 0 .. m + 1 |-> e[i]]
    OBVIOUS
  <2> HIDE DEF e
  <2>5. Eq(e, m + 1)
    BY <2>3, <2>4
  <2>6. m + 1 \in Nat
    OBVIOUS
  <2> HIDE DEF Eq
  <2> QED BY <2>5, <2>6
<1> HIDE DEF Q
<1>3. n \in Q
  BY <1>1, <1>2, SetInduction
<1> QED BY <1>3 DEF Q

LEMMA DataUpToEquation ==
    ASSUME NEW h, Len(h) \in Nat, NEW i \in 0 .. Len(h)
    PROVE  DataUpTo(h)[i] = IF i = 0 THEN <<>>
                            ELSE DataUpTo(h)[i - 1] \o DataOf(h[i])
<1> DEFINE d == DataUpTo(h)
<1>1. d = [k \in 0 .. Len(h) |-> IF k = 0 THEN <<>> ELSE d[k - 1] \o DataOf(h[k])]
  BY DataUpToExists DEF DataUpTo
<1> HIDE DEF d
<1>2. d[i] = IF i = 0 THEN <<>> ELSE d[i - 1] \o DataOf(h[i])
  BY <1>1
<1> QED BY <1>2 DEF d

LEMMA GivenEmpty == Given(<<>>) = <<>>
<1>1. Len(<<>>) = 0 /\ 0 \in 0 .. Len(<<>>)
  OBVIOUS
<1>2. DataUpTo(<<>>)[0] = <<>>
  BY <1>1, DataUpToEquation
<1> QED BY <1>1, <1>2, GivenIs

LEMMA GivenAppend ==
    ASSUME NEW S, NEW h \in Seq(S), NEW c \in S
    PROVE  Given(Append(h, c)) = Given(h) \o DataOf(c)
<1> DEFINE w == Append(h, c)
           n == Len(h)
           Q == {m \in Nat : m <= n => DataUpTo(w)[m] = DataUpTo(h)[m]}
<1>1. /\ n \in Nat /\ Len(w) = n + 1 /\ Len(w) \in Nat
      /\ w[n + 1] = c /\ \A i \in 1 .. n : w[i] = h[i]
  OBVIOUS
<1> HIDE DEF w
<1>2. 0 \in Q
  <2>1. 0 \in 0 .. Len(w) /\ 0 \in 0 .. Len(h)
    BY <1>1
  <2>2. DataUpTo(w)[0] = <<>> /\ DataUpTo(h)[0] = <<>>
    BY <1>1, <2>1, DataUpToEquation
  <2> QED BY <2>2
<1>3. ASSUME NEW m \in Nat, m \in Q PROVE m + 1 \in Q
  <2> SUFFICES ASSUME m + 1 <= n PROVE DataUpTo(w)[m + 1] = DataUpTo(h)[m + 1]
    OBVIOUS
  <2>1. /\ m + 1 \in 0 .. Len(w) /\ m + 1 \in 0 .. Len(h) /\ m + 1 # 0
        /\ (m + 1) - 1 = m /\ w[m + 1] = h[m + 1] /\ m <= n
    BY <1>1
  <2>2. DataUpTo(w)[m + 1] = DataUpTo(w)[m] \o DataOf(w[m + 1])
    BY <1>1, <2>1, DataUpToEquation
  <2>3. DataUpTo(h)[m + 1] = DataUpTo(h)[m] \o DataOf(h[m + 1])
    BY <1>1, <2>1, DataUpToEquation
  <2>4. DataUpTo(w)[m] = DataUpTo(h)[m]
    BY <1>3, <2>1
  <2> QED BY <2>1, <2>2, <2>3, <2>4
<1>4. n \in Q
  <2> HIDE DEF Q
  <2> QED BY <1>1, <1>2, <1>3, SetInduction
<1>5. DataUpTo(w)[n] = Given(h)
  BY <1>1, <1>4, GivenIs
<1>6. n + 1 \in 0 .. Len(w) /\ n + 1 # 0 /\ (n + 1) - 1 = n
  BY <1>1
<1>7. DataUpTo(w)[n + 1] = DataUpTo(w)[n] \o DataOf(w[n + 1])
  BY <1>1, <1>6, DataUpToEquation
<1> HIDE DEF n
<1>8. Given(w) = Given(h) \o DataOf(c)
  BY <1>1, <1>5, <1>7, GivenIs
<1> QED BY <1>8 DEF w

-----------------------------------------------------------------------------
(***************************************************************************)
(* The calls by what they do: append a content, replace a field or add to  *)
(* one.                                                                    *)
(***************************************************************************)
Target(c) == CASE c[1] \in {"type", "set"} -> "Content-Type"
               [] c[1] = "authorization" -> "Authorization"
               [] c[1] = "accept" -> "Accept"

Value(c) == CASE c[1] = "set" -> to_string(c[2])
              [] c[1] = "authorization" -> Credentials(c[2])
              [] OTHER -> c[2]

TypeField(t) == << <<"type", t>> >>

Appends(c) ==
    /\ c[1] = "content" /\ c[2] \in Data /\ c[3] \in {Text, Octets}
    /\ body' = body \o c[2]
    /\ fields' = PreparePayload(Insert(fields, "Content-Type", TypeField(c[3])), body')

Replaces(c) ==
    /\ c[1] \in {"type", "set", "authorization", "accept"}
    /\ Value(c) \in FieldValues(Target(c))
    /\ fields' = Set(fields, Target(c), Value(c))
    /\ UNCHANGED body

Adds(c) ==
    /\ c[1] = "insert" /\ c[2] \in {"Content-Type", "Accept", "Content-Length"}
    /\ c[3] \in FieldValues(c[2])
    /\ fields' = Insert(fields, c[2], c[3])
    /\ UNCHANGED body

Called(c) == /\ history' = Append(history, c) /\ Len(history) < MaxCalls
             /\ UNCHANGED <<kind, start>>
             /\ Appends(c) \/ Replaces(c) \/ Adds(c)

LEMMA TypeFieldTyped ==
    ASSUME NEW t \in PartValues
    PROVE  TypeField(t) \in TypeText
BY DEF TypeField, TypeText, PartNames

LEMMA TextsTyped == Texts \subseteq TypeText
<1> SUFFICES ASSUME NEW text \in Texts PROVE text \in TypeText
  OBVIOUS
<1>1. text \in Seq(PartNames \X STRING)
  BY TextsAssumption
<1>2. \A i \in DOMAIN text : text[i][2] \in PartValues
  BY DEF PartValues
<1>3. \A i \in 1 .. Len(text) : text[i] \in PartNames \X PartValues
  BY <1>1, <1>2
<1> HIDE DEF PartNames, PartValues
<1> DEFINE S == PartNames \X PartValues
<1>4. Len(text) \in Nat /\ text = [i \in 1 .. Len(text) |-> text[i]]
  BY <1>1
<1> HIDE DEF S
<1>5. text \in Seq(S)
  BY <1>3, <1>4 DEF S
<1> QED BY <1>5 DEF TypeText, S

LEMMA ContentCalled ==
    ASSUME NEW data \in Data, NEW t \in {Text, Octets}, AppendContent(data, t)
    PROVE  \E c \in Calls : Called(c)
<1> DEFINE c == <<"content", data, t>>
<1>1. c \in Calls
  BY DEF Calls
<1>2. c[1] = "content" /\ c[2] = data /\ c[3] = t
  OBVIOUS
<1>3. /\ history' = Append(history, c) /\ Len(history) < MaxCalls
      /\ UNCHANGED <<kind, start>> /\ body' = body \o data
      /\ fields' = PreparePayload(Insert(fields, "Content-Type", TypeField(t)), body')
  BY DEF AppendContent, Call, TypeField
<1> HIDE DEF c
<1> QED BY <1>1, <1>2, <1>3 DEF Called, Appends

LEMMA SetCalled ==
    ASSUME NEW c \in Calls, c[1] \in {"type", "set", "authorization", "accept"},
           Value(c) \in FieldValues(Target(c)), Call(c),
           fields' = Set(fields, Target(c), Value(c)), UNCHANGED <<kind, start, body>>
    PROVE  Called(c)
BY DEF Called, Replaces, Call

LEMMA InsertCalled ==
    ASSUME NEW name \in {"Content-Type", "Accept", "Content-Length"},
           NEW value \in FieldValues(name), <<"insert", name, value>> \in Calls,
           InsertHeader(name, value)
    PROVE  \E c \in Calls : Called(c)
<1> DEFINE c == <<"insert", name, value>>
<1>1. c[1] = "insert" /\ c[2] = name /\ c[3] = value /\ c \in Calls
  OBVIOUS
<1>2. /\ history' = Append(history, c) /\ Len(history) < MaxCalls
      /\ UNCHANGED <<kind, start, body>> /\ fields' = Insert(fields, name, value)
  BY DEF InsertHeader, Call
<1> HIDE DEF c
<1> QED BY <1>1, <1>2 DEF Called, Adds

LEMMA AcceptCalled ==
    ASSUME NEW text \in TypeText, Accept(text)
    PROVE  \E c \in Calls : Called(c)
<1> DEFINE c == <<"accept", text>>
<1>1. c[1] = "accept" /\ c[2] = text
  OBVIOUS
<1>2. c \in Calls
  BY DEF Calls
<1>3. Call(c) /\ fields' = Set(fields, "Accept", text) /\ UNCHANGED <<kind, start, body>>
  BY DEF Accept
<1> HIDE DEF c
<1>4. Target(c) = "Accept" /\ Value(c) = text
  BY <1>1 DEF Target, Value
<1>5. Value(c) \in FieldValues(Target(c))
  BY <1>4 DEF FieldValues
<1> QED BY <1>1, <1>2, <1>3, <1>4, <1>5, SetCalled

LEMMA NextCalls ==
    ASSUME Next
    PROVE  \E c \in Calls : Called(c)
<1>1. ASSUME NEW data \in Data, ContentString(data) \/ ContentBuffer(data)
      PROVE  \E c \in Calls : Called(c)
  BY <1>1, ContentCalled DEF ContentString, ContentBuffer
<1>2. ASSUME NEW text \in Texts, SetTypeText(text) PROVE \E c \in Calls : Called(c)
  <2> DEFINE c == <<"type", text>>
  <2>1. c[1] = "type" /\ c[2] = text
    OBVIOUS
  <2>2. c \in Calls
    BY DEF Calls
  <2>3. Call(c) /\ fields' = Set(fields, "Content-Type", text) /\ UNCHANGED <<kind, start, body>>
    BY <1>2 DEF SetTypeText
  <2> HIDE DEF c
  <2>4. Target(c) = "Content-Type" /\ Value(c) = text
    BY <2>1 DEF Target, Value
  <2>5. Value(c) \in FieldValues(Target(c))
    BY <2>4, TextsTyped DEF FieldValues
  <2> QED BY <2>1, <2>2, <2>3, <2>4, <2>5, SetCalled
<1>3. ASSUME NEW text \in Texts, Accept(text) PROVE \E c \in Calls : Called(c)
  BY <1>3, AcceptCalled, TextsTyped
<1>4. ASSUME NEW ct \in ContentTypes PROVE to_string(ct) \in TypeText
  BY TypeFieldTyped DEF to_string, TypeField, PartValues
<1>5. ASSUME NEW ct \in ContentTypes, SetType(ct) PROVE \E c \in Calls : Called(c)
  <2> DEFINE c == <<"set", ct>>
  <2>1. c[1] = "set" /\ c[2] = ct
    OBVIOUS
  <2>2. c \in Calls
    BY DEF Calls
  <2>3. Call(c) /\ fields' = Set(fields, "Content-Type", to_string(ct))
        /\ UNCHANGED <<kind, start, body>>
    BY <1>5 DEF SetType
  <2> HIDE DEF c
  <2>4. Target(c) = "Content-Type" /\ Value(c) = to_string(ct)
    BY <2>1 DEF Target, Value
  <2>5. Value(c) \in FieldValues(Target(c))
    BY <2>4, <1>4 DEF FieldValues
  <2> QED BY <2>1, <2>2, <2>3, <2>4, <2>5, SetCalled
<1>6. ASSUME NEW ct \in ContentTypes, AcceptType(ct) PROVE \E c \in Calls : Called(c)
  BY <1>4, <1>6, AcceptCalled DEF AcceptType
<1>7. ASSUME NEW m \in Methods, SetAuthorization(m) PROVE \E c \in Calls : Called(c)
  <2> DEFINE c == <<"authorization", m>>
  <2>1. c[1] = "authorization" /\ c[2] = m
    OBVIOUS
  <2>2. c \in Calls
    BY DEF Calls
  <2>3. Call(c) /\ fields' = Set(fields, "Authorization", Credentials(m))
        /\ UNCHANGED <<kind, start, body>>
    BY <1>7 DEF SetAuthorization
  <2> HIDE DEF c
  <2>4. Target(c) = "Authorization" /\ Value(c) = Credentials(m)
    BY <2>1 DEF Target, Value
  <2>5. Value(c) \in FieldValues(Target(c))
    BY <2>4 DEF FieldValues
  <2> QED BY <2>1, <2>2, <2>3, <2>4, <2>5, SetCalled
<1>8. ASSUME NEW text \in Texts, NEW name \in {"Content-Type", "Accept"},
             InsertHeader(name, text)
      PROVE  \E c \in Calls : Called(c)
  <2>1. <<"insert", name, text>> \in Calls
    BY DEF Calls
  <2>2. text \in FieldValues(name)
    BY TextsTyped DEF FieldValues
  <2> QED BY <1>8, <2>1, <2>2, InsertCalled
<1>9. ASSUME NEW data \in Data, InsertHeader("Content-Length", Len(data))
      PROVE  \E c \in Calls : Called(c)
  <2>1. Len(data) \in Nat
    BY DataAssumption
  <2>2. <<"insert", "Content-Length", Len(data)>> \in Calls
    BY <2>1 DEF Calls
  <2>3. Len(data) \in FieldValues("Content-Length")
    BY <2>1 DEF FieldValues
  <2> QED BY <1>9, <2>2, <2>3, InsertCalled
<1> QED BY <1>1, <1>2, <1>3, <1>5, <1>6, <1>7, <1>8, <1>9 DEF Next

-----------------------------------------------------------------------------
(***************************************************************************)
(* What a call does to the fields.                                         *)
(***************************************************************************)
Fields(fs) == fs = [n \in Names |-> fs[n]]

\* The length of a body that has one: prepare_payload's field, or none.
LEMMA Prepared ==
    ASSUME NEW fs, Fields(fs), NEW b
    PROVE  /\ Fields(PreparePayload(fs, b))
           /\ \A n \in Names \ {"Content-Length"} : PreparePayload(fs, b)[n] = fs[n]
           /\ PreparePayload(fs, b)["Content-Length"] \in
                 {fs["Content-Length"], <<Len(b)>>, <<>>}
           /\ ~PayloadThrows(b) /\ b # <<>>
                 => PreparePayload(fs, b)["Content-Length"] = <<Len(b)>>
<1>1. "Content-Length" \in Names
  BY DEF Names
<1>2. /\ Fields(Set(fs, "Content-Length", Len(b)))
      /\ Set(fs, "Content-Length", Len(b))["Content-Length"] = <<Len(b)>>
      /\ \A n \in Names \ {"Content-Length"} :
            Set(fs, "Content-Length", Len(b))[n] = fs[n]
  BY <1>1 DEF Set, Fields
<1>3. /\ Fields(Erase(fs, "Content-Length"))
      /\ Erase(fs, "Content-Length")["Content-Length"] = <<>>
      /\ \A n \in Names \ {"Content-Length"} :
            Erase(fs, "Content-Length")[n] = fs[n]
  BY <1>1 DEF Erase, Fields
<1> QED BY <1>2, <1>3 DEF PreparePayload

LEMMA AppendsEffect ==
    ASSUME TypeOK, NEW c, Appends(c)
    PROVE  /\ Fields(fields')
           /\ fields'["Content-Type"] = Append(fields["Content-Type"], TypeField(c[3]))
           /\ \A n \in Names \ {"Content-Type", "Content-Length"} : fields'[n] = fields[n]
           /\ fields'["Content-Length"] \in {fields["Content-Length"], <<Len(body')>>, <<>>}
           /\ ~PayloadThrows(body') /\ body' # <<>>
                 => fields'["Content-Length"] = <<Len(body')>>
<1> DEFINE fs == Insert(fields, "Content-Type", TypeField(c[3]))
<1>1. /\ "Content-Type" \in Names /\ "Content-Type" # "Content-Length"
      /\ "Content-Length" \in Names
  BY DEF Names
<1>2. /\ Fields(fs) /\ fs["Content-Type"] = Append(fields["Content-Type"], TypeField(c[3]))
      /\ \A n \in Names \ {"Content-Type"} : fs[n] = fields[n]
  BY <1>1 DEF Insert, Fields, TypeOK
<1>3. fields' = PreparePayload(fs, body')
  BY DEF Appends
<1> HIDE DEF fs
<1> QED BY <1>1, <1>2, <1>3, Prepared

LEMMA ReplacesEffect ==
    ASSUME TypeOK, NEW c, Replaces(c)
    PROVE  /\ Fields(fields')
           /\ Target(c) \in {"Content-Type", "Authorization", "Accept"}
           /\ fields'[Target(c)] = <<Value(c)>>
           /\ \A n \in Names \ {Target(c)} : fields'[n] = fields[n]
<1>1. Target(c) \in {"Content-Type", "Authorization", "Accept"}
  BY DEF Replaces, Target
<1>2. Target(c) \in Names
  BY <1>1 DEF Names
<1>3. fields' = [fields EXCEPT ![Target(c)] = <<Value(c)>>]
  BY DEF Replaces, Set
<1> QED BY <1>1, <1>2, <1>3 DEF Fields, TypeOK

LEMMA AddsEffect ==
    ASSUME TypeOK, NEW c, Adds(c)
    PROVE  /\ Fields(fields')
           /\ c[2] \in Names
           /\ fields'[c[2]] = Append(fields[c[2]], c[3])
           /\ \A n \in Names \ {c[2]} : fields'[n] = fields[n]
<1>1. c[2] \in Names
  BY DEF Adds, Names
<1>2. fields' = [fields EXCEPT ![c[2]] = Append(@, c[3])]
  BY DEF Adds, Insert
<1> QED BY <1>1, <1>2 DEF Fields, TypeOK

\* A field of the type it has is kept, replaced or grows by one value.
LEMMA FieldGrows ==
    ASSUME NEW V, NEW s \in Seq(V), NEW v \in V
    PROVE  Append(s, v) \in Seq(V) /\ Len(Append(s, v)) = Len(s) + 1
OBVIOUS

LEMMA OneValue ==
    ASSUME NEW V, NEW v \in V
    PROVE  <<v>> \in Seq(V) /\ Len(<<v>>) = 1
OBVIOUS

LEMMA NoValue ==
    ASSUME NEW V
    PROVE  <<>> \in Seq(V) /\ Len(<<>>) = 0
OBVIOUS

LEMMA TypeOKInit == Init => TypeOK
<1> SUFFICES ASSUME Init PROVE TypeOK
  OBVIOUS
<1>1. /\ kind \in {"request", "response"} /\ start \in Verbs \cup Statuses
      /\ history = <<>>
  BY DEF Init
<1>2. history \in Seq(Calls) /\ Len(history) = 0
  BY <1>1
<1>3. Len(history) <= MaxCalls
  BY <1>2, MaxCallsAssumption
<1>4. CASE /\ kind = "request" /\ fields = SetOptions(NoFields) /\ body = <<>>
  <2>1. fields = [n \in Names |-> CASE n = "Host" -> <<"host">>
                                    [] n = "User-Agent" -> <<"fetchpp">>
                                    [] n = "Cache-Control" -> <<"no-cache">>
                                    [] OTHER -> <<>>]
    BY <1>4 DEF SetOptions, Set, NoFields, Names
  <2>2. ASSUME NEW n \in Names
        PROVE  fields[n] \in Seq(FieldValues(n)) /\ Len(fields[n]) <= 1
    <3>1. CASE n \in {"Host", "User-Agent", "Cache-Control"}
      <4>1. PICK v : FieldValues(n) = {v} /\ fields[n] = <<v>>
        BY <2>1, <3>1 DEF FieldValues
      <4>2. <<v>> \in Seq({v}) /\ Len(<<v>>) = 1
        BY OneValue
      <4> QED BY <4>1, <4>2
    <3>2. CASE n \notin {"Host", "User-Agent", "Cache-Control"}
      <4>1. fields[n] = <<>>
        BY <2>1, <3>2
      <4> QED BY <4>1
    <3> QED BY <3>1, <3>2
  <2>3. fields = [n \in Names |-> fields[n]] /\ body \in Seq(Bytes)
    BY <1>4, <2>1
  <2> QED BY <1>1, <1>2, <1>3, <2>2, <2>3 DEF TypeOK
<1>5. ASSUME body \in Data \cup {<<>>},
             NEW ct \in {<<>>} \cup {<<x>> : x \in Texts},
             NEW length \in Announced(body),
             fields = [NoFields EXCEPT !["Content-Type"] = ct,
                                       !["Content-Length"] = length]
      PROVE  TypeOK
  <2>1. fields = [n \in Names |-> CASE n = "Content-Type" -> ct
                                    [] n = "Content-Length" -> length
                                    [] OTHER -> <<>>]
    BY <1>5 DEF NoFields, Names
  <2>2. body \in Seq(Bytes) /\ Len(body) \in Nat
    <3>1. CASE body = <<>>
      BY <3>1
    <3>2. CASE body \in Data
      BY <3>2, DataAssumption
    <3> QED BY <1>5, <3>1, <3>2
  <2>3. ct \in Seq(TypeText) /\ Len(ct) <= 1
    <3>1. ASSUME NEW x \in Texts, ct = <<x>> PROVE ct \in Seq(TypeText) /\ Len(ct) <= 1
      <4>1. x \in TypeText
        BY TextsTyped
      <4> QED BY <3>1, <4>1, OneValue
    <3>2. CASE ct = <<>>
      BY <3>2, NoValue
    <3> QED BY <3>1, <3>2
  <2>4. length \in Seq(Nat) /\ Len(length) <= 1
    <3>1. ASSUME NEW data \in Data \cup {body}, length = <<Len(data)>>
          PROVE  length \in Seq(Nat) /\ Len(length) <= 1
      <4>1. Len(data) \in Nat
        BY <2>2, DataAssumption
      <4> QED BY <3>1, <4>1, OneValue
    <3>2. CASE length = <<>>
      BY <3>2, NoValue
    <3> QED BY <1>5, <3>1, <3>2 DEF Announced
  <2>5. ASSUME NEW n \in Names
        PROVE  fields[n] \in Seq(FieldValues(n)) /\ Len(fields[n]) <= 1
    <3>1. CASE n = "Content-Type"
      BY <2>1, <2>3, <3>1 DEF FieldValues
    <3>2. CASE n = "Content-Length"
      BY <2>1, <2>4, <3>2 DEF FieldValues
    <3>3. CASE n \notin {"Content-Type", "Content-Length"}
      <4>1. fields[n] = <<>>
        BY <2>1, <3>3
      <4> QED BY <4>1
    <3> QED BY <3>1, <3>2, <3>3
  <2>6. fields = [n \in Names |-> fields[n]]
    BY <2>1
  <2> QED BY <1>1, <1>2, <1>3, <2>2, <2>5, <2>6 DEF TypeOK
<1> QED BY <1>4, <1>5 DEF Init

LEMMA TypeOKStep ==
    ASSUME TypeOK, [Next]_vars
    PROVE  TypeOK'
<1>1. CASE UNCHANGED vars
  BY <1>1 DEF TypeOK, vars, CallsOf
<1>2. CASE Next
  <2>1. PICK c \in Calls : Called(c)
    BY <1>2, NextCalls
  <2>2. /\ history' \in Seq(Calls) /\ Len(history') = Len(history) + 1
        /\ Len(history) \in Nat /\ Len(history') <= MaxCalls
        /\ kind' = kind /\ start' = start
    BY <2>1, MaxCallsAssumption DEF Called, TypeOK
  <2>3. /\ \A n \in Names : /\ fields[n] \in Seq(FieldValues(n))
                            /\ Len(fields[n]) <= Len(history) + 1
        /\ body \in Seq(Bytes)
    BY DEF TypeOK
  <2>4. SUFFICES /\ Fields(fields') /\ body' \in Seq(Bytes)
                 /\ \A n \in Names : /\ fields'[n] \in Seq(FieldValues(n))
                                     /\ Len(fields'[n]) <= Len(history) + 2
    BY <2>2 DEF TypeOK, Fields
  <2>5. \A n \in Names : Len(fields[n]) \in Nat /\ Len(fields[n]) <= Len(history) + 2
    BY <2>2, <2>3
  <2>6. CASE Appends(c)
    <3>1. body' \in Seq(Bytes) /\ Len(body') \in Nat
      BY <2>3, <2>6, DataAssumption DEF Appends
    <3>2. TypeField(c[3]) \in FieldValues("Content-Type")
      <4>1. c[3] \in PartValues
        BY <2>6 DEF Appends, PartValues
      <4>2. FieldValues("Content-Type") = TypeText
        BY DEF FieldValues
      <4> QED BY <4>1, <4>2, TypeFieldTyped
    <3>3. ASSUME NEW n \in Names
          PROVE  /\ fields'[n] \in Seq(FieldValues(n))
                 /\ Len(fields'[n]) <= Len(history) + 2
      <4>1. CASE n = "Content-Type"
        <5>1. fields'[n] = Append(fields[n], TypeField(c[3]))
          BY <2>6, <4>1, AppendsEffect
        <5> QED BY <2>2, <2>3, <3>2, <4>1, <5>1, FieldGrows
      <4>2. CASE n = "Content-Length"
        <5>1. fields'[n] \in {fields[n], <<Len(body')>>, <<>>}
          BY <2>6, <4>2, AppendsEffect
        <5>2. FieldValues(n) = Nat
          BY <4>2 DEF FieldValues
        <5>3. CASE fields'[n] = <<Len(body')>>
          BY <2>2, <3>1, <5>2, <5>3, OneValue
        <5>4. CASE fields'[n] = <<>>
          BY <2>2, <5>4, NoValue
        <5> QED BY <2>3, <2>5, <5>1, <5>3, <5>4
      <4>3. CASE n \notin {"Content-Type", "Content-Length"}
        BY <2>3, <2>5, <2>6, <4>3, AppendsEffect
      <4> QED BY <4>1, <4>2, <4>3
    <3> QED BY <2>6, <3>1, <3>3, AppendsEffect
  <2>7. CASE Replaces(c)
    <3>1. ASSUME NEW n \in Names
          PROVE  /\ fields'[n] \in Seq(FieldValues(n))
                 /\ Len(fields'[n]) <= Len(history) + 2
      <4>1. CASE n = Target(c)
        <5>1. fields'[n] = <<Value(c)>> /\ Value(c) \in FieldValues(n)
          BY <2>7, <4>1, ReplacesEffect DEF Replaces
        <5> QED BY <2>2, <5>1
      <4>2. CASE n # Target(c)
        BY <2>3, <2>5, <2>7, <4>2, ReplacesEffect
      <4> QED BY <4>1, <4>2
    <3> QED BY <2>3, <2>7, <3>1, ReplacesEffect DEF Replaces
  <2>8. CASE Adds(c)
    <3>1. ASSUME NEW n \in Names
          PROVE  /\ fields'[n] \in Seq(FieldValues(n))
                 /\ Len(fields'[n]) <= Len(history) + 2
      <4>1. CASE n = c[2]
        <5>1. fields'[n] = Append(fields[n], c[3]) /\ c[3] \in FieldValues(n)
          BY <2>8, <4>1, AddsEffect DEF Adds
        <5> QED BY <2>2, <2>3, <5>1, FieldGrows
      <4>2. CASE n # c[2]
        BY <2>3, <2>5, <2>8, <4>2, AddsEffect
      <4> QED BY <4>1, <4>2
    <3> QED BY <2>3, <2>8, <3>1, AddsEffect DEF Adds
  <2> QED BY <2>1, <2>6, <2>7, <2>8 DEF Called
<1> QED BY <1>1, <1>2

\* TypeOK: every field holds values of its kind, at most one more than calls
\* were made, whatever the setters did.
THEOREM MessageTypes == Spec => []TypeOK
BY TypeOKInit, TypeOKStep, PTL DEF Spec

-----------------------------------------------------------------------------
(***************************************************************************)
(* What a call adds to the sets of positions.                              *)
(***************************************************************************)
Only(p, n) == IF p THEN {n} ELSE {}

LEMMA HistoryGrows ==
    ASSUME TypeOK, NEW c \in Calls, history' = Append(history, c)
    PROVE  /\ Len(history) \in Nat
           /\ DOMAIN history = 1 .. Len(history)
           /\ DOMAIN history' = 1 .. Len(history) + 1
           /\ \A i \in 1 .. Len(history) : history'[i] = history[i]
           /\ history'[Len(history) + 1] = c
BY DEF TypeOK

LEMMA PositionsGrow ==
    ASSUME TypeOK, NEW c \in Calls, history' = Append(history, c)
    PROVE  /\ \A K : CallsOf(K)' = CallsOf(K) \cup Only(c[1] \in K, Len(history) + 1)
           /\ \A n : Inserts(n)' = Inserts(n)
                        \cup Only(c[1] = "insert" /\ c[2] = n, Len(history) + 1)
           /\ \A K : CallsOf(K) \subseteq 1 .. Len(history)
           /\ \A n : Inserts(n) \subseteq 1 .. Len(history)
<1> DEFINE m == Len(history)
<1>1. /\ m \in Nat /\ DOMAIN history = 1 .. m /\ DOMAIN history' = 1 .. m + 1
      /\ \A i \in 1 .. m : history'[i] = history[i]
      /\ history'[m + 1] = c
  BY HistoryGrows
<1>2. 1 .. m + 1 = (1 .. m) \cup {m + 1} /\ m + 1 \notin 1 .. m
  BY <1>1
<1> HIDE DEF m
<1>3. \A K : CallsOf(K)' = CallsOf(K) \cup Only(c[1] \in K, m + 1)
  BY <1>1, <1>2 DEF CallsOf, Only
<1>4. \A K : CallsOf(K) \subseteq 1 .. m
  BY <1>1 DEF CallsOf
<1>5. \A n : Inserts(n) \subseteq 1 .. m
  BY <1>4 DEF Inserts
<1>6. ASSUME NEW n PROVE Inserts(n)' = Inserts(n) \cup Only(c[1] = "insert" /\ c[2] = n, m + 1)
  <2>1. CallsOf({"insert"})' = CallsOf({"insert"}) \cup Only(c[1] = "insert", m + 1)
    BY <1>3 DEF Only
  <2>2. CallsOf({"insert"}) \subseteq 1 .. m
    BY <1>4
  <2> QED BY <1>1, <1>2, <2>1, <2>2 DEF Inserts, Only
<1> QED BY <1>3, <1>4, <1>5, <1>6 DEF m

-----------------------------------------------------------------------------
(***************************************************************************)
(* The type of a request.                                                  *)
(***************************************************************************)
LEMMA SinglePart ==
    ASSUME NEW v
    PROVE  Part(TypeField(v), "type") = v
<1> DEFINE x == TypeField(v)
           I == {i \in DOMAIN x : x[i][1] = "type"}
<1>1. I = {1} /\ x[1][2] = v
  BY DEF TypeField
<1>2. First({1}) = 1
  BY FirstIs
<1> QED BY <1>1, <1>2 DEF Part

LEMMA LastFound ==
    ASSUME NEW n \in Nat, NEW I, I \subseteq 1 .. n, I # {}
    PROVE  Last(I) \in I
<1> DEFINE J == {m \in Nat : n - m \in I}
<1>1. PICK k \in I : TRUE
  OBVIOUS
<1>2. k \in 1 .. n
  BY <1>1
<1>3. n - k \in Nat /\ n - (n - k) = k
  BY <1>2
<1>4. n - k \in J
  BY <1>3
<1>5. J \subseteq Nat /\ J # {}
  BY <1>4
<1>6. PICK m \in J : \A j \in J : m <= j
  BY <1>5, LeastOf
<1>7. ASSUME NEW j \in I PROVE j <= n - m
  <2>1. j \in 1 .. n
    OBVIOUS
  <2>2. n - j \in Nat /\ n - (n - j) = j
    BY <2>1
  <2>3. n - j \in J
    BY <2>2
  <2>4. m <= n - j
    BY <1>6, <2>3
  <2> QED BY <1>6, <2>1, <2>4
<1>8. n - m \in I
  BY <1>6
<1> QED BY <1>7, <1>8 DEF Last

Typing(c) == c[1] = "content" \/ (c[1] = "insert" /\ c[2] = "Content-Type")

\* A call declares the type if it sets one, or is the first to bring one along.
LEMMA DeclaringAfter ==
    ASSUME TypeOK, NEW c \in Calls, history' = Append(history, c)
    PROVE  Declaring' = IF c[1] \in {"set", "type"} \/ (Declaring = <<>> /\ Typing(c))
                       THEN <<c>> ELSE Declaring
<1> DEFINE m == Len(history)
           sets == CallsOf({"set", "type"})
           others == CallsOf({"content"}) \cup Inserts("Content-Type")
           Sets2 == sets \cup Only(c[1] \in {"set", "type"}, m + 1)
           Others2 == others \cup Only(Typing(c), m + 1)
           h == history'
<1>1. /\ m \in Nat /\ h[m + 1] = c
      /\ \A i \in 1 .. m : h[i] = history[i]
  BY HistoryGrows
<1>2. sets \subseteq 1 .. m /\ others \subseteq 1 .. m
  BY PositionsGrow
<1>3. /\ CallsOf({"set", "type"})' = Sets2
      /\ (CallsOf({"content"}) \cup Inserts("Content-Type"))' = Others2
  <2>1. CallsOf({"content"})' = CallsOf({"content"}) \cup Only(c[1] = "content", m + 1)
    BY PositionsGrow DEF Only
  <2>2. Inserts("Content-Type")' = Inserts("Content-Type")
           \cup Only(c[1] = "insert" /\ c[2] = "Content-Type", m + 1)
    BY PositionsGrow
  <2>3. CallsOf({"set", "type"})' = Sets2
    BY PositionsGrow
  <2> QED BY <2>1, <2>2, <2>3 DEF Only, Typing
<1>4. Declaring = IF sets # {} THEN <<history[Last(sets)]>>
                 ELSE IF others # {} THEN <<history[First(others)]>>
                 ELSE <<>>
  BY DEF Declaring
<1>5. Declaring' = IF Sets2 # {} THEN <<h[Last(Sets2)]>>
                  ELSE IF Others2 # {} THEN <<h[First(Others2)]>>
                  ELSE <<>>
  BY <1>3 DEF Declaring
<1> HIDE DEF m, sets, others, h
<1>6. CASE c[1] \in {"set", "type"}
  <2>1. Sets2 \subseteq Nat /\ m + 1 \in Sets2 /\ \A j \in Sets2 : j <= m + 1
    BY <1>1, <1>2, <1>6 DEF Only
  <2> HIDE DEF Sets2
  <2>2. Last(Sets2) = m + 1
    BY <2>1, LastIs
  <2> QED BY <1>1, <1>5, <1>6, <2>1, <2>2
<1>7. CASE c[1] \notin {"set", "type"} /\ sets # {}
  <2>1. Sets2 = sets
    BY <1>7 DEF Only
  <2>2. Last(sets) \in sets
    BY <1>1, <1>2, <1>7, LastFound
  <2>3. h[Last(sets)] = history[Last(sets)]
    BY <1>1, <1>2, <2>2
  <2>4. Declaring = <<history[Last(sets)]>> /\ Declaring # <<>>
    BY <1>4, <1>7
  <2> QED BY <1>5, <1>7, <2>1, <2>3, <2>4
<1>8. CASE c[1] \notin {"set", "type"} /\ sets = {} /\ others # {}
  <2>1. Sets2 = {}
    BY <1>8 DEF Only
  <2>2. First(others) \in others /\ \A j \in others : First(others) <= j
    <3>1. others \subseteq Nat
      BY <1>1, <1>2
    <3> QED BY <1>8, <3>1, FirstFound
  <2>3. /\ Others2 \subseteq Nat /\ Others2 # {} /\ First(others) \in Others2
        /\ \A j \in Others2 : First(others) <= j
    <3>1. PICK i : i = First(others) /\ i \in 1 .. m /\ i \in others
      BY <1>2, <2>2
    <3>2. i <= m + 1 /\ m + 1 \in Nat /\ others \subseteq Nat
      BY <1>1, <1>2, <3>1
    <3>3. Others2 \subseteq others \cup {m + 1} /\ others \subseteq Others2
      BY DEF Only
    <3> HIDE DEF Others2
    <3> QED BY <2>2, <3>1, <3>2, <3>3
  <2>4. h[First(others)] = history[First(others)]
    BY <1>1, <1>2, <2>2
  <2>5. Declaring = <<history[First(others)]>> /\ Declaring # <<>>
    BY <1>4, <1>8
  <2> HIDE DEF Others2, Sets2
  <2>6. First(Others2) = First(others)
    BY <2>3, FirstIs
  <2> QED BY <1>5, <1>8, <2>1, <2>3, <2>4, <2>5, <2>6
<1>9. CASE c[1] \notin {"set", "type"} /\ sets = {} /\ others = {}
  <2>1. Sets2 = {} /\ Declaring = <<>>
    BY <1>4, <1>9 DEF Only
  <2>2. CASE Typing(c)
    <3>1. Others2 = {m + 1}
      BY <1>9, <2>2 DEF Only
    <3>2. m + 1 \in Nat /\ m + 1 <= m + 1
      BY <1>1
    <3> HIDE DEF Others2, Sets2
    <3>3. First({m + 1}) = m + 1
      BY <3>2, FirstIs
    <3> QED BY <1>1, <1>5, <1>9, <2>1, <2>2, <3>1, <3>3
  <2>3. CASE ~Typing(c)
    <3>1. Others2 = {}
      BY <1>9, <2>3 DEF Only
    <3> QED BY <1>5, <1>9, <2>1, <2>3, <3>1
  <2> QED BY <2>2, <2>3
<1> QED BY <1>6, <1>7, <1>8, <1>9

LEMMA AppendedFirst ==
    ASSUME NEW V, NEW s \in Seq(V), NEW v
    PROVE  /\ Append(s, v) # <<>>
           /\ s = <<>> => Append(s, v)[1] = v
           /\ s # <<>> => Append(s, v)[1] = s[1]
OBVIOUS

\* The text that a call writes to the type field.
Written(c) == CASE c[1] = "set" -> to_string(c[2])
                [] c[1] = "type" -> c[2]
                [] c[1] = "content" -> TypeField(c[3])
                [] c[1] = "insert" -> c[3]

Declares(c) == \/ c[1] \in {"set", "type"}
               \/ c[1] = "content" /\ c[3] \in {Text, Octets}
               \/ c[1] = "insert" /\ c[2] = "Content-Type"

\* The inductive invariant: the first value of a request's type field, the one
\* that is read, is what the declaring call wrote.
WroteFirst(f) ==
    IF f = <<>> THEN Declaring = <<>>
    ELSE \E c \in Calls : Declares(c) /\ Declaring = <<c>> /\ f[1] = Written(c)

FirstDeclared == kind = "request" => WroteFirst(fields["Content-Type"])

LEMMA FirstDeclaredStep ==
    ASSUME TypeOK, FirstDeclared, NEW c \in Calls, Called(c)
    PROVE  FirstDeclared'
<1> DEFINE old == fields["Content-Type"]
           new == fields'["Content-Type"]
           Goal == IF new = <<>> THEN Declaring' = <<>>
                   ELSE \E d \in Calls : Declares(d) /\ Declaring' = <<d>>
                                            /\ new[1] = Written(d)
<1> SUFFICES ASSUME kind = "request" PROVE Goal
  BY DEF Called, FirstDeclared, WroteFirst
<1>1. IF old = <<>> THEN Declaring = <<>>
      ELSE \E d \in Calls : Declares(d) /\ Declaring = <<d>> /\ old[1] = Written(d)
  BY DEF FirstDeclared, WroteFirst
<1>2. old \in Seq(TypeText)
  BY DEF TypeOK, Names, FieldValues
<1>3. Declaring' = IF c[1] \in {"set", "type"} \/ (Declaring = <<>> /\ Typing(c))
                   THEN <<c>> ELSE Declaring
  BY DeclaringAfter DEF Called
<1>4. (Declaring = <<>>) <=> (old = <<>>)
  BY <1>1
<1>5. ASSUME new = Append(old, Written(c)), Typing(c), Declares(c),
             c[1] \notin {"set", "type"}
      PROVE  Goal
  <2>1. new # <<>>
    BY <1>2, <1>5, AppendedFirst
  <2>2. CASE old = <<>>
    <3>1. new[1] = Written(c)
      BY <1>2, <1>5, <2>2, AppendedFirst
    <3> HIDE DEF new, old
    <3> QED BY <1>3, <1>4, <1>5, <2>1, <2>2, <3>1
  <2>3. CASE old # <<>>
    <3>1. new[1] = old[1]
      BY <1>2, <1>5, <2>3, AppendedFirst
    <3> HIDE DEF new, old
    <3> QED BY <1>1, <1>3, <1>4, <1>5, <2>1, <2>3, <3>1
  <2> QED BY <2>2, <2>3
<1>6. ASSUME new = old, ~Typing(c), c[1] \notin {"set", "type"}
      PROVE  Goal
  <2>1. Declaring' = Declaring
    BY <1>3, <1>6
  <2> HIDE DEF new, old
  <2> QED BY <1>1, <1>6, <2>1
<1>7. "Content-Type" \in Names
  BY DEF Names
<1>8. CASE Appends(c)
  <2>1. /\ new = Append(old, TypeField(c[3])) /\ c[1] = "content"
        /\ c[3] \in {Text, Octets}
    BY <1>8, AppendsEffect DEF Appends
  <2>2. /\ Typing(c) /\ Declares(c) /\ Written(c) = TypeField(c[3])
        /\ c[1] \notin {"set", "type"}
    BY <2>1 DEF Typing, Declares, Written
  <2> HIDE DEF new, old, Goal
  <2> QED BY <1>5, <2>1, <2>2
<1>9. CASE Replaces(c)
  <2>1. c[1] \in {"type", "set", "authorization", "accept"}
    BY <1>9 DEF Replaces
  <2>2. CASE c[1] \in {"type", "set"}
    <3>1. Target(c) = "Content-Type" /\ Value(c) = Written(c) /\ Declares(c)
      BY <2>2 DEF Target, Value, Written, Declares
    <3>2. new = <<Written(c)>>
      BY <1>9, <3>1, ReplacesEffect
    <3>3. new # <<>> /\ new[1] = Written(c)
      BY <3>2
    <3> HIDE DEF new, old
    <3> QED BY <1>3, <2>2, <3>1, <3>3
  <2>3. CASE c[1] \in {"authorization", "accept"}
    <3>1. Target(c) # "Content-Type" /\ ~Typing(c) /\ c[1] \notin {"set", "type"}
      BY <2>3 DEF Target, Typing
    <3>2. new = old
      BY <1>7, <1>9, <3>1, ReplacesEffect
    <3> HIDE DEF Goal
    <3> QED BY <1>6, <3>1, <3>2
  <2> QED BY <2>1, <2>2, <2>3
<1>10. CASE Adds(c)
  <2>1. c[1] = "insert" /\ c[1] \notin {"set", "type"}
    BY <1>10 DEF Adds
  <2>2. CASE c[2] = "Content-Type"
    <3>1. new = Append(old, c[3])
      BY <1>10, <2>2, AddsEffect
    <3>2. Typing(c) /\ Declares(c) /\ Written(c) = c[3]
      BY <2>1, <2>2 DEF Typing, Declares, Written
    <3> HIDE DEF new, old, Goal
    <3> QED BY <1>5, <2>1, <3>1, <3>2
  <2>3. CASE c[2] # "Content-Type"
    <3>1. new = old
      BY <1>7, <1>10, <2>3, AddsEffect
    <3>2. ~Typing(c)
      BY <2>1, <2>3 DEF Typing
    <3> HIDE DEF Goal
    <3> QED BY <1>6, <2>1, <3>1, <3>2
  <2> QED BY <2>2, <2>3
<1> QED BY <1>8, <1>9, <1>10 DEF Called

\* A message that no call was made on has no type declared, no content and no
\* inserted field.
LEMMA NothingCalled ==
    ASSUME history = <<>>
    PROVE  /\ \A K : CallsOf(K) = {}
           /\ \A n : Inserts(n) = {}
           /\ Declaring = <<>>
<1>1. \A K : CallsOf(K) = {}
  BY DEF CallsOf
<1>2. \A n : Inserts(n) = {}
  BY <1>1 DEF Inserts
<1> QED BY <1>1, <1>2 DEF Declaring

LEMMA FirstDeclaredInit ==
    ASSUME Init
    PROVE  FirstDeclared
<1>1. history = <<>> /\ (kind = "request" => fields = SetOptions(NoFields))
  BY DEF Init
<1>2. SetOptions(NoFields)["Content-Type"] = <<>>
  BY DEF SetOptions, NoFields, Set, Names
<1>3. Declaring = <<>>
  BY <1>1, NothingCalled
<1> QED BY <1>1, <1>2, <1>3 DEF FirstDeclared, WroteFirst

LEMMA FirstDeclaredAlways == Spec => []FirstDeclared
<1> DEFINE I == TypeOK /\ FirstDeclared
<1>1. Init => I
  BY TypeOKInit, FirstDeclaredInit
<1>2. I /\ [Next]_vars => I'
  <2> SUFFICES ASSUME I, [Next]_vars PROVE I'
    OBVIOUS
  <2>1. TypeOK'
    BY TypeOKStep
  <2>2. CASE Next
    BY <2>1, <2>2, NextCalls, FirstDeclaredStep
  <2>3. CASE UNCHANGED vars
    <3>1. FirstDeclared'
      BY <2>3 DEF FirstDeclared, WroteFirst, Declaring, CallsOf, Inserts, vars
    <3> QED BY <2>1, <3>1
  <2> QED BY <2>2, <2>3
<1> QED BY <1>1, <1>2, PTL DEF Spec

\* The type of what a call wrote is the type it named, and the parser reads the
\* text exactly if it can read that.
LEMMA WrittenType ==
    ASSUME NEW c, Declares(c)
    PROVE  Part(Written(c), "type") = TypeOfCall(c)
<1>1. CASE c[1] = "set"
  <2>1. Written(c) = TypeField(c[2].type) /\ TypeOfCall(c) = c[2].type
    BY <1>1 DEF Written, to_string, TypeField, TypeOfCall
  <2> QED BY <2>1, SinglePart
<1>2. CASE c[1] = "content"
  <2>1. Written(c) = TypeField(c[3]) /\ TypeOfCall(c) = c[3]
    BY <1>2 DEF Written, TypeOfCall
  <2> QED BY <2>1, SinglePart
<1>3. CASE c[1] \in {"type", "insert"}
  BY <1>3 DEF Written, TypeOfCall
<1> QED BY <1>1, <1>2, <1>3 DEF Declares

LEMMA SingleWellFormed ==
    ASSUME NEW v
    PROVE  WellFormed(TypeField(v)) <=> v \notin BadTypes \cup {""}
<1> DEFINE x == TypeField(v)
<1>1. DOMAIN x = {1} /\ x[1][1] = "type" /\ x[1][2] = v
  BY DEF TypeField
<1>2. Keys(x) = <<"type">>
  <2>1. Keys(x) = [i \in 1 .. 1 |-> "type"]
    BY DEF Keys, TypeField
  <2> QED BY <2>1
<1> HIDE DEF x
<1>3. WellFormed(x) <=> v \notin BadTypes \cup {""}
  BY <1>1, <1>2 DEF WellFormed
<1> QED BY <1>3 DEF x

LEMMA WrittenReadable ==
    ASSUME NEW c, Declares(c)
    PROVE  WellFormed(Written(c)) <=> ReadableCall(c)
<1>1. CASE c[1] = "set"
  <2>1. /\ Written(c) = TypeField(c[2].type)
        /\ ReadableCall(c) <=> c[2].type \notin BadTypes \cup {""}
    BY <1>1 DEF Written, to_string, TypeField, ReadableCall
  <2> QED BY <2>1, SingleWellFormed
<1>2. CASE c[1] = "content"
  <2>1. Written(c) = TypeField(c[3]) /\ ReadableCall(c)
    BY <1>2 DEF Written, ReadableCall
  <2>2. c[3] \in {Text, Octets}
    BY <1>2 DEF Declares
  <2>3. c[3] \notin BadTypes \cup {""}
    BY <2>2, BadTypesAssumption DEF Text, Octets
  <2> QED BY <2>1, <2>3, SingleWellFormed
<1>3. CASE c[1] \in {"type", "insert"}
  BY <1>3 DEF Written, ReadableCall
<1> QED BY <1>1, <1>2, <1>3 DEF Declares

\* TypeAsDeclared: in whatever order its type, contents and headers were
\* given, a request's type reads as the caller declared it.
THEOREM TypeIsDeclared == Spec => []TypeAsDeclared
<1>1. FirstDeclared => TypeAsDeclared
  <2> SUFFICES ASSUME FirstDeclared, kind = "request",
                      Declaring # <<>> \/ fields["Content-Type"] # <<>>
               PROVE  /\ Declaring # <<>> /\ fields["Content-Type"] # <<>>
                      /\ Part(fields["Content-Type"][1], "type")
                            = TypeOfCall(Declaring[1])
    BY DEF TypeAsDeclared, HasContentType
  <2>1. fields["Content-Type"] # <<>>
    BY DEF FirstDeclared, WroteFirst
  <2>2. PICK c \in Calls : /\ Declares(c) /\ Declaring = <<c>>
                           /\ fields["Content-Type"][1] = Written(c)
    BY <2>1 DEF FirstDeclared, WroteFirst
  <2>3. Declaring # <<>> /\ Declaring[1] = c
    BY <2>2
  <2> QED BY <2>1, <2>2, <2>3, WrittenType
<1> QED BY <1>1, FirstDeclaredAlways, PTL

\* ReadAsDeclared: the readers of a request's type throw exactly if the call
\* that declared it named a type the parser refuses, and else tell that type.
THEOREM ReadersAnswerAsDeclared == Spec => []ReadAsDeclared
<1>1. FirstDeclared => ReadAsDeclared
  <2> SUFFICES ASSUME FirstDeclared, kind = "request"
               PROVE  /\ Readable <=> (Declaring # <<>> => ReadableCall(Declaring[1]))
                      /\ \A t : IsContentType(t) <=> DeclaredAs(t)
    <3>1. /\ DeclaredAs(Octets) => ~DeclaredAs(Json)
          /\ DeclaredAs(Octets) => ~DeclaredAs(Text)
      BY DEF DeclaredAs, Json, Text, Octets
    <3> QED BY <3>1, Zenon DEF ReadAsDeclared, IsJson, IsText, IsContent
  <2>1. CASE fields["Content-Type"] = <<>>
    BY <2>1 DEF FirstDeclared, WroteFirst, Readable, HasContentType, IsContentType,
                DeclaredAs
  <2>2. CASE fields["Content-Type"] # <<>>
    <3>1. PICK c \in Calls : /\ Declares(c) /\ Declaring = <<c>>
                             /\ fields["Content-Type"][1] = Written(c)
      BY <2>2 DEF FirstDeclared, WroteFirst
    <3>2. Declaring # <<>> /\ Declaring[1] = c
      BY <3>1
    <3>3. Readable <=> WellFormed(Written(c))
      BY <2>2, <3>1 DEF Readable, HasContentType
    <3>4. ContentType.type = TypeOfCall(c)
      BY <3>1, WrittenType DEF ContentType, Parse, Type
    <3>5. \A t : IsContentType(t) <=> DeclaredAs(t)
      BY <2>2, <3>2, <3>4 DEF IsContentType, HasContentType, DeclaredAs
    <3> QED BY <3>1, <3>2, <3>3, <3>5, WrittenReadable
  <2> QED BY <2>1, <2>2
<1> QED BY <1>1, FirstDeclaredAlways, PTL

-----------------------------------------------------------------------------
(***************************************************************************)
(* The body and its length.                                                *)
(***************************************************************************)
Contents == Given(history) \in Seq(Bytes) /\ LengthOfAllContents

LEMMA Joined ==
    ASSUME NEW S, NEW s \in Seq(S), NEW d \in Seq(S)
    PROVE  /\ s \o d \in Seq(S) /\ Len(s \o d) = Len(s) + Len(d)
           /\ Len(s) \in Nat /\ Len(d) \in Nat
           /\ \A i \in 1 .. Len(s) : (s \o d)[i] = s[i]
           /\ \A i \in 1 .. Len(d) : (s \o d)[Len(s) + i] = d[i]
OBVIOUS

LEMMA EndsAppended ==
    ASSUME NEW S, NEW s \in Seq(S), NEW e \in Seq(S), NEW d \in Seq(S), EndsWith(s, e)
    PROVE  EndsWith(s \o d, e \o d)
<1> DEFINE w == s \o d
           u == e \o d
<1>1. /\ w \in Seq(S) /\ Len(w) = Len(s) + Len(d) /\ Len(s) \in Nat /\ Len(d) \in Nat
      /\ \A i \in 1 .. Len(s) : w[i] = s[i]
      /\ \A i \in 1 .. Len(d) : w[Len(s) + i] = d[i]
  BY Joined
<1>2. /\ u \in Seq(S) /\ Len(u) = Len(e) + Len(d) /\ Len(e) \in Nat
      /\ \A i \in 1 .. Len(e) : u[i] = e[i]
      /\ \A i \in 1 .. Len(d) : u[Len(e) + i] = d[i]
  BY Joined
<1>3. /\ Len(e) <= Len(s)
      /\ \A i \in 1 .. Len(e) : s[Len(s) - Len(e) + i] = e[i]
  BY DEF EndsWith
<1> HIDE DEF w, u
<1>4. Len(u) <= Len(w) /\ Len(w) - Len(u) = Len(s) - Len(e)
  BY <1>1, <1>2, <1>3
<1>5. ASSUME NEW i \in 1 .. Len(u) PROVE w[Len(s) - Len(e) + i] = u[i]
  <2>1. CASE i \in 1 .. Len(e)
    <3>1. Len(s) - Len(e) + i \in 1 .. Len(s)
      BY <1>1, <1>2, <1>3, <2>1
    <3>2. w[Len(s) - Len(e) + i] = s[Len(s) - Len(e) + i]
      BY <1>1, <3>1
    <3> QED BY <1>2, <1>3, <2>1, <3>2
  <2>2. CASE i \notin 1 .. Len(e)
    <3>1. PICK k \in 1 .. Len(d) : i = Len(e) + k
      <4>1. i - Len(e) \in 1 .. Len(d) /\ i = Len(e) + (i - Len(e))
        BY <1>1, <1>2, <2>2
      <4> QED BY <4>1
    <3>2. Len(s) - Len(e) + i = Len(s) + k
      BY <1>1, <1>2, <3>1
    <3>3. w[Len(s) + k] = d[k] /\ u[Len(e) + k] = d[k]
      BY <1>1, <1>2
    <3> QED BY <3>1, <3>2, <3>3
  <2> QED BY <2>1, <2>2
<1>6. EndsWith(w, u)
  BY <1>4, <1>5 DEF EndsWith
<1> QED BY <1>6 DEF w, u

\* The third part of LengthOfAllContents.
LengthTold == CallsOf({"content"}) # {} /\ body # <<>> /\ ~PayloadThrows(body)
                 => ContentLength = <<Len(body)>>

LEMMA LengthToldStep ==
    ASSUME TypeOK, LengthTold, NEW c \in Calls, Called(c)
    PROVE  LengthTold'
<1> DEFINE old == fields["Content-Length"]
           new == fields'["Content-Length"]
<1>1. kind' = kind /\ start' = start /\ history' = Append(history, c)
  BY DEF Called
<1>2. PayloadThrows(body)' <=> PayloadThrows(body')
  BY <1>1 DEF PayloadThrows
<1>3. "Content-Length" \in Names
  BY DEF Names
<1>4. old \in Seq(Nat)
  BY DEF TypeOK, Names, FieldValues
<1> SUFFICES ASSUME CallsOf({"content"})' # {}, body' # <<>>, ~PayloadThrows(body')
             PROVE  ContentLength' = <<Len(body')>>
  BY <1>2 DEF LengthTold
<1>5. CASE Appends(c)
  <2>1. new = <<Len(body')>>
    BY <1>5, AppendsEffect
  <2> QED BY <2>1 DEF ContentLength
<1>6. ASSUME body' = body, c[1] # "content"
      PROVE  old # <<>> /\ old[1] = Len(body')
  <2>1. CallsOf({"content"}) # {}
    <3>1. CallsOf({"content"})' = CallsOf({"content"})
      <4>1. CallsOf({"content"})' = CallsOf({"content"})
                    \cup Only(c[1] \in {"content"}, Len(history) + 1)
        BY <1>1, PositionsGrow
      <4>2. ~(c[1] \in {"content"})
        BY <1>6
      <4> QED BY <4>1, <4>2 DEF Only
    <3> QED BY <3>1
  <2>2. ContentLength = <<Len(body)>>
    BY <1>6, <2>1 DEF LengthTold
  <2>3. old # <<>>
    BY <2>2 DEF ContentLength
  <2>4. <<old[1]>> = <<Len(body)>>
    BY <2>2, <2>3 DEF ContentLength
  <2> QED BY <1>6, <2>3, <2>4
<1>7. CASE Replaces(c)
  <2>1. new = old
    BY <1>3, <1>7, ReplacesEffect
  <2>2. body' = body /\ c[1] # "content"
    BY <1>7 DEF Replaces
  <2> QED BY <1>6, <2>1, <2>2 DEF ContentLength
<1>8. CASE Adds(c)
  <2>1. body' = body /\ c[1] # "content"
    BY <1>8 DEF Adds
  <2>2. CASE c[2] = "Content-Length"
    <3>1. new = Append(old, c[3])
      BY <1>8, <2>2, AddsEffect
    <3>2. new # <<>> /\ new[1] = old[1]
      BY <1>4, <1>6, <2>1, <3>1, AppendedFirst
    <3> QED BY <1>6, <2>1, <3>2 DEF ContentLength
  <2>3. CASE c[2] # "Content-Length"
    <3>1. new = old
      BY <1>3, <1>8, <2>3, AddsEffect
    <3> QED BY <1>6, <2>1, <3>1 DEF ContentLength
  <2> QED BY <2>2, <2>3
<1> QED BY <1>5, <1>7, <1>8 DEF Called

LEMMA ContentsStep ==
    ASSUME TypeOK, Contents, NEW c \in Calls, Called(c)
    PROVE  Contents'
<1>1. history' = Append(history, c) /\ kind' = kind /\ history \in Seq(Calls)
  BY DEF Called, TypeOK
<1>2. Given(history') = Given(history) \o DataOf(c)
  BY <1>1, GivenAppend
<1>3. /\ Given(history) \in Seq(Bytes) /\ body \in Seq(Bytes)
      /\ EndsWith(body, Given(history))
      /\ kind = "request" => body = Given(history)
      /\ LengthTold
  BY DEF Contents, LengthOfAllContents, LengthTold, TypeOK
<1>4. LengthTold'
  BY <1>3, LengthToldStep
<1>5. SUFFICES /\ Given(history') \in Seq(Bytes)
               /\ EndsWith(body', Given(history'))
               /\ kind = "request" => body' = Given(history')
  BY <1>1, <1>4 DEF Contents, LengthOfAllContents, LengthTold
<1>6. CASE Appends(c)
  <2>1. c[2] \in Seq(Bytes) /\ body' = body \o c[2] /\ DataOf(c) = c[2]
    BY <1>6, DataAssumption DEF Appends, DataOf
  <2>2. EndsWith(body \o c[2], Given(history) \o c[2])
    BY <1>3, <2>1, EndsAppended
  <2>3. Given(history) \o c[2] \in Seq(Bytes)
    BY <1>3, <2>1, Joined
  <2> QED BY <1>2, <1>3, <2>1, <2>2, <2>3
<1>7. CASE Replaces(c) \/ Adds(c)
  <2>1. body' = body /\ DataOf(c) = <<>>
    BY <1>7 DEF Replaces, Adds, DataOf
  <2>2. Given(history) \o <<>> = Given(history)
    BY <1>3
  <2> QED BY <1>2, <1>3, <2>1, <2>2
<1> QED BY <1>6, <1>7 DEF Called

\* LengthOfAllContents: after any number of content() calls the body is all of
\* their data in order and the length read is the whole body's.
THEOREM LengthIsOfAll == Spec => []LengthOfAllContents
<1> DEFINE I == TypeOK /\ Contents
<1>1. Init => I
  <2> SUFFICES ASSUME Init PROVE Contents
    BY TypeOKInit
  <2>1. history = <<>> /\ (kind = "request" => body = <<>>)
    BY DEF Init
  <2>2. Given(history) = <<>> /\ CallsOf({"content"}) = {}
    BY <2>1, GivenEmpty, NothingCalled
  <2>3. body \in Seq(Bytes)
    BY TypeOKInit DEF TypeOK
  <2>4. EndsWith(body, <<>>)
    BY <2>3 DEF EndsWith
  <2>5. <<>> \in Seq(Bytes)
    OBVIOUS
  <2> QED BY <2>1, <2>2, <2>4, <2>5 DEF Contents, LengthOfAllContents
<1>2. I /\ [Next]_vars => I'
  <2> SUFFICES ASSUME I, [Next]_vars PROVE I'
    OBVIOUS
  <2>1. TypeOK'
    BY TypeOKStep
  <2>2. CASE Next
    BY <2>1, <2>2, NextCalls, ContentsStep
  <2>3. CASE UNCHANGED vars
    <3>1. /\ history' = history /\ body' = body /\ kind' = kind
          /\ start' = start /\ fields' = fields
      BY <2>3 DEF vars
    <3>2. /\ CallsOf({"content"})' = CallsOf({"content"})
          /\ (PayloadThrows(body))' = PayloadThrows(body)
          /\ ContentLength' = ContentLength
      BY <3>1 DEF CallsOf, PayloadThrows, ContentLength
    <3>3. Contents'
      BY <3>1, <3>2 DEF Contents, LengthOfAllContents
    <3> QED BY <2>1, <3>3
  <2> QED BY <2>2, <2>3
<1>3. I => LengthOfAllContents
  BY DEF Contents
<1> QED BY <1>1, <1>2, <1>3, PTL DEF Spec

-----------------------------------------------------------------------------
(***************************************************************************)
(* The number of values a field has.                                       *)
(***************************************************************************)
LEMMA InsertsCounted ==
    ASSUME TypeOK, NEW c \in Calls, Called(c), NEW n
    PROVE  /\ Cardinality(Inserts(n)) \in Nat
           /\ Cardinality(Inserts(n)') \in Nat
           /\ Cardinality(Inserts(n)') =
                 Cardinality(Inserts(n)) + IF c[1] = "insert" /\ c[2] = n THEN 1 ELSE 0
<1> DEFINE m == Len(history)
           I == Inserts(n)
<1>1. /\ I \subseteq 1 .. m /\ m \in Nat
      /\ Inserts(n)' = I \cup Only(c[1] = "insert" /\ c[2] = n, m + 1)
  BY PositionsGrow, HistoryGrows DEF Called
<1> HIDE DEF m, I
<1>2. IsFiniteSet(1 .. m)
  BY <1>1, FS_Interval
<1>3. IsFiniteSet(I)
  BY <1>1, <1>2, FS_Subset
<1>4. Cardinality(I) \in Nat
  BY <1>3, FS_CardinalityType
<1>5. m + 1 \notin I
  BY <1>1
<1>6. Cardinality(I \cup {m + 1}) = Cardinality(I) + 1
  BY <1>3, <1>5, FS_AddElement
<1>7. CASE c[1] = "insert" /\ c[2] = n
  BY <1>1, <1>4, <1>6, <1>7 DEF Only, I
<1>8. CASE ~(c[1] = "insert" /\ c[2] = n)
  <2>1. Inserts(n)' = I
    BY <1>1, <1>8 DEF Only
  <2> QED BY <1>4, <1>8, <2>1 DEF I
<1> QED BY <1>7, <1>8

LEMMA NoStaleFieldStep ==
    ASSUME TypeOK, NoStaleField, NEW c \in Calls, Called(c)
    PROVE  NoStaleField'
<1> SUFFICES ASSUME NEW n \in Names \ {"Content-Type"}
             PROVE  Len(fields'[n]) <= 1 + Cardinality(Inserts(n)')
  BY DEF NoStaleField
<1> DEFINE before == Cardinality(Inserts(n))
           after == Cardinality(Inserts(n)')
<1>1. /\ before \in Nat /\ after \in Nat
      /\ after = before + IF c[1] = "insert" /\ c[2] = n THEN 1 ELSE 0
  BY InsertsCounted
<1>2. /\ fields[n] \in Seq(FieldValues(n)) /\ Len(fields[n]) \in Nat
      /\ Len(fields[n]) <= 1 + before
  BY DEF NoStaleField, TypeOK
<1> HIDE DEF before, after
<1>3. ASSUME fields'[n] = fields[n] PROVE Len(fields'[n]) <= 1 + after
  BY <1>1, <1>2, <1>3
<1>4. ASSUME NEW v, fields'[n] = <<v>> \/ fields'[n] = <<>>
      PROVE  Len(fields'[n]) <= 1 + after
  <2>1. Len(<<v>>) = 1 /\ Len(<<>>) = 0
    OBVIOUS
  <2>2. Len(fields'[n]) = 1 \/ Len(fields'[n]) = 0
    BY <1>4, <2>1
  <2>3. 1 <= 1 + after /\ 0 <= 1 + after
    BY <1>1
  <2> QED BY <2>2, <2>3
<1>5. CASE Appends(c)
  <2>1. n = "Content-Length" \/ fields'[n] = fields[n]
    BY <1>5, AppendsEffect
  <2>2. n = "Content-Length" => fields'[n] \in {fields[n], <<Len(body')>>, <<>>}
    BY <1>5, AppendsEffect
  <2>3. PICK v : v = Len(body')
    OBVIOUS
  <2>4. fields'[n] = fields[n] \/ fields'[n] = <<v>> \/ fields'[n] = <<>>
    BY <2>1, <2>2, <2>3
  <2> QED BY <1>3, <1>4, <2>4 DEF after
<1>6. CASE Replaces(c)
  <2>1. CASE n = Target(c)
    <3>1. PICK v : v = Value(c)
      OBVIOUS
    <3>2. fields'[n] = <<v>>
      BY <1>6, <2>1, <3>1, ReplacesEffect
    <3> QED BY <1>4, <3>2 DEF after
  <2>2. CASE n # Target(c)
    <3>1. fields'[n] = fields[n]
      BY <1>6, <2>2, ReplacesEffect
    <3> QED BY <1>3, <3>1 DEF after
  <2> QED BY <2>1, <2>2
<1>7. CASE Adds(c)
  <2>1. CASE n = c[2]
    <3>1. fields'[n] = Append(fields[n], c[3]) /\ c[3] \in FieldValues(n) /\ c[1] = "insert"
      BY <1>7, <2>1, AddsEffect DEF Adds
    <3>2. Len(fields'[n]) = Len(fields[n]) + 1
      BY <1>2, <3>1, FieldGrows
    <3>3. after = before + 1
      BY <1>1, <2>1, <3>1
    <3>4. Len(fields'[n]) <= 1 + after
      BY <1>1, <1>2, <3>2, <3>3
    <3> QED BY <3>4 DEF after
  <2>2. CASE n # c[2]
    <3>1. fields'[n] = fields[n]
      BY <1>7, <2>2, AddsEffect
    <3> QED BY <1>3, <3>1 DEF after
  <2> QED BY <2>1, <2>2
<1> QED BY <1>5, <1>6, <1>7 DEF Called

\* NoStaleField: however often a message is changed, a field the library writes
\* occurs once, next to those the caller inserted.
THEOREM NothingStale == Spec => []NoStaleField
<1> DEFINE I == TypeOK /\ NoStaleField
<1>1. Init => I
  <2> SUFFICES ASSUME Init PROVE NoStaleField
    BY TypeOKInit
  <2>1. history = <<>> /\ TypeOK
    BY TypeOKInit DEF Init
  <2>2. \A n : Inserts(n) = {}
    BY <2>1, NothingCalled
  <2>3. Cardinality({}) = 0
    BY FS_EmptySet
  <2>4. Len(history) = 0
    BY <2>1
  <2>5. \A n \in Names : Len(fields[n]) <= 0 + 1
    BY <2>1, <2>4 DEF TypeOK
  <2>6. \A n : Cardinality(Inserts(n)) = 0
    BY <2>2, <2>3
  <2>7. \A n \in Names : Len(fields[n]) <= 1 + Cardinality(Inserts(n))
    BY <2>5, <2>6
  <2> QED BY <2>7 DEF NoStaleField
<1>2. I /\ [Next]_vars => I'
  <2> SUFFICES ASSUME I, [Next]_vars PROVE I'
    OBVIOUS
  <2>1. TypeOK'
    BY TypeOKStep
  <2>2. CASE Next
    BY <2>1, <2>2, NextCalls, NoStaleFieldStep
  <2>3. CASE UNCHANGED vars
    <3>1. NoStaleField'
      BY <2>3 DEF NoStaleField, Inserts, CallsOf, vars
    <3> QED BY <2>1, <3>1
  <2> QED BY <2>2, <2>3
<1> QED BY <1>1, <1>2, PTL DEF Spec

=============================================================================
