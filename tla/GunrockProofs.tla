--------------------------- MODULE GunrockProofs ----------------------------
(***************************************************************************)
(* Proofs about Gunrock: whatever the lengths of its texts and wherever    *)
(* its data is cut, a request that has been read is the one that was sent; *)
(* every descriptor is accounted for; and a PUT or DELETE succeeds only    *)
(* for a path of the store.                                                *)
(***************************************************************************)
EXTENDS Gunrock, SequenceTheorems, TLAPS

Prefix(s, n) == SubSeq(s, 1, n)

HTTPObject == [state : {"INIT", "HEADER", "FIELD", "VALUE", "DONE"}, field : Texts,
               value : Texts, headers : Seq(Fields), path : Texts, body : Texts]

HTTPTypeOK ==
  /\ sent \in Requests /\ idx \in 1 .. Len(sent.fields) + 1 /\ off \in Nat
  /\ http \in HTTPObject

\* The fields before the i-th are complete; the last of them joins the list
\* when addHeaderField() is called next.
Kept(i) ==
  /\ http.state \in {"HEADER", "VALUE"}
  /\ AddHeaderField(http).headers = Prefix(sent.fields, i - 1)

InPath ==
  /\ idx = 1 /\ off <= Len(sent.path)
  /\ http.path = Prefix(sent.path, off) /\ http.body = <<>> /\ Kept(1)

InName ==
  /\ idx <= Len(sent.fields) /\ off <= Len(sent.fields[idx].name)
  /\ http.path = sent.path /\ http.body = <<>>
  /\ off = 0 => Kept(idx)
  /\ off > 0 => /\ http.state = "FIELD"
                /\ http.field = Prefix(sent.fields[idx].name, off) /\ http.value = <<>>
                /\ http.headers = Prefix(sent.fields, idx - 1)

InValue ==
  /\ idx <= Len(sent.fields) /\ off <= Len(sent.fields[idx].value)
  /\ http.path = sent.path /\ http.body = <<>>
  /\ http.field = sent.fields[idx].name
  /\ http.value = Prefix(sent.fields[idx].value, off)
  /\ http.headers = Prefix(sent.fields, idx - 1)

AtEnd ==
  /\ idx = Len(sent.fields) + 1 /\ off = 0
  /\ http.path = sent.path /\ http.body = <<>> /\ Kept(idx)

InBody ==
  /\ off <= Len(sent.body)
  /\ http.headers = sent.fields /\ http.path = sent.path
  /\ http.body = Prefix(sent.body, off)

Whole == http.headers = sent.fields /\ http.path = sent.path /\ http.body = sent.body

(***************************************************************************)
(* The inductive invariant of reading: what class HTTP holds in each part  *)
(* of the message.                                                         *)
(***************************************************************************)
ReadSoFar ==
  /\ HTTPTypeOK
  /\ at \in {"start", "path", "name", "value", "end", "body", "complete", "onRead",
             "read", "failed"}
  /\ at = "start" => idx = 1 /\ off = 0 /\ http = NewHTTP
  /\ at = "path"  => InPath
  /\ at = "name"  => InName
  /\ at = "value" => InValue
  /\ at = "end"   => AtEnd
  /\ at = "body"  => InBody
  /\ at \in {"complete", "onRead", "read"} => Whole

----------------------------------------------------------------------------
(***************************************************************************)
(* A text grows by the piece that follows it.                              *)
(***************************************************************************)
LEMMA Grow ==
  ASSUME NEW S, NEW s \in Seq(S), NEW o \in 0 .. Len(s), NEW e \in o .. Len(s)
  PROVE  /\ Prefix(s, e) \in Seq(S)
         /\ Prefix(s, o) \o SubSeq(s, o + 1, e) = Prefix(s, e)
<1>1. Prefix(s, e) \in Seq(S)
  <2>1. \A i \in 1 .. e : s[i] \in S
    BY ElementOfSeq
  <2> QED
    BY <2>1, SubSeqProperties DEF Prefix
<1>2. 1 \in 1 .. Len(s) + 1 /\ o \in 1 - 1 .. Len(s) /\ e \in o .. Len(s)
  BY LenProperties
<1>3. Prefix(s, o) \o SubSeq(s, o + 1, e) = Prefix(s, e)
  BY <1>2, ConcatAdjacentSubSeq DEF Prefix
<1> QED
  BY <1>1, <1>3

LEMMA PrefixEnds ==
  ASSUME NEW S, NEW s \in Seq(S)
  PROVE  Prefix(s, 0) = <<>> /\ Prefix(s, Len(s)) = s
BY SubSeqFull, SubSeqEmpty DEF Prefix

LEMMA PrefixAppend ==
  ASSUME NEW S, NEW s \in Seq(S), NEW i \in 1 .. Len(s)
  PROVE  Append(Prefix(s, i - 1), s[i]) = Prefix(s, i)
<1>1. \A j \in 1 .. i - 1 : s[j] \in S
  BY ElementOfSeq
<1>2. Prefix(s, i - 1) \in Seq(S)
  BY <1>1, SubSeqProperties DEF Prefix
<1>3. Append(Prefix(s, i - 1), s[i]) = Prefix(s, i - 1) \o <<s[i]>>
  BY <1>2, AppendIsConcat, ElementOfSeq
<1>4. Prefix(s, i) = Prefix(s, i - 1) \o <<s[i]>>
  BY SubSeqRecursiveSecond, 1 \in 1 .. Len(s), i \in 1 .. Len(s) DEF Prefix
<1> QED
  BY <1>3, <1>4

(***************************************************************************)
(* What is known of the message that is read.                              *)
(***************************************************************************)
LEMMA SentFacts ==
  ASSUME sent \in Requests
  PROVE  /\ sent.path \in Texts /\ sent.body \in Texts /\ sent.fields \in Seq(Fields)
         /\ \A i \in 1 .. Len(sent.fields) :
              /\ sent.fields[i].name \in Texts /\ sent.fields[i].name # <<>>
              /\ Len(sent.fields[i].name) \in Nat \ {0}
              /\ sent.fields[i].value \in Texts /\ Len(sent.fields[i].value) \in Nat
              /\ sent.fields[i]
                   = [name |-> sent.fields[i].name, value |-> sent.fields[i].value]
<1>1. sent \in Message
  BY RequestsAssumption
<1>2. sent.path \in Texts /\ sent.body \in Texts /\ sent.fields \in Seq(Fields)
  BY <1>1 DEF Message
<1>3. \A i \in 1 .. Len(sent.fields) : sent.fields[i] \in Fields
  BY <1>2, ElementOfSeq
<1>4. \A t \in Texts : Len(t) \in Nat /\ (t # <<>> => Len(t) # 0)
  BY LenProperties, EmptySeq DEF Texts
<1> QED
  BY <1>2, <1>3, <1>4 DEF Fields

(***************************************************************************)
(* addHeaderField() keeps the types.                                       *)
(***************************************************************************)
LEMMA AddTypes ==
  ASSUME HTTPTypeOK
  PROVE  /\ AddHeaderField(http).headers \in Seq(Fields)
         /\ AddHeaderField(http) = [http EXCEPT !.headers = AddHeaderField(http).headers,
                                                !.field = Null, !.value = Null]
            \/ AddHeaderField(http) = http
<1>1. CASE http.field = Null
  BY <1>1 DEF AddHeaderField, HTTPTypeOK, HTTPObject
<1>2. CASE http.field # Null
  <2>1. [name |-> http.field, value |-> http.value] \in Fields
    BY <1>2 DEF HTTPTypeOK, HTTPObject, Fields, Null
  <2>2. Append(http.headers, [name |-> http.field, value |-> http.value]) \in Seq(Fields)
    BY <2>1, AppendProperties DEF HTTPTypeOK, HTTPObject
  <2> QED
    BY <1>2, <2>2 DEF AddHeaderField, HTTPTypeOK, HTTPObject
<1> QED
  BY <1>1, <1>2

(***************************************************************************)
(* The callbacks keep the invariant, one lemma for each.                   *)
(***************************************************************************)
LEMMA BeginKeeps == ASSUME NEW m \in Requests, Begin(m)' PROVE ReadSoFar'
<1>1. sent' \in Requests /\ at' = "start" /\ idx' = 1 /\ off' = 0 /\ http' = NewHTTP
  BY DEF Begin
<1>2. Len(sent'.fields) \in Nat
  <2>1. sent' \in Message
    BY <1>1, RequestsAssumption
  <2> QED
    BY <2>1, LenProperties DEF Message
<1>3. <<>> \in Texts /\ <<>> \in Seq(Fields)
  BY EmptySeq DEF Texts
<1> QED
  BY <1>1, <1>2, <1>3 DEF ReadSoFar, HTTPTypeOK, HTTPObject, NewHTTP, Null

LEMMA MessageBeginKeeps == ASSUME ReadSoFar, MessageBegin PROVE ReadSoFar'
<1>1. /\ at' = "path" /\ sent' = sent /\ idx' = 1 /\ off' = 0
      /\ http' = [NewHTTP EXCEPT !.state = "HEADER"]
  BY DEF ReadSoFar, MessageBegin
<1>2. sent.path \in Texts /\ sent.fields \in Seq(Fields)
  BY SentFacts DEF ReadSoFar, HTTPTypeOK, HTTPObject
<1>3. Prefix(sent.path, 0) = <<>> /\ Prefix(sent.fields, 0) = <<>>
  BY <1>2, PrefixEnds DEF Texts
<1>4. HTTPTypeOK'
  BY <1>1 DEF ReadSoFar, HTTPTypeOK, HTTPObject, MessageBegin
<1>5. InPath'
  BY <1>1, <1>2, <1>3, LenProperties
     DEF InPath, Kept, AddHeaderField, NewHTTP, Null, Texts
<1> QED
  BY <1>1, <1>4, <1>5 DEF ReadSoFar

LEMMA PathPieceKeeps == ASSUME ReadSoFar, PathPiece PROVE ReadSoFar'
<1>1. HTTPTypeOK /\ at = "path" /\ InPath /\ sent' = sent
  BY DEF ReadSoFar, PathPiece
<1>2. PICK e \in off .. Len(sent.path) :
        /\ http' = [http EXCEPT !.path = @ \o Piece(sent.path, e)]
        /\ \/ Cut(sent.path, e)
           \/ Ends(sent.path, e) /\ at' = NextPart(0) /\ UNCHANGED idx
  BY DEF PathPiece, PathText
<1>3. /\ sent.path \in Seq(Tokens) /\ sent.fields \in Seq(Fields) /\ Len(sent.path) \in Nat
      /\ Len(sent.fields) \in Nat
  BY <1>1, SentFacts, LenProperties DEF HTTPTypeOK, HTTPObject, Texts
<1>4. off \in 0 .. Len(sent.path)
  BY <1>1, <1>3 DEF HTTPTypeOK, HTTPObject, InPath
<1>5. /\ Prefix(sent.path, e) \in Texts
      /\ http.path \o Piece(sent.path, e) = Prefix(sent.path, e)
  BY <1>1, <1>3, <1>4, Grow DEF Piece, InPath, Texts
<1>6. http' = [http EXCEPT !.path = Prefix(sent.path, e)]
  BY <1>2, <1>5
<1>7. http' \in HTTPObject /\ e \in Nat
  <2>1. http' \in HTTPObject
    BY <1>1, <1>5, <1>6 DEF HTTPTypeOK, HTTPObject
  <2>2. e \in Nat
    BY <1>3, <1>4
  <2> QED
    BY <2>1, <2>2
<1>8. Kept(1)' /\ http'.path = Prefix(sent.path, e) /\ http'.body = <<>>
  BY <1>1, <1>6 DEF InPath, Kept, AddHeaderField, HTTPTypeOK, HTTPObject
<1>9. CASE Cut(sent.path, e)
  <2>1. at' = "path" /\ idx' = 1 /\ off' = e
    BY <1>1, <1>9 DEF Cut, InPath
  <2>2. HTTPTypeOK'
    BY <1>1, <1>7, <2>1, <1>3 DEF HTTPTypeOK
  <2> QED
    BY <1>1, <1>2, <1>8, <2>1, <2>2, <1>3 DEF ReadSoFar, InPath
<1>10. CASE Ends(sent.path, e) /\ at' = NextPart(0) /\ UNCHANGED idx
  <2>1. at' = NextPart(0) /\ idx' = 1 /\ off' = 0 /\ e = Len(sent.path)
    BY <1>1, <1>10 DEF Ends, InPath
  <2>2. HTTPTypeOK'
    BY <1>1, <1>7, <2>1, <1>3 DEF HTTPTypeOK
  <2>3. http'.path = sent.path
    BY <1>8, <2>1, <1>3, PrefixEnds
  <2>4. CASE Len(sent.fields) > 0
    <3>1. Len(sent.fields[1].name) \in Nat
      BY <1>1, <1>3, <2>4, SentFacts DEF HTTPTypeOK, HTTPObject
    <3>2. InName'
      BY <1>1, <1>3, <1>8, <2>1, <2>3, <2>4, <3>1 DEF InName
    <3> QED
      BY <1>3, <2>1, <2>2, <2>4, <3>2 DEF ReadSoFar, NextPart
  <2>5. CASE Len(sent.fields) = 0
    <3>1. AtEnd'
      BY <1>1, <1>8, <2>1, <2>3, <2>5 DEF AtEnd
    <3> QED
      BY <2>1, <2>2, <2>5, <3>1 DEF ReadSoFar, NextPart
  <2> QED
    BY <1>3, <2>4, <2>5
<1> QED
  BY <1>2, <1>9, <1>10

LEMMA HeadersCompleteKeeps == ASSUME ReadSoFar, HeadersComplete PROVE ReadSoFar'
<1>1. HTTPTypeOK /\ AtEnd /\ sent' = sent /\ idx' = idx /\ off' = 0
  BY DEF ReadSoFar, HeadersComplete, AtEnd
<1>2. http' = AddHeaderField(http)
  BY DEF HeadersComplete
<1>3. sent.fields \in Seq(Fields) /\ sent.body \in Seq(Tokens)
  BY <1>1, SentFacts DEF HTTPTypeOK, HTTPObject, Texts
<1>4. http'.headers = sent.fields
  BY <1>1, <1>2, <1>3, PrefixEnds, LenProperties DEF AtEnd, Kept
<1>5. http'.path = sent.path /\ http'.body = <<>> /\ HTTPTypeOK'
  BY <1>1, <1>2, <1>3, AddTypes, EmptySeq DEF AtEnd, HTTPTypeOK, HTTPObject, Texts, Null
<1>6. <<>> = Prefix(sent.body, 0) /\ Len(sent.body) \in Nat
  BY <1>3, PrefixEnds, LenProperties
<1>7. CASE sent.body = <<>>
  BY <1>1, <1>4, <1>5, <1>7 DEF ReadSoFar, HeadersComplete, Whole
<1>8. CASE sent.body # <<>>
  <2>1. at' = "body" /\ InBody'
    BY <1>1, <1>4, <1>5, <1>6, <1>8 DEF HeadersComplete, InBody
  <2> QED
    BY <1>5, <2>1 DEF ReadSoFar
<1> QED
  BY <1>7, <1>8

LEMMA BodyPieceKeeps == ASSUME ReadSoFar, BodyPiece PROVE ReadSoFar'
<1>1. HTTPTypeOK /\ InBody /\ sent' = sent /\ idx' = idx
  BY DEF ReadSoFar, BodyPiece
<1>2. PICK e \in off + 1 .. Len(sent.body) :
        /\ http' = [http EXCEPT !.body = @ \o Piece(sent.body, e)]
        /\ off' = e
        /\ at' = IF e = Len(sent.body) THEN "complete" ELSE "body"
  BY DEF BodyPiece
<1>3. sent.body \in Seq(Tokens) /\ Len(sent.body) \in Nat
  BY <1>1, SentFacts, LenProperties DEF HTTPTypeOK, HTTPObject, Texts
<1>4. off \in 0 .. Len(sent.body) /\ e \in off .. Len(sent.body)
  BY <1>1, <1>2, <1>3 DEF HTTPTypeOK, HTTPObject, InBody
<1>5. /\ Prefix(sent.body, e) \in Texts
      /\ http.body \o Piece(sent.body, e) = Prefix(sent.body, e)
  BY <1>1, <1>3, <1>4, Grow DEF Piece, InBody, Texts
<1>6. http' = [http EXCEPT !.body = Prefix(sent.body, e)]
  BY <1>2, <1>5
<1>7. http' \in HTTPObject /\ e \in Nat
  <2>1. http' \in HTTPObject
    BY <1>1, <1>5, <1>6 DEF HTTPTypeOK, HTTPObject
  <2>2. e \in Nat
    BY <1>3, <1>4
  <2> QED
    BY <2>1, <2>2
<1>8. HTTPTypeOK'
  BY <1>1, <1>2, <1>7 DEF HTTPTypeOK
<1>9. InBody'
  BY <1>1, <1>2, <1>3, <1>4, <1>6 DEF InBody, HTTPTypeOK, HTTPObject
<1>10. e = Len(sent.body) => Whole'
  BY <1>1, <1>3, <1>6, <1>9, PrefixEnds DEF InBody, Whole, HTTPTypeOK, HTTPObject
<1> QED
  BY <1>2, <1>8, <1>9, <1>10 DEF ReadSoFar

LEMMA MessageCompleteKeeps == ASSUME ReadSoFar, MessageComplete PROVE ReadSoFar'
<1>1. HTTPTypeOK /\ Whole
  BY DEF ReadSoFar, MessageComplete
<1>2. CASE Fail
  BY <1>1, <1>2 DEF ReadSoFar, Fail, HTTPTypeOK, HTTPObject
<1>3. CASE /\ at' = "onRead" /\ http' = [http EXCEPT !.state = "DONE"]
           /\ UNCHANGED <<sent, idx, off>>
  BY <1>1, <1>3 DEF ReadSoFar, HTTPTypeOK, HTTPObject, Whole
<1> QED
  BY <1>2, <1>3 DEF MessageComplete

LEMMA OnReadReturnsKeeps == ASSUME ReadSoFar, OnReadReturns PROVE ReadSoFar'
<1>1. HTTPTypeOK /\ Whole /\ UNCHANGED <<sent, idx, off, http>> /\ at' \in {"read", "failed"}
  BY DEF ReadSoFar, OnReadReturns, Fail
<1> QED
  BY <1>1 DEF ReadSoFar, HTTPTypeOK, HTTPObject, Whole

(***************************************************************************)
(* A piece of a field name: the first one makes the field before it join   *)
(* the list and starts a new one, the others are appended.                 *)
(***************************************************************************)
LEMMA FieldTextGrows ==
  ASSUME HTTPTypeOK, InName, NEW e \in off .. Len(sent.fields[idx].name), e > 0,
         http' = FieldText(http, Piece(sent.fields[idx].name, e))
  PROVE  /\ http' \in HTTPObject /\ http'.path = sent.path /\ http'.body = <<>>
         /\ http'.state = "FIELD" /\ http'.value = <<>>
         /\ http'.field = Prefix(sent.fields[idx].name, e)
         /\ http'.headers = Prefix(sent.fields, idx - 1)
<1> DEFINE name == sent.fields[idx].name
<1>1. name \in Seq(Tokens) /\ off \in 0 .. Len(name) /\ sent.fields \in Seq(Fields)
  <2>1. sent.fields \in Seq(Fields) /\ idx \in 1 .. Len(sent.fields)
    BY SentFacts DEF HTTPTypeOK, InName
  <2>2. name \in Seq(Tokens) /\ Len(name) \in Nat
    BY <2>1, SentFacts DEF HTTPTypeOK, Texts
  <2> QED
    BY <2>1, <2>2 DEF HTTPTypeOK, InName
<1>2. Prefix(name, e) \in Texts /\ Prefix(name, off) \o Piece(name, e) = Prefix(name, e)
  BY <1>1, Grow DEF Piece, Texts
<1>3. Prefix(sent.fields, idx - 1) \in Seq(Fields) /\ <<>> \in Texts
  <2>1. idx \in 1 .. Len(sent.fields) /\ Len(sent.fields) \in Nat
    BY <1>1, LenProperties DEF HTTPTypeOK, InName
  <2>2. \A j \in 1 .. idx - 1 : sent.fields[j] \in Fields
    BY <1>1, <2>1, ElementOfSeq
  <2> QED
    BY <2>1, <2>2, SubSeqProperties, EmptySeq DEF Prefix, Texts
<1>4. CASE off > 0
  <2>1. /\ http.state = "FIELD" /\ http.field = Prefix(name, off) /\ http.value = <<>>
        /\ http.headers = Prefix(sent.fields, idx - 1)
    BY <1>4 DEF InName
  <2>2. http' = [http EXCEPT !.field = Prefix(name, e)]
    BY <1>2, <2>1 DEF FieldText
  <2> QED
    BY <1>2, <2>1, <2>2 DEF HTTPTypeOK, HTTPObject, InName
<1>5. CASE off = 0
  <2>1. Kept(idx) /\ http.path = sent.path /\ http.body = <<>>
    BY <1>5 DEF InName
  <2>2. Piece(name, e) = Prefix(name, e)
    BY <1>5 DEF Piece, Prefix
  <2>3. http' = [AddHeaderField(http) EXCEPT !.field = Prefix(name, e), !.value = <<>>,
                                             !.state = "FIELD"]
    BY <2>1, <2>2 DEF FieldText, NewHeaderField, Kept
  <2>4. AddHeaderField(http) \in HTTPObject
    BY <1>3, AddTypes DEF HTTPTypeOK, HTTPObject, Null
  <2>5. AddHeaderField(http).path = sent.path /\ AddHeaderField(http).body = <<>>
    BY <2>1, AddTypes DEF HTTPTypeOK, HTTPObject
  <2>6. AddHeaderField(http).headers = Prefix(sent.fields, idx - 1)
    BY <2>1 DEF Kept
  <2> QED
    BY <1>2, <1>3, <2>3, <2>4, <2>5, <2>6 DEF HTTPObject
<1> QED
  BY <1>1, <1>4, <1>5

LEMMA HeaderFieldKeeps == ASSUME ReadSoFar, HeaderField PROVE ReadSoFar'
<1> DEFINE name == sent.fields[idx].name
<1>1. HTTPTypeOK /\ InName /\ sent' = sent
  BY DEF ReadSoFar, HeaderField
<1>2. PICK e \in off .. Len(name) :
        /\ http' = FieldText(http, Piece(name, e))
        /\ \/ Cut(name, e)
           \/ Ends(name, e) /\ at' = "value" /\ UNCHANGED idx
  BY at = "name" DEF HeaderField, ReadSoFar
<1>3. /\ idx \in 1 .. Len(sent.fields) /\ off \in Nat
      /\ Len(name) \in Nat \ {0} /\ name \in Seq(Tokens)
      /\ Len(sent.fields[idx].value) \in Nat /\ sent.fields[idx].value \in Seq(Tokens)
  <2>1. idx \in 1 .. Len(sent.fields) /\ off \in Nat
    BY <1>1 DEF HTTPTypeOK, InName
  <2> QED
    BY <1>1, <2>1, SentFacts DEF HTTPTypeOK, Texts
<1>4. e \in Nat /\ e > 0
  BY <1>2, <1>3 DEF Cut, Ends
<1>5. /\ http' \in HTTPObject /\ http'.path = sent.path /\ http'.body = <<>>
      /\ http'.state = "FIELD" /\ http'.value = <<>>
      /\ http'.field = Prefix(name, e)
      /\ http'.headers = Prefix(sent.fields, idx - 1)
  BY <1>1, <1>2, <1>4, FieldTextGrows
<1>6. CASE Cut(name, e)
  <2>1. at' = "name" /\ idx' = idx /\ off' = e
    BY <1>6 DEF Cut, HeaderField
  <2>2. HTTPTypeOK'
    BY <1>1, <1>4, <1>5, <2>1 DEF HTTPTypeOK
  <2>3. InName'
    BY <1>1, <1>2, <1>3, <1>4, <1>5, <2>1 DEF InName
  <2> QED
    BY <2>1, <2>2, <2>3 DEF ReadSoFar
<1>7. CASE Ends(name, e) /\ at' = "value" /\ UNCHANGED idx
  <2>1. at' = "value" /\ idx' = idx /\ off' = 0 /\ e = Len(name)
    BY <1>7 DEF Ends
  <2>2. HTTPTypeOK'
    BY <1>1, <1>5, <2>1 DEF HTTPTypeOK
  <2>3. http'.field = name /\ http'.value = Prefix(sent.fields[idx].value, 0)
    BY <1>3, <1>5, <2>1, PrefixEnds
  <2>4. InValue'
    BY <1>1, <1>3, <1>5, <2>1, <2>3 DEF InValue
  <2> QED
    BY <2>1, <2>2, <2>4 DEF ReadSoFar
<1> QED
  BY <1>2, <1>6, <1>7

LEMMA HeaderValueKeeps == ASSUME ReadSoFar, HeaderValue PROVE ReadSoFar'
<1> DEFINE value == sent.fields[idx].value
<1>1. HTTPTypeOK /\ InValue /\ sent' = sent
  BY DEF ReadSoFar, HeaderValue
<1>2. PICK e \in off .. Len(value) :
        /\ http' = [http EXCEPT !.value = @ \o Piece(value, e), !.state = "VALUE"]
        /\ \/ Cut(value, e)
           \/ /\ Ends(value, e)
              /\ at' = NextPart(idx) /\ idx' = idx + 1
  BY DEF HeaderValue, ValueText
<1>3. /\ idx \in 1 .. Len(sent.fields) /\ off \in Nat /\ Len(sent.fields) \in Nat
      /\ value \in Seq(Tokens) /\ Len(value) \in Nat /\ sent.fields \in Seq(Fields)
      /\ sent.fields[idx] = [name |-> sent.fields[idx].name, value |-> value]
      /\ sent.fields[idx].name # <<>>
  <2>1. sent.fields \in Seq(Fields)
    BY <1>1, SentFacts DEF HTTPTypeOK
  <2>2. idx \in 1 .. Len(sent.fields) /\ off \in Nat /\ Len(sent.fields) \in Nat
    BY <1>1, <2>1, LenProperties DEF HTTPTypeOK, InValue
  <2> QED
    BY <1>1, <2>1, <2>2, SentFacts DEF HTTPTypeOK, Texts
<1>4. off \in 0 .. Len(value) /\ e \in Nat
  BY <1>1, <1>2, <1>3 DEF InValue
<1>5. Prefix(value, e) \in Texts /\ http.value \o Piece(value, e) = Prefix(value, e)
  BY <1>1, <1>3, <1>4, Grow DEF Piece, InValue, Texts
<1>6. http' = [http EXCEPT !.value = Prefix(value, e), !.state = "VALUE"]
  BY <1>2, <1>5
<1>7. http' \in HTTPObject
  BY <1>1, <1>5, <1>6 DEF HTTPTypeOK, HTTPObject
<1>8. /\ http'.path = sent.path /\ http'.body = <<>> /\ http'.value = Prefix(value, e)
      /\ http'.field = sent.fields[idx].name /\ http'.state = "VALUE"
      /\ http'.headers = Prefix(sent.fields, idx - 1)
  BY <1>1, <1>6 DEF HTTPTypeOK, HTTPObject, InValue
<1>9. CASE Cut(value, e)
  <2>1. at' = "value" /\ idx' = idx /\ off' = e
    BY <1>9 DEF Cut, HeaderValue
  <2>2. HTTPTypeOK'
    BY <1>1, <1>4, <1>7, <2>1 DEF HTTPTypeOK
  <2>3. InValue'
    <3>1. e <= Len(value) /\ idx <= Len(sent.fields)
      BY <1>2, <1>3, <1>4
    <3> QED
      BY <1>1, <1>8, <2>1, <3>1 DEF InValue
  <2> QED
    BY <2>1, <2>2, <2>3 DEF ReadSoFar
<1>10. CASE Ends(value, e) /\ at' = NextPart(idx) /\ idx' = idx + 1
  <2>1. idx' = idx + 1 /\ off' = 0 /\ e = Len(value)
    BY <1>10 DEF Ends
  <2>2. HTTPTypeOK'
    BY <1>1, <1>3, <1>7, <2>1 DEF HTTPTypeOK
  <2>3. http'.value = value
    BY <1>3, <1>8, <2>1, PrefixEnds
  <2>4. AddHeaderField(http').headers = Append(Prefix(sent.fields, idx - 1), sent.fields[idx])
    BY <1>3, <1>7, <1>8, <2>3 DEF AddHeaderField, HTTPObject, Null
  <2>5. Kept(idx)'
    <3>1. AddHeaderField(http').headers = Prefix(sent.fields, idx)
      BY <1>3, <2>4, PrefixAppend
    <3>2. idx' - 1 = idx
      BY <1>3, <2>1
    <3> QED
      BY <1>1, <1>8, <3>1, <3>2 DEF Kept, AddHeaderField
  <2>6. CASE idx < Len(sent.fields)
    <3>1. idx + 1 \in 1 .. Len(sent.fields)
      BY <1>3, <2>6
    <3>2. Len(sent.fields[idx + 1].name) \in Nat \ {0}
      BY <1>1, <3>1, SentFacts DEF HTTPTypeOK
    <3>3. InName'
      <4>1. idx' <= Len(sent'.fields) /\ off' <= Len(sent'.fields[idx'].name)
        BY <1>1, <1>3, <2>1, <3>1, <3>2
      <4> QED
        BY <1>1, <1>8, <2>1, <2>5, <4>1 DEF InName
    <3> QED
      BY <1>10, <2>2, <2>6, <3>3 DEF ReadSoFar, NextPart
  <2>7. CASE idx = Len(sent.fields)
    <3>1. AtEnd'
      BY <1>1, <1>8, <2>1, <2>5, <2>7 DEF AtEnd
    <3> QED
      BY <1>3, <1>10, <2>2, <2>7, <3>1 DEF ReadSoFar, NextPart
  <2> QED
    BY <1>3, <2>6, <2>7
<1> QED
  BY <1>2, <1>9, <1>10

----------------------------------------------------------------------------
LEMMA ParserStepKeeps == ASSUME ReadSoFar, ParserStep PROVE ReadSoFar'
BY MessageBeginKeeps, PathPieceKeeps, HeaderFieldKeeps, HeaderValueKeeps,
   HeadersCompleteKeeps, BodyPieceKeeps, MessageCompleteKeeps, OnReadReturnsKeeps
   DEF ParserStep

LEMMA UnchangedKeeps == ASSUME ReadSoFar, UNCHANGED httpVars PROVE ReadSoFar'
BY DEF ReadSoFar, HTTPTypeOK, Kept, AddHeaderField, InPath, InName, InValue, AtEnd,
       InBody, Whole, httpVars

(***************************************************************************)
(* What a request looks like while it is read is known of every behaviour  *)
(* of the server: only a new connection and the callbacks change it.       *)
(***************************************************************************)
THEOREM ReadingIsFaithful == GunrockSpec => []ReadSoFar
<1>1. GunrockInit => ReadSoFar
  <2> SUFFICES ASSUME NEW m \in Requests, Begin(m) PROVE ReadSoFar
    BY DEF GunrockInit
  <2>1. Len(sent.fields) \in Nat
    BY SentFacts, LenProperties DEF Begin
  <2>2. <<>> \in Texts /\ <<>> \in Seq(Fields)
    BY EmptySeq DEF Texts
  <2> QED
    BY <2>1, <2>2 DEF Begin, ReadSoFar, HTTPTypeOK, HTTPObject, NewHTTP, Null
<1>2. ReadSoFar /\ [GunrockNext]_gunrockVars => ReadSoFar'
  <2> SUFFICES ASSUME ReadSoFar, [GunrockNext]_gunrockVars PROVE ReadSoFar'
    OBVIOUS
  <2>1. CASE Accept
    <3>1. PICK m \in Requests : Begin(m)'
      BY <2>1 DEF Accept, Begin
    <3> QED
      BY <3>1, BeginKeeps
  <2>2. CASE ReadRequest
    BY <2>2, ParserStepKeeps DEF ReadRequest
  <2>3. CASE AcceptFails \/ ReadFails \/ Invoke \/ WriteResponse \/ WriteFails \/ Restart
    BY <2>3, UnchangedKeeps
       DEF AcceptFails, ReadFails, Invoke, WriteResponse, WriteFails, Restart
  <2>4. CASE UNCHANGED gunrockVars
    BY <2>4, UnchangedKeeps DEF gunrockVars, httpVars
  <2> QED
    BY <2>1, <2>2, <2>3, <2>4 DEF GunrockNext
<1> QED
  BY <1>1, <1>2, PTL DEF GunrockSpec

(***************************************************************************)
(* A request that has been read is the one its client sent: readRequest()  *)
(* and the callbacks of class HTTP put it together from any pieces.        *)
(***************************************************************************)
THEOREM RequestsAreReadAsSent == GunrockSpec => []ReadAsSent
<1>1. ReadSoFar => ReadAsSent
  BY DEF ReadSoFar, Whole, ReadAsSent
<1> QED
  BY <1>1, ReadingIsFaithful, PTL

(***************************************************************************)
(* Descriptors that are open belong to the connection being served or to   *)
(* one given up while it was read; handle_request() closes all others.     *)
(***************************************************************************)
DescriptorsInv ==
  /\ phase \in {"accept", "read", "invoke", "write", "down"}
  /\ open \in Nat /\ lost \in Nat
  /\ DescriptorsAccounted

THEOREM DescriptorsAreAccounted == GunrockSpec => []DescriptorsAccounted
<1>1. GunrockInit => DescriptorsInv
  BY DEF GunrockInit, Start, DescriptorsInv, DescriptorsAccounted
<1>2. DescriptorsInv /\ [GunrockNext]_gunrockVars => DescriptorsInv'
  <2> SUFFICES ASSUME DescriptorsInv, [GunrockNext]_gunrockVars PROVE DescriptorsInv'
    OBVIOUS
  <2> USE DEF DescriptorsInv, DescriptorsAccounted
  <2>1. CASE Accept
    BY <2>1 DEF Accept
  <2>2. CASE ReadRequest
    BY <2>2 DEF ReadRequest
  <2>3. CASE ReadFails
    BY <2>3 DEF ReadFails
  <2>4. CASE Invoke
    BY <2>4 DEF Invoke, Down
  <2>5. CASE WriteResponse
    BY <2>5 DEF WriteResponse
  <2>6. CASE AcceptFails \/ WriteFails
    BY <2>6 DEF AcceptFails, WriteFails, Down
  <2>7. CASE Restart
    BY <2>7 DEF Restart
  <2>8. CASE UNCHANGED gunrockVars
    BY <2>8 DEF gunrockVars
  <2> QED
    BY <2>1, <2>2, <2>3, <2>4, <2>5, <2>6, <2>7, <2>8 DEF GunrockNext
<1> QED
  BY <1>1, <1>2, PTL DEF GunrockSpec, DescriptorsInv
(***************************************************************************)
(* An answer to a PUT or DELETE says success only if its client asked for  *)
(* a path of the store.  The path the service was found by is the one that *)
(* was sent, since the request was read as it was sent.                    *)
(***************************************************************************)
AnswersInv ==
  /\ phase \in {"invoke", "write"} => http.path = sent.path
  /\ SuccessIsForTheStore

LEMMA AnswersKeep == GunrockSpec => []AnswersInv
<1>1. GunrockInit => AnswersInv
  BY DEF GunrockInit, Start, AnswersInv, SuccessIsForTheStore
<1>2. AnswersInv /\ ReadAsSent' /\ [GunrockNext]_gunrockVars => AnswersInv'
  <2> SUFFICES ASSUME AnswersInv, ReadAsSent', [GunrockNext]_gunrockVars
               PROVE  AnswersInv'
    OBVIOUS
  <2> USE DEF AnswersInv, SuccessIsForTheStore
  <2>1. CASE Accept \/ AcceptFails \/ ReadFails \/ WriteResponse \/ WriteFails \/ Restart
    BY <2>1 DEF Accept, AcceptFails, ReadFails, WriteResponse, WriteFails, Restart, Down
  <2>2. CASE ReadRequest
    <3>1. phase' \in {"invoke", "read", "down"} /\ (phase' = "invoke" => at' = "read")
      BY <2>2 DEF ReadRequest
    <3> QED
      BY <3>1 DEF ReadAsSent
  <2>3. CASE Invoke
    <3>1. http' = http /\ sent' = sent /\ phase' \in {"write", "down"}
      BY <2>3 DEF Invoke, Down, httpVars
    <3>2. CASE phase' = "write" /\ status' = 200 /\ sent.method \in {"PUT", "DELETE"}
      <4>1. 200 \in Outcomes(FindService(http.path), sent.method)
        BY <2>3, <3>2 DEF Invoke, Down
      <4>2. FindService(http.path) = "store"
        BY <3>2, <4>1 DEF FindService, Outcomes, FilesOutcomes, Refused
      <4>3. http.path # <<>> /\ Head(http.path) = StorePrefix
        BY <4>2 DEF FindService
      <4> QED
        BY <2>3, <3>1, <4>3 DEF Invoke
    <3> QED
      BY <2>3, <3>1, <3>2 DEF Invoke
  <2>4. CASE UNCHANGED gunrockVars
    BY <2>4 DEF gunrockVars
  <2> QED
    BY <2>1, <2>2, <2>3, <2>4 DEF GunrockNext
<1> QED
  BY <1>1, <1>2, RequestsAreReadAsSent, PTL DEF GunrockSpec

THEOREM SuccessIsTheStores == GunrockSpec => []SuccessIsForTheStore
<1>1. AnswersInv => SuccessIsForTheStore
  BY DEF AnswersInv
<1> QED
  BY <1>1, AnswersKeep, PTL

(***************************************************************************)
(* The variables of the loop hold what they can; descriptors are never     *)
(* more than the process may have.                                         *)
(***************************************************************************)
LoopInv ==
  /\ phase \in {"accept", "read", "invoke", "write", "down"}
  /\ open \in 0 .. MaxFds /\ lost \in 0 .. open
  /\ status \in {200, 404, 405, 409, 501}
  /\ DescriptorsAccounted

THEOREM GunrockIsTyped == GunrockSpec => []GunrockTypeOK
<1>1. GunrockInit => LoopInv
  BY GunrockAssumption DEF GunrockInit, Start, LoopInv, DescriptorsAccounted
<1>2. LoopInv /\ [GunrockNext]_gunrockVars => LoopInv'
  <2> SUFFICES ASSUME LoopInv, [GunrockNext]_gunrockVars PROVE LoopInv'
    OBVIOUS
  <2> USE GunrockAssumption DEF LoopInv, DescriptorsAccounted
  <2>1. CASE Accept
    BY <2>1 DEF Accept
  <2>2. CASE ReadRequest
    BY <2>2 DEF ReadRequest
  <2>3. CASE ReadFails
    BY <2>3 DEF ReadFails
  <2>4. CASE Invoke
    <3>1. PICK s \in Outcomes(FindService(http.path), sent.method) :
            IF s = Ended THEN Down ELSE phase' = "write" /\ status' = s
      BY <2>4 DEF Invoke
    <3>2. s \in {Ended, 200, 404, 405, 409, 501}
      BY DEF Outcomes, FindService, FilesOutcomes, StoreOutcomes, Refused
    <3> QED
      BY <2>4, <3>1, <3>2 DEF Invoke, Down
  <2>5. CASE WriteResponse
    BY <2>5 DEF WriteResponse
  <2>6. CASE AcceptFails \/ WriteFails
    BY <2>6 DEF AcceptFails, WriteFails, Down
  <2>7. CASE Restart
    BY <2>7 DEF Restart
  <2>8. CASE UNCHANGED gunrockVars
    BY <2>8 DEF gunrockVars
  <2> QED
    BY <2>1, <2>2, <2>3, <2>4, <2>5, <2>6, <2>7, <2>8 DEF GunrockNext
<1>3. LoopInv /\ ReadSoFar => GunrockTypeOK
  BY GunrockAssumption DEF LoopInv, ReadSoFar, HTTPTypeOK, HTTPObject, GunrockTypeOK
<1> QED
  BY <1>1, <1>2, <1>3, ReadingIsFaithful, PTL DEF GunrockSpec

(***************************************************************************)
(* What ends the server.  A message with header fields leaves the state at *)
(* VALUE, since the value of its last field, maybe empty, has had its      *)
(* callback; so the assertion at its end fails for its method alone.       *)
(***************************************************************************)
LastFieldHeard ==
  at \in {"end", "body", "complete"} /\ sent.fields # <<>> => http.state = "VALUE"

LEMMA AddKeepsState ==
  ASSUME HTTPTypeOK
  PROVE  AddHeaderField(http).state = http.state
BY DEF AddHeaderField, HTTPTypeOK, HTTPObject

LEMMA ParserStepHears ==
  ASSUME ReadSoFar, LastFieldHeard, ParserStep
  PROVE  LastFieldHeard' /\ (at' = "failed" => Fatal(sent))
<1>1. HTTPTypeOK
  BY DEF ReadSoFar
<1>2. CASE MessageBegin
  BY <1>2 DEF MessageBegin, LastFieldHeard
<1>3. CASE PathPiece
  <2>1. at = "path" /\ sent' = sent /\ (at' = "path" \/ at' = NextPart(0))
    BY <1>3 DEF PathPiece, Cut
  <2>2. sent.fields \in Seq(Fields)
    BY <1>1, SentFacts DEF HTTPTypeOK
  <2>3. sent.fields # <<>> => 0 < Len(sent.fields)
    BY <2>2, EmptySeq, LenProperties
  <2> QED
    BY <2>1, <2>3 DEF LastFieldHeard, NextPart
<1>4. CASE HeaderField
  BY <1>4 DEF HeaderField, LastFieldHeard, Cut
<1>5. CASE HeaderValue
  <2>1. at = "value" /\ at' \in {"value", "name", "end"}
    BY <1>5 DEF HeaderValue, Cut, NextPart
  <2>2. http'.state = "VALUE"
    BY <1>1, <1>5 DEF HeaderValue, ValueText, HTTPTypeOK, HTTPObject
  <2> QED
    BY <2>1, <2>2 DEF LastFieldHeard
<1>6. CASE HeadersComplete
  BY <1>1, <1>6, AddKeepsState DEF HeadersComplete, LastFieldHeard
<1>7. CASE BodyPiece
  <2>1. http'.state = http.state /\ sent' = sent /\ at = "body" /\ at' \in {"body", "complete"}
    BY <1>1, <1>7 DEF BodyPiece, HTTPTypeOK, HTTPObject
  <2> QED
    BY <2>1 DEF LastFieldHeard
<1>8. CASE MessageComplete
  <2>1. at = "complete" /\ at' \in {"onRead", "failed"}
        /\ (at' = "failed" => http.state # "VALUE" \/ sent.method \notin Methods)
    BY <1>8 DEF MessageComplete, Fail
  <2> QED
    BY <2>1 DEF LastFieldHeard, Fatal
<1>9. CASE OnReadReturns
  BY <1>9 DEF OnReadReturns, Fail, LastFieldHeard, Fatal
<1> QED
  BY <1>2, <1>3, <1>4, <1>5, <1>6, <1>7, <1>8, <1>9 DEF ParserStep

LEMMA LastFieldsAreHeard == GunrockSpec => []LastFieldHeard
<1>1. GunrockInit => LastFieldHeard
  BY DEF GunrockInit, Begin, LastFieldHeard
<1>2. ReadSoFar /\ LastFieldHeard /\ [GunrockNext]_gunrockVars => LastFieldHeard'
  <2> SUFFICES ASSUME ReadSoFar, LastFieldHeard, [GunrockNext]_gunrockVars PROVE LastFieldHeard'
    OBVIOUS
  <2>1. CASE Accept
    BY <2>1 DEF Accept, LastFieldHeard
  <2>2. CASE ReadRequest
    BY <2>2, ParserStepHears DEF ReadRequest
  <2>3. CASE UNCHANGED httpVars
    BY <2>3 DEF httpVars, LastFieldHeard
  <2>4. CASE UNCHANGED gunrockVars
    BY <2>4 DEF gunrockVars, LastFieldHeard
  <2> QED
    BY <2>1, <2>2, <2>3, <2>4
       DEF GunrockNext, AcceptFails, ReadFails, Invoke, WriteResponse, WriteFails, Restart
<1> QED
  BY <1>1, <1>2, ReadingIsFaithful, PTL DEF GunrockSpec

(***************************************************************************)
(* A server with descriptors left ends only for the reasons ServerStays    *)
(* names: it needs that the request was read as it was sent, for the       *)
(* service it reaches, and that open descriptors are accounted for.        *)
(***************************************************************************)
THEOREM ServerEndsWithReason == GunrockSpec => ServerStays
<1> DEFINE Reason == \/ phase = "read" /\ Fatal(sent)
                     \/ /\ phase = "invoke" /\ FindService(sent.path) = "store"
                        /\ sent.method \in {"PUT", "DELETE"}
                     \/ phase = "write"
           Known  == GunrockTypeOK /\ DescriptorsAccounted /\ ReadSoFar /\ AnswersInv
                       /\ LastFieldHeard
<1>1. Known /\ [GunrockNext]_gunrockVars
        => [phase # "down" /\ phase' = "down" /\ lost < MaxFds - 1 => Reason]_gunrockVars
  <2> SUFFICES ASSUME Known, GunrockNext, phase # "down", phase' = "down", lost < MaxFds - 1
               PROVE  Reason
    BY DEF gunrockVars
  <2>1. MaxFds \in Nat \ {0} /\ lost \in Nat /\ open \in Nat
    BY GunrockAssumption DEF GunrockTypeOK
  <2>2. CASE ReadRequest
    <3>1. phase = "read" /\ ParserStep /\ at' = "failed"
      BY <2>2 DEF ReadRequest
    <3> QED
      BY <3>1, ParserStepHears
  <2>3. CASE Invoke
    <3>1. /\ phase = "invoke" /\ http.path = sent.path
          /\ Ended \in Outcomes(FindService(sent.path), sent.method)
      BY <2>3 DEF Invoke, AnswersInv
    <3>2. open < MaxFds
      BY <2>1, <3>1 DEF DescriptorsAccounted
    <3>3. FindService(sent.path) = "store"
      BY <3>1 DEF FindService, Outcomes, FilesOutcomes, Refused, Ended
    <3>4. sent.method \in {"PUT", "DELETE"}
      BY <2>1, <3>1, <3>2, <3>3 DEF Outcomes, StoreOutcomes, Refused, Ended
    <3> QED
      BY <3>1, <3>3, <3>4
  <2>4. CASE WriteFails
    BY <2>4 DEF WriteFails
  <2>5. CASE AcceptFails
    BY <2>1, <2>5 DEF AcceptFails, DescriptorsAccounted
  <2> QED
    BY <2>2, <2>3, <2>4, <2>5 DEF GunrockNext, Accept, ReadFails, WriteResponse, Restart
<1>2. GunrockSpec => []Known
  BY GunrockIsTyped, DescriptorsAreAccounted, ReadingIsFaithful, AnswersKeep,
     LastFieldsAreHeard, PTL
<1> QED
  BY <1>1, <1>2, PTL DEF GunrockSpec, ServerStays
=============================================================================
