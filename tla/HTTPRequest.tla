---------------------------- MODULE HTTPRequest -----------------------------
(***************************************************************************)
(* Reading one request: readRequest() reads from the socket and gives the  *)
(* parser what arrived, until the callbacks of class HTTP have seen the    *)
(* end of the message.  What arrives at once ends anywhere, and a text it  *)
(* cuts reaches its callback in pieces.  A step is one callback.           *)
(*                                                                         *)
(* A text is a sequence of tokens.  A message is its method, path, header  *)
(* fields and body; behind says that its client sends more after it.       *)
(***************************************************************************)
EXTENDS Sequences, Integers

CONSTANTS Tokens,    \* what a text is made of
          Requests   \* the messages clients send

Texts   == Seq(Tokens)
Fields  == [name : Texts \ {<<>>}, value : Texts]
Message == [method : STRING, path : Texts, fields : Seq(Fields), body : Texts,
            behind : BOOLEAN]

ASSUME RequestsAssumption == Requests \subseteq Message

\* The methods messageComplete lets pass; the parser knows more.
Methods == {"GET", "CONNECT", "POST", "HEAD", "PUT", "DELETE", "MOVE"}

Null == <<>>   \* m_field and m_value when they point to nothing; names are not empty

VARIABLES
  sent,      \* the message of the client
  at,        \* the part of it the parser is in
  idx,       \* which header field
  off,       \* how much of the text it is in has reached a callback
  http       \* the fields of class HTTP

httpVars == <<sent, at, idx, off, http>>

NewHTTP == [state |-> "INIT", field |-> Null, value |-> Null, headers |-> <<>>,
            path |-> <<>>, body |-> <<>>]

Begin(m) == sent = m /\ at = "start" /\ idx = 1 /\ off = 0 /\ http = NewHTTP

----------------------------------------------------------------------------
\* The parser calls back with what it has of a text when the text ends, and
\* also when the data ends in it or right behind it; the rest, maybe nothing,
\* comes with the next data.
Piece(text, e) == SubSeq(text, off + 1, e)

Cut(text, e)  == e \in off + 1 .. Len(text) /\ off' = e /\ UNCHANGED <<at, idx>>
Ends(text, e) == e = Len(text) /\ off' = 0

\* An assertion that fails ends the process.
Fail == at' = "failed" /\ UNCHANGED <<sent, idx, off, http>>

\* The part that follows header field i.
NextPart(i) == IF i < Len(sent.fields) THEN "name" ELSE "end"

MessageBegin ==
  /\ at = "start"
  /\ at' = "path" /\ http' = [http EXCEPT !.state = "HEADER"]
  /\ UNCHANGED <<sent, idx, off>>

\* path_cb(), and the part of the parser that calls it.
PathText(h, text) == [h EXCEPT !.path = @ \o text]

PathPiece ==
  /\ at = "path"
  /\ \E e \in off .. Len(sent.path) :
       /\ http' = PathText(http, Piece(sent.path, e))
       /\ \/ Cut(sent.path, e)
          \/ Ends(sent.path, e) /\ at' = NextPart(0) /\ UNCHANGED idx
  /\ UNCHANGED sent

\* addHeaderField(): the field that is complete joins the list.
AddHeaderField(h) ==
  IF h.field = Null THEN h
  ELSE [h EXCEPT !.headers = Append(@, [name |-> h.field, value |-> h.value]),
                 !.field = Null, !.value = Null]

\* newHeaderField()
NewHeaderField(h, text) ==
  [AddHeaderField(h) EXCEPT !.field = text, !.value = <<>>, !.state = "FIELD"]

\* A mutant of FieldText: every piece starts a field.
FieldTextAlwaysNew(h, text) == NewHeaderField(h, text)

FieldText(h, text) ==
  IF h.state = "FIELD" THEN [h EXCEPT !.field = @ \o text] ELSE NewHeaderField(h, text)

HeaderField ==
  /\ at = "name"
  /\ \E e \in off .. Len(sent.fields[idx].name) :
       /\ http' = FieldText(http, Piece(sent.fields[idx].name, e))
       /\ \/ Cut(sent.fields[idx].name, e)
          \/ Ends(sent.fields[idx].name, e) /\ at' = "value" /\ UNCHANGED idx
  /\ UNCHANGED sent

\* A mutant of ValueText: an empty value does not count.
ValueTextNotEmpty(h, text) ==
  IF text = <<>> THEN h ELSE [h EXCEPT !.value = @ \o text, !.state = "VALUE"]

ValueText(h, text) == [h EXCEPT !.value = @ \o text, !.state = "VALUE"]

HeaderValue ==
  /\ at = "value"
  /\ \E e \in off .. Len(sent.fields[idx].value) :
       /\ http' = ValueText(http, Piece(sent.fields[idx].value, e))
       /\ \/ Cut(sent.fields[idx].value, e)
          \/ /\ Ends(sent.fields[idx].value, e)
             /\ at' = NextPart(idx) /\ idx' = idx + 1
  /\ UNCHANGED sent

HeadersComplete ==
  /\ at = "end"
  /\ http' = AddHeaderField(http)
  /\ at' = IF sent.body = <<>> THEN "complete" ELSE "body"
  /\ UNCHANGED <<sent, idx, off>>

\* A mutant of BodyPiece: the message is not complete if its body is cut.
BodyPieceAtOnce ==
  /\ at = "body"
  /\ \E e \in off + 1 .. Len(sent.body) :
       /\ http' = [http EXCEPT !.body = @ \o Piece(sent.body, e)]
       /\ off' = e
       /\ at' = IF e - off = Len(sent.body) THEN "complete" ELSE "body"
  /\ UNCHANGED <<sent, idx>>

\* The body has no end mark: its last byte completes the message.
BodyPiece ==
  /\ at = "body"
  /\ \E e \in off + 1 .. Len(sent.body) :
       /\ http' = [http EXCEPT !.body = @ \o Piece(sent.body, e)]
       /\ off' = e
       /\ at' = IF e = Len(sent.body) THEN "complete" ELSE "body"
  /\ UNCHANGED <<sent, idx>>

\* A message without header fields has left the state at HEADER, and nothing
\* ever sets BODY.
MessageComplete ==
  /\ at = "complete"
  /\ IF http.state \in {"VALUE", "BODY"} /\ sent.method \in Methods
     THEN /\ at' = "onRead" /\ http' = [http EXCEPT !.state = "DONE"]
          /\ UNCHANGED <<sent, idx, off>>
     ELSE Fail

\* onRead() has handed over the data that held the end of the message.  More
\* data of the same read behind it is an assertion, since a second message
\* begins in a state other than INIT.  The parser stops before the newline that
\* ends a CONNECT: it is passed over if it is the rest of the read, and when it
\* came alone addData has returned 0, an assertion again.
OnReadReturns ==
  /\ at = "onRead"
  /\ \/ at' = "read" /\ UNCHANGED <<sent, idx, off, http>>
     \/ (sent.behind \/ sent.method = "CONNECT") /\ Fail

ParserStep ==
  \/ MessageBegin \/ PathPiece \/ HeaderField \/ HeaderValue \/ HeadersComplete
  \/ BodyPiece \/ MessageComplete \/ OnReadReturns

\* readRequest() is about to read again: everything that arrived is used up.
MayRead == at \in {"start", "path", "name", "value", "end", "body"}

----------------------------------------------------------------------------
\* A request that has been read is the one that was sent, wherever the data was
\* cut: its fields in their order, each name with its value, its path and body.
ReadAsSent ==
  at \in {"onRead", "read"} =>
    http.headers = sent.fields /\ http.path = sent.path /\ http.body = sent.body
=============================================================================
