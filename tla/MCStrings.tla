----------------------------- MODULE MCStrings ------------------------------
(***************************************************************************)
(* The functions of Strings on every text over small alphabets, up to a    *)
(* length, against reference definitions.  A behaviour writes one text.    *)
(***************************************************************************)
EXTENDS Strings, FiniteSets, TLC

CONSTANTS Alphabets, MaxChars   \* sets of characters; how long a text of each gets

VARIABLES text, chars

vars == <<text, chars>>

\* The characters that the functions treat differently.
Texts  == {Percent, Amp, Equals, 52, 97, 45}           \* % & = 4 a -
Paths  == {Slash, 97}                                  \* / a
Codes  == {65, Equals, 33}                             \* A = !
Bytes  == {0, 127, 128, 251, 255}
MCAlphabets == {Texts, Paths, Codes, Bytes}
MCMaxChars  == (Texts :> 5) @@ (Paths :> 8) @@ (Codes :> 8) @@ (Bytes :> 4)

Init == text = <<>> /\ chars \in Alphabets

Next == /\ Len(text) < MaxChars[chars]
        /\ \E c \in chars : text' = Append(text, c)
        /\ UNCHANGED chars

Spec == Init /\ [][Next]_vars

----------------------------------------------------------------------------
\* The fields of a text: the longest stretches without the delimiter, by their
\* first and last positions, in order.
FieldsOf(s, d) ==
  LET inside == {p \in (DOMAIN s) \X (DOMAIN s) :
                   /\ p[1] <= p[2]
                   /\ \A i \in p[1] .. p[2] : s[i] # d
                   /\ p[1] > 1 => s[p[1] - 1] = d
                   /\ p[2] < Len(s) => s[p[2] + 1] = d}
      order  == SetToSortSeq(inside, LAMBDA p, q : p[1] < q[1])
  IN  [i \in DOMAIN order |-> SubSeq(s, order[i][1], order[i][2])]

Delimiters == {Slash, Amp, Equals, Percent}

\* The two split functions return the fields of the text and no empty one, with
\* delimiters at either end or next to each other; put together again, what
\* splitWithDelimiter returns is the text.
SplitIsFields ==
  \A d \in Delimiters :
     /\ Split(text, d) = FieldsOf(text, d)
     /\ SplitLines(text, d) = FieldsOf(text, d)
     /\ FlattenSeq(SplitWithDelimiter(text, d)) = text

\* All ways to cut the text into a key and a value, and one with two keys.
Dicts == {Put(<<>>, SubSeq(text, 1, i), SubSeq(text, i + 1, Len(text))) : i \in 0 .. Len(text)}
         \cup {Put(Put(<<>>, text, <<97>>), <<52>> \o text, text)}

\* A dictionary is read back from its encoded form, whatever of '%', '&' and '='
\* is in it, exactly when its keys and values are not empty and ASCII.
FormIsReadBack ==
  \A dict \in Dicts :
     FormOf(FormText(dict)) = [ok |-> TRUE, dict |-> dict] <=>
       \A s \in DOMAIN dict \cup {dict[x] : x \in DOMAIN dict} :
          s # <<>> /\ \A i \in DOMAIN s : s[i] < 128

\* How many characters of a Base64 text stand for six bits.
Digits(s) == Cardinality({i \in DOMAIN s : s[i] # Equals})

\* Bytes are read back from their Base64 text, padded or not.  Of any text that
\* is accepted as many bytes are written as its characters hold and are reported
\* as its length, but for a text of which the last of two '=' is missing: there
\* one byte more is reported than is written.
Base64IsReadBack ==
  /\ text # <<>> =>
       LET code == BytesToBase64(text)
       IN  \A s \in {code, SelectSeq(code, LAMBDA c : c # Equals)} :
             Base64ToBytes(s) = [len |-> Len(text), bytes |-> text]
  /\ text # <<>> /\ Base64ToBytes(text).bytes # Thrown =>
       LET b == Base64ToBytes(text)
       IN  /\ Len(b.bytes) = (6 * Digits(text)) \div 8
           /\ b.len = Len(b.bytes)
                      + (IF Len(text) % 4 = 3 /\ text[Len(text)] = Equals THEN 1 ELSE 0)

\* What endswith says is so, but for a suffix that is one character longer than
\* the text and always found.  The constructor of FileService gives up the
\* slashes at the end of its directory, one at a time, and for a directory of
\* nothing else it never comes to its test for an empty name.
BasedirIsStripped ==
  /\ \A n \in 0 .. 2 : \A suffix \in {SubSeq(text, i, i + n) : i \in 1 .. Len(text) - n} \cup {<<Slash>>} :
       EndsWith(text, suffix) <=> IsSuffix(suffix, text) \/ Len(suffix) = Len(text) + 1
  /\ EndsWith(text, <<Slash>>) /\ (\E i \in DOMAIN text : text[i] # Slash) =>
       /\ FieldsOf(Shorter(text), Slash) = FieldsOf(text, Slash)
       /\ Len(Shorter(text)) < Len(text)
  /\ (\A i \in DOMAIN text : text[i] = Slash) => EndsWith(Shorter(text), <<Slash>>)
=============================================================================
