------------------------------ MODULE Strings -------------------------------
(***************************************************************************)
(* The text functions: split (StringUtils and HttpUtils), the encoding of  *)
(* forms (WwwFormEncodedDict), query parameters (HttpUtils), Base64, and   *)
(* the directory name of FileService.                                      *)
(*                                                                         *)
(* A text is a sequence of characters and a character is its byte, since   *)
(* the functions do arithmetic on them.  A function that throws returns    *)
(* Thrown, which is no text.                                               *)
(***************************************************************************)
EXTENDS Integers, Sequences, SequencesExt

Slash   == 47
Percent == 37
Amp     == 38
Equals  == 61
Plus    == 43

Thrown == <<-1>>

\* A loop over a sequence: FoldLeft of the library, turn by turn, since texts
\* are too long for its definition over sets.
Loop(Turn(_, _), start, seq) ==
  LET after[i \in 0 .. Len(seq)] == IF i = 0 THEN start ELSE Turn(after[i - 1], seq[i])
  IN  after[Len(seq)]

----------------------------------------------------------------------------
\* StringUtils.  The loop puts out the piece so far, if any, and the delimiter.
\* A mutant of Flush: also an empty piece.
FlushAlways(pieces, piece) == Append(pieces, piece)

Flush(pieces, piece) == IF piece = <<>> THEN pieces ELSE Append(pieces, piece)

SplitWithDelimiter(str, delimiter) ==
  LET Turn(acc, c) ==
        IF c = delimiter
        THEN [out |-> Append(Flush(acc.out, acc.piece), <<c>>), piece |-> <<>>]
        ELSE [acc EXCEPT !.piece = Append(@, c)]
      end == Loop(Turn, [out |-> <<>>, piece |-> <<>>], str)
  IN  Flush(end.out, end.piece)

Split(str, delimiter) ==
  SelectSeq(SplitWithDelimiter(str, delimiter), LAMBDA piece : piece # <<delimiter>>)

\* HttpUtils: getline, which reads nothing more behind a last delimiter.
Lines(str, delimiter) ==
  LET Turn(acc, c) ==
        IF c = delimiter THEN [out |-> Append(acc.out, acc.line), line |-> <<>>]
                         ELSE [acc EXCEPT !.line = Append(@, c)]
      end == Loop(Turn, [out |-> <<>>, line |-> <<>>], str)
  IN  Flush(end.out, end.line)

SplitLines(str, delimiter) == SelectSeq(Lines(str, delimiter), LAMBDA line : line # <<>>)

----------------------------------------------------------------------------
\* Escapes

IsAlnum(c) == c \in (48 .. 57) \cup (65 .. 90) \cup (97 .. 122)

HexDigit(v) == IF v < 10 THEN 48 + v ELSE 97 + v - 10   \* as %x prints it

\* A mutant of Escape: only what separates pairs, keys and values.
EscapeSeparators(c) == IF c = Amp THEN <<Percent, 50, 54>>
                       ELSE IF c = Equals THEN <<Percent, 51, 100>> ELSE <<c>>

\* A char from 128 on is negative: %02x prints ffffff.. and hex[5] keeps 'fff'.
Escape(c) ==
  IF IsAlnum(c) THEN <<c>>
  ELSE <<Percent>> \o (IF c < 128 THEN <<HexDigit(c \div 16), HexDigit(c % 16)>>
                                  ELSE [i \in 1 .. 3 |-> HexDigit(15)])

UrlEncode(str) == FlattenSeq([i \in DOMAIN str |-> Escape(str[i])])

HexValues == [c \in (48 .. 57) \cup (65 .. 70) \cup (97 .. 102) |->
                IF c <= 57 THEN c - 48 ELSE IF c <= 70 THEN c - 55 ELSE c - 87]

\* sscanf("%02x") takes the digits there are.  (That it also takes white space,
\* a sign and 0x in front of them is left out.)
Scanned(hex) ==
  IF hex[1] \notin DOMAIN HexValues THEN Thrown
  ELSE IF Len(hex) > 1 /\ hex[2] \in DOMAIN HexValues
       THEN <<16 * HexValues[hex[1]] + HexValues[hex[2]]>>
       ELSE <<HexValues[hex[1]]>>

\* A piece behind '%' begins with the digits; substr(2) throws if it is shorter.
Unescape(line) ==
  IF Scanned(SubSeq(line, 1, IF Len(line) < 2 THEN 1 ELSE 2)) = Thrown \/ Len(line) < 2
  THEN Thrown
  ELSE Scanned(SubSeq(line, 1, 2)) \o SubSeq(line, 3, Len(line))

UrlDecode(str) ==
  LET Turn(acc, line) ==
        CASE acc.out = Thrown     -> acc
          [] line = <<Percent>>   -> [acc EXCEPT !.hex = TRUE]
          [] acc.hex              -> [out |-> IF Unescape(line) = Thrown THEN Thrown
                                              ELSE acc.out \o Unescape(line),
                                      hex |-> FALSE]
          [] OTHER                -> [acc EXCEPT !.out = @ \o line]
  IN  Loop(Turn, [out |-> <<>>, hex |-> FALSE], SplitWithDelimiter(str, Percent)).out

----------------------------------------------------------------------------
\* Dictionaries: functions whose domain is the keys.

Put(dict, key, value) == [x \in DOMAIN dict \cup {key} |-> IF x = key THEN value ELSE dict[x]]

\* One pair after the other is put into the map; the first bad one throws.
Pairs(pairs) ==
  LET Turn(acc, pair) ==
        IF ~acc.ok \/ Len(pair) # 2 \/ \E i \in DOMAIN pair : pair[i] = Thrown
        THEN [acc EXCEPT !.ok = FALSE]
        ELSE [acc EXCEPT !.dict = Put(@, pair[1], pair[2])]
  IN  Loop(Turn, [ok |-> TRUE, dict |-> <<>>], pairs)

\* The constructor of WwwFormEncodedDict.
Decoded(texts) == [i \in DOMAIN texts |-> UrlDecode(texts[i])]

FormOf(body) ==
  LET pairs == Split(body, Amp)
  IN  Pairs([i \in DOMAIN pairs |-> Decoded(Split(pairs[i], Equals))])

\* HttpUtils::params, which does not decode.
Params(query) ==
  LET pairs == SplitLines(query, Amp)
  IN  Pairs([i \in DOMAIN pairs |-> SplitLines(pairs[i], Equals)])

\* The order of std::map<string, ...>.
Before(s, t) ==
  \/ IsStrictPrefix(s, t)
  \/ \E i \in DOMAIN s \cap DOMAIN t : s[i] < t[i] /\ \A j \in 1 .. i - 1 : s[j] = t[j]

FormText(dict) ==
  LET keys == SetToSortSeq(DOMAIN dict, Before)
  IN  FlattenSeq([i \in DOMAIN keys |->
        (IF i = 1 THEN <<>> ELSE <<Amp>>)
        \o UrlEncode(keys[i]) \o <<Equals>> \o UrlEncode(dict[keys[i]])])

----------------------------------------------------------------------------
\* Base64

CharOf(bits) ==
  CASE bits <= 25            -> 65 + bits
    [] bits \in 26 .. 51     -> 97 + bits - 26
    [] bits \in 52 .. 61     -> 48 + bits - 52
    [] bits = 62             -> Plus
    [] bits = 63             -> Slash

\* getBase64ByteValue: '=' counts as 0.
Values == [c \in {CharOf(bits) : bits \in 0 .. 63} \cup {Equals} |->
             IF c = Equals THEN 0 ELSE CHOOSE bits \in 0 .. 63 : CharOf(bits) = c]

\* A mutant of EncodeChunk: '=' already for the character that holds the last bits.
EncodeChunkShort(data) ==
  LET byte(i) == IF i <= Len(data) THEN data[i] ELSE 0
      bits    == byte(1) * 2^16 + byte(2) * 2^8 + byte(3)
  IN  [i \in 1 .. 4 |-> IF i <= Len(data) \/ Len(data) = 3 THEN CharOf((bits \div 2^(24 - 6 * i)) % 64)
                                                           ELSE Equals]

\* Up to three bytes as four characters.
EncodeChunk(data) ==
  LET byte(i) == IF i <= Len(data) THEN data[i] ELSE 0
      bits    == byte(1) * 2^16 + byte(2) * 2^8 + byte(3)
  IN  [i \in 1 .. 4 |-> IF i <= Len(data) + 1 THEN CharOf((bits \div 2^(24 - 6 * i)) % 64)
                                              ELSE Equals]

\* What every third byte begins, or every fourth character.
Chunks(s, n) == [i \in 1 .. (Len(s) + n - 1) \div n |->
                   SubSeq(s, n * (i - 1) + 1, IF n * i < Len(s) THEN n * i ELSE Len(s))]

BytesToBase64(data) == FlattenSeq([i \in DOMAIN Chunks(data, 3) |-> EncodeChunk(Chunks(data, 3)[i])])

UrlSafe(text) ==
  [i \in DOMAIN text |-> IF text[i] = Plus THEN 45 ELSE IF text[i] = Slash THEN 95 ELSE text[i]]

\* The bytes written for four characters.
DecodeChunk(str, isLast) ==
  IF \/ Equals \in {str[1], str[2]}
     \/ str[3] = Equals /\ ~(isLast /\ str[4] = Equals)
     \/ str[4] = Equals /\ ~isLast
     \/ \E i \in 1 .. 4 : str[i] \notin DOMAIN Values
  THEN Thrown
  ELSE LET numBytes == IF str[4] # Equals THEN 3 ELSE IF str[3] # Equals THEN 2 ELSE 1
           bits == Values[str[1]] * 2^18 + Values[str[2]] * 2^12 + Values[str[3]] * 2^6
                   + Values[str[4]]
       IN  [i \in 1 .. numBytes |-> (bits \div 2^(24 - 8 * i)) % 256]

\* The length reported and the bytes written, which need not be as many.  For
\* "" neither is set.
Base64ToBytes(s) ==
  LET rem    == Len(s) % 4
      pads   == CASE rem = 3 -> <<Equals>> [] rem = 2 -> <<Equals, Equals>> [] OTHER -> <<>>
      size   == (Len(s) \div 4) * 3
                + (CASE rem = 3 -> 2
                     [] rem = 2 -> 1
                     [] OTHER   -> IF s[Len(s)] # Equals THEN 0
                                   ELSE IF s[Len(s) - 1] = Equals THEN -2 ELSE -1)
      chunks == Chunks(s \o pads, 4)
      parts  == [i \in DOMAIN chunks |-> DecodeChunk(chunks[i], i = Len(chunks))]
  IN  IF rem = 1 \/ \E i \in DOMAIN parts : parts[i] = Thrown
      THEN [len |-> 0, bytes |-> Thrown]
      ELSE [len |-> size, bytes |-> FlattenSeq(parts)]

----------------------------------------------------------------------------
\* FileService

\* A mutant of RFind: the first place.
Find(str, suffix) ==
  LET places == {p \in 0 .. Len(str) - Len(suffix) : SubSeq(str, p + 1, p + Len(suffix)) = suffix}
  IN  IF places = {} THEN -1 ELSE CHOOSE p \in places : \A q \in places : p <= q

\* rfind: the last place, from 0 on.  npos is the largest size_t, which is -1
\* there, and so is the difference of a suffix that is one character longer.
RFind(str, suffix) ==
  LET places == {p \in 0 .. Len(str) - Len(suffix) : SubSeq(str, p + 1, p + Len(suffix)) = suffix}
  IN  IF places = {} THEN -1 ELSE CHOOSE p \in places : \A q \in places : q <= p

EndsWith(str, suffix) == RFind(str, suffix) = Len(str) - Len(suffix)

\* One turn of the loop in the constructor, while EndsWith(basedir, "/").
\* substr(0, length - 1) of "" is "".
Shorter(basedir) == IF basedir = <<>> THEN <<>> ELSE SubSeq(basedir, 1, Len(basedir) - 1)
=============================================================================
