----------------------------- MODULE ConvertUtf -----------------------------
(***************************************************************************)
(* The conversions between UTF-8, UTF-16 and UTF-32 (llvm/ConvertUTF.cpp   *)
(* and ConvertUTFWrapper.cpp) by which strings pass between Java and C++.  *)
(* Texts are sequences of bytes, of 16-bit units and of 32-bit numbers.    *)
(***************************************************************************)
EXTENDS StringRef, SequencesExt

Lexer == INSTANCE JsonLexer WITH IntegerBits <- 64

High == 55296 .. 56319  \* UNI_SUR_HIGH_START .. UNI_SUR_HIGH_END
Low == 56320 .. 57343   \* UNI_SUR_LOW_START .. UNI_SUR_LOW_END
MaxLegal == 1114111     \* UNI_MAX_LEGAL_UTF32
Replacement == 65533    \* UNI_REPLACEMENT_CHAR
OK == "conversionOK"

(* What one round of a converter's loop does: it takes units of the source *)
(* and puts units into the target, or it stops with a result and leaves    *)
(* both as they are.                                                       *)
On(take, put) == [take |-> take, put |-> put, result |-> OK, stop |-> FALSE]
Illegal(take, put) == [On(take, put) EXCEPT !.result = "sourceIllegal"]
Stop(result) == [take |-> 0, put |-> <<>>, result |-> result, stop |-> TRUE]
InRoom(room, round) == IF Len(round.put) > room THEN Stop("targetExhausted") ELSE round

(* the bytes of a code point, from the last one *)
Utf8(ch) ==
  LET Byte(shift) == 128 + ((ch \div shift) % 64) IN
  IF ch < 128 THEN <<ch>>
  ELSE IF ch < 2048 THEN <<192 + ch \div 64, Byte(1)>>
  ELSE IF ch < 65536 THEN <<224 + ch \div 4096, Byte(64), Byte(1)>>
  ELSE <<240 + ch \div 262144, Byte(4096), Byte(64), Byte(1)>>

Utf16(ch) ==
  IF ch < 65536 THEN <<ch>>
  ELSE <<55296 + (ch - 65536) \div 1024, 56320 + ((ch - 65536) % 1024)>>

-----------------------------------------------------------------------------
(* One round of each converter on the source s.                            *)

(* the code point at the front of UTF-16, as the put of a round *)
CodePoint16(s, strict) ==
  LET paired == Len(s) > 1 /\ s[2] \in Low IN
  IF s[1] \in High
  THEN IF Len(s) = 1 THEN Stop("sourceExhausted")
       ELSE IF paired THEN On(2, <<(s[1] - 55296) * 1024 + (s[2] - 56320) + 65536>>)
       ELSE IF strict THEN Stop("sourceIllegal")
       ELSE On(1, <<s[1]>>)
  ELSE IF strict /\ s[1] \in Low THEN Stop("sourceIllegal")
  ELSE On(1, <<s[1]>>)

Round16to32(s, room, strict) == InRoom(room, CodePoint16(s, strict))

Round16to8(s, room, strict) ==
  LET read == CodePoint16(s, strict) IN
  IF read.stop THEN read ELSE InRoom(room, On(read.take, Utf8(read.put[1])))

Round32to8(s, room, strict) ==
  IF strict /\ s[1] \in High \cup Low THEN Stop("sourceIllegal")
  ELSE InRoom(room, IF s[1] > MaxLegal THEN Illegal(1, Utf8(Replacement)) ELSE On(1, Utf8(s[1])))

(* strict conversion passes over a number that is too large, and goes on *)
Round32to16(s, room, strict) ==
  IF room < 1 THEN Stop("targetExhausted")
  ELSE IF s[1] \in High \cup Low
       THEN IF strict THEN Stop("sourceIllegal") ELSE On(1, <<Replacement>>)
  ELSE IF s[1] > MaxLegal
       THEN IF strict THEN Illegal(1, <<>>) ELSE On(1, <<Replacement>>)
  ELSE InRoom(room, On(1, Utf16(s[1])))

trailingBytesForUTF8(b) ==
  IF b < 192 THEN 0 ELSE IF b < 224 THEN 1 ELSE IF b < 240 THEN 2
  ELSE IF b < 248 THEN 3 ELSE IF b < 252 THEN 4 ELSE 5

isLegalUTF8(s, length) ==
  /\ length <= 4
  /\ \A i \in 2 .. length : s[i] \in 128 .. 191
  /\ length > 1 => CASE s[1] = 224 -> s[2] >= 160
                     [] s[1] = 237 -> s[2] <= 159
                     [] s[1] = 240 -> s[2] >= 144
                     [] s[1] = 244 -> s[2] <= 143
                     [] OTHER -> TRUE
  /\ s[1] \notin 128 .. 193 /\ s[1] <= 244

(* The code point of the bytes s: their sum in 6-bit places less           *)
(* offsetsFromUTF8.  Legal bytes stand for no surrogate and for nothing    *)
(* above MaxLegal, so that the code's tests for these never hold.          *)
CodePoint8(s) ==
  LET sum[i \in 0 .. Len(s)] == IF i = 0 THEN 0 ELSE sum[i - 1] * 64 + s[i]
      offset == CASE Len(s) = 1 -> 0 [] Len(s) = 2 -> 12416 [] Len(s) = 3 -> 925824
                  [] Len(s) = 4 -> 63447168
  IN  sum[Len(s)] - offset

Round8to16(s, room, strict) ==
  LET length == trailingBytesForUTF8(s[1]) + 1 IN
  IF length > Len(s) THEN Stop("sourceExhausted")
  ELSE IF ~isLegalUTF8(s, length) THEN Stop("sourceIllegal")
  ELSE InRoom(room, On(length, Utf16(CodePoint8(take_front(s, length)))))

(* findMaximalSubpartOfIllFormedUTF8Sequence *)
MaximalSubpart(s) ==
  LET second == CASE s[1] = 224 -> 160 .. 191
                  [] s[1] = 237 -> 128 .. 159
                  [] s[1] = 240 -> 144 .. 191
                  [] s[1] = 244 -> 128 .. 143
                  [] s[1] \in (225 .. 243) \ {237, 240} -> 128 .. 191
                  [] OTHER -> {}
  IN  IF Len(s) < 2 \/ s[2] \notin second THEN 1
      ELSE IF s[1] < 240 \/ Len(s) < 3 \/ s[3] \notin 128 .. 191 THEN 2
      ELSE 3

(* The replacement of a sequence that is cut off by the end of the source  *)
(* is put without a look at the target's end.                              *)
Round8to32(s, room, strict, partial) ==
  LET length == trailingBytesForUTF8(s[1]) + 1
      replaced == Illegal(MaximalSubpart(s), <<Replacement>>)
  IN  IF length > Len(s) THEN IF strict \/ partial THEN Stop("sourceExhausted") ELSE replaced
      ELSE IF room < 1 THEN Stop("targetExhausted")
      ELSE IF ~isLegalUTF8(s, length) THEN IF strict THEN Stop("sourceIllegal") ELSE replaced
      ELSE On(length, <<CodePoint8(take_front(s, length))>>)

-----------------------------------------------------------------------------
Round(converter, s, room, strict) ==
  CASE converter = "UTF16toUTF32" -> Round16to32(s, room, strict)
    [] converter = "UTF16toUTF8" -> Round16to8(s, room, strict)
    [] converter = "UTF32toUTF8" -> Round32to8(s, room, strict)
    [] converter = "UTF32toUTF16" -> Round32to16(s, room, strict)
    [] converter = "UTF8toUTF16" -> Round8to16(s, room, strict)
    [] converter = "UTF8toUTF32" -> Round8to32(s, room, strict, FALSE)
    [] converter = "UTF8toUTF32Partial" -> Round8to32(s, room, strict, TRUE)

(* The loop of a converter: what is left of the source, the target, and    *)
(* the result, which a later round does not clear.                         *)
Go(c, round) ==
  [source |-> drop_front(c.source, round.take), target |-> c.target \o round.put,
   result |-> IF round.result = OK THEN c.result ELSE round.result, stop |-> round.stop]

RECURSIVE Loop(_, _, _, _)
Loop(converter, c, room, strict) ==
  IF c.source = <<>> \/ c.stop THEN c
  ELSE Loop(converter, Go(c, Round(converter, c.source, room - Len(c.target), strict)), room, strict)

Convert(converter, s, room, strict) ==
  Loop(converter, [source |-> s, target |-> <<>>, result |-> OK, stop |-> FALSE], room, strict)

ConvertCodePointToUTF8(ch) == Convert("UTF32toUTF8", <<ch>>, 4, TRUE)

NotConverted == [ok |-> FALSE, text |-> <<>>]
Converted(c) == IF c.result = OK THEN [ok |-> TRUE, text |-> c.target] ELSE NotConverted

SwapBytes(unit) == (unit % 256) * 256 + unit \div 256
ByteOrderMark == 65279
Swapped == SwapBytes(ByteOrderMark)

(* JStringRef: a byte order mark at the front is dropped, and one with its *)
(* bytes swapped has all the bytes swapped first                           *)
convertUTF16ToUTF8String(units) ==
  LET native == IF units[1] = Swapped THEN [i \in DOMAIN units |-> SwapBytes(units[i])] ELSE units
      source == IF native[1] = ByteOrderMark THEN Tail(native) ELSE native
  IN  IF units = <<>> THEN [ok |-> TRUE, text |-> <<>>]
      ELSE Converted(Convert("UTF16toUTF8", source, Len(units) * 4 + 1, TRUE))

(* MakeJString *)
convertUTF8ToUTF16String(bytes) ==
  Converted(Convert("UTF8toUTF16", bytes, Len(bytes) + 1, TRUE))

-----------------------------------------------------------------------------
(* What the texts stand for: their code points, by the Unicode standard.   *)

RECURSIVE CodePoints8(_), CodePoints16(_), Replaced(_)

IsChar(s) == Lexer!IsScalar(Lexer!Value(s)) /\ Lexer!Shortest(s)
CharsAtFront(s) == {n \in 1 .. Min({4, Len(s)}) : IsChar(take_front(s, n))}

CodePoints8(s) ==
  IF s = <<>> THEN <<>>
  ELSE LET n == Min(CharsAtFront(s)) IN
       <<Lexer!Value(take_front(s, n))>> \o CodePoints8(drop_front(s, n))

IsPair(s) == Len(s) > 1 /\ s[1] \in High /\ s[2] \in Low
CodePoints16(s) ==
  IF s = <<>> THEN <<>>
  ELSE IF IsPair(s) THEN <<65536 + (s[1] % 1024) * 1024 + (s[2] % 1024)>> \o CodePoints16(drop_front(s, 2))
  ELSE <<s[1]>> \o CodePoints16(Tail(s))
WellFormed32(s) == \A i \in DOMAIN s : Lexer!IsScalar(s[i])
WellFormed16(s) == WellFormed32(CodePoints16(s))

(* A replacement for each maximal subpart (Unicode 6.3.0, D93b): as much   *)
(* as can begin a character, or one byte.                                  *)
BeginsChar(s) == \E t \in SeqOf({128, 144, 160}, 3) : IsChar(s \o t)
Replaced(s) ==
  IF s = <<>> THEN <<>>
  ELSE IF CharsAtFront(s) # {}
  THEN LET n == Min(CharsAtFront(s)) IN
       <<Lexer!Value(take_front(s, n))>> \o Replaced(drop_front(s, n))
  ELSE LET subparts == {n \in 1 .. Min({3, Len(s)}) : n = 1 \/ BeginsChar(take_front(s, n))} IN
       <<Replacement>> \o Replaced(drop_front(s, Max(subparts)))

(* A strict conversion that stops for want of room, or at the end of the   *)
(* part of the source it was given, goes on from there as if it had not    *)
(* been stopped, and never puts more than it has room for.                 *)
GoesOn(converter, first, room, more, whole) ==
  /\ Len(first.target) <= room
  /\ [Convert(converter, first.source \o more, 4 * Len(first.source \o more), TRUE)
        EXCEPT !.target = first.target \o @] = whole

InPieces(converter, s, whole) ==
  \A n \in 0 .. Len(s), room \in 0 .. Len(whole.target) :
    GoesOn(converter, Convert(converter, take_front(s, n), room, TRUE), room, drop_front(s, n), whole)

(* UTF-8: strict conversions take what is well formed, all of it, and      *)
(* stop at the first character that is not; a lenient one puts exactly the *)
(* replacements that Unicode recommends.                                   *)
FromUtf8(s, to16, to32) ==
  LET passed == take_front(s, Len(s) - Len(to32.source)) IN
  /\ to32.result = OK <=> Lexer!WellFormed(s)
  /\ to16.result = to32.result /\ to16.source = to32.source
  /\ Lexer!WellFormed(passed) /\ to32.target = CodePoints8(passed)
  /\ CodePoints16(to16.target) = to32.target
  /\ to32.source # <<>> => CharsAtFront(to32.source) = {}
  /\ Convert("UTF8toUTF32", s, 4 * Len(s), FALSE).target = Replaced(s)

(* UTF-16: a strict conversion succeeds if and only if the surrogates are  *)
(* paired.                                                                 *)
FromUtf16(s, to8, to32) ==
  /\ to8.result = OK <=> WellFormed16(s)
  /\ to32.result = to8.result /\ to32.source = to8.source
  /\ to32.target = CodePoints16(take_front(s, Len(s) - Len(to32.source)))
  /\ CodePoints8(to8.target) = to32.target

(* UTF-32: strict conversions succeed if and only if there are only code   *)
(* points that are characters.                                             *)
FromUtf32(s, to8, to16) ==
  /\ (to8.result = OK) <=> WellFormed32(s)
  /\ (to16.result = OK) <=> WellFormed32(s)
  /\ WellFormed32(s) => CodePoints8(to8.target) = s /\ CodePoints16(to16.target) = s

IsEncoding(c, ch) ==
  (c.result = OK) <=> CharsAtFront(c.target) = {Len(c.target)} /\ CodePoints8(c.target) = <<ch>>

(* A string to Java and back, or from Java and back, is the same, but for  *)
(* a byte order mark at its front, which is lost on the way from Java.     *)
IsMarked(units) == units # <<>> /\ units[1] \in {ByteOrderMark, Swapped}
ToJavaAndBack(s, java) ==
  /\ java.ok <=> Lexer!WellFormed(s)
  /\ java.ok /\ ~IsMarked(java.text) => convertUTF16ToUTF8String(java.text) = [ok |-> TRUE, text |-> s]

FromJavaAndBack(units, string) ==
  LET kept == IF IsMarked(units) /\ units[1] = ByteOrderMark THEN Tail(units) ELSE units IN
  ~IsMarked(kept) \/ kept # units =>
    /\ string.ok <=> WellFormed16(kept)
    /\ string.ok => convertUTF8ToUTF16String(string.text) = [ok |-> TRUE, text |-> kept]

Converters(form) ==
  CASE form = "UTF8" -> {"UTF8toUTF16", "UTF8toUTF32"}
    [] form = "UTF16" -> {"UTF16toUTF8", "UTF16toUTF32"}
    [] form = "UTF32" -> {"UTF32toUTF8", "UTF32toUTF16"}

(* whole: what each converter makes of s.  A number that is too large is   *)
(* not stopped at, so that a conversion in pieces can forget it.           *)
AsUnicodeSays(form, s, whole) ==
  /\ form # "UTF32" \/ (\A i \in DOMAIN s : s[i] <= MaxLegal)
       => \A converter \in DOMAIN whole : InPieces(converter, s, whole[converter])
  /\ form = "UTF8" => /\ FromUtf8(s, whole["UTF8toUTF16"], whole["UTF8toUTF32"])
                      /\ ToJavaAndBack(s, convertUTF8ToUTF16String(s))
  /\ form = "UTF16" => /\ FromUtf16(s, whole["UTF16toUTF8"], whole["UTF16toUTF32"])
                       /\ FromJavaAndBack(s, convertUTF16ToUTF8String(s))
  /\ form = "UTF32" => /\ FromUtf32(s, whole["UTF32toUTF8"], whole["UTF32toUTF16"])
                       /\ \A i \in DOMAIN s : IsEncoding(ConvertCodePointToUTF8(s[i]), s[i])

UtfInverse(form, s) ==
  AsUnicodeSays(form, s, [c \in Converters(form) |-> Convert(c, s, 4 * Len(s), TRUE)])
=============================================================================
