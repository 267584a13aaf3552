------------------------------ MODULE JsonLexer ------------------------------
(***************************************************************************)
(* The JSON lexer (support/json_parser.cpp): numbers and strings, and how  *)
(* the serializer writes strings (json_serializer.cpp).  The characters of *)
(* a number are "-", "+", ".", "e" and the digits; those of a string are   *)
(* bytes.                                                                  *)
(***************************************************************************)
EXTENDS StringRef, SequencesExt

CONSTANT IntegerBits  \* bound: the width of value_unsigned and value_integer; 64 in the code

-----------------------------------------------------------------------------
(* Numbers *)

Numerals == <<"0", "1", "2", "3", "4", "5", "6", "7", "8", "9">>
Digit == Range(Numerals)

(* bug: what the table in the source says of decimal1, no 1 to 9 behind a point *)
StepAsDocumented(state, c) ==
  CASE state \in {"init", "minus"} /\ c = "0"                -> "zero"
    [] state \in {"init", "minus"} /\ c \in Digit \ {"0"}     -> "any1"
    [] state = "init" /\ c = "-"                             -> "minus"
    [] state = "any1" /\ c \in Digit                         -> "any1"
    [] state \in {"zero", "any1"} /\ c = "."                 -> "decimal1"
    [] state = "decimal1" /\ c = "0"                         -> "decimal2"
    [] state = "decimal2" /\ c \in Digit                     -> "decimal2"
    [] state \in {"zero", "any1", "decimal2"} /\ c = "e"     -> "exponent"
    [] state = "exponent" /\ c \in {"+", "-"}                -> "sign"
    [] state \in {"exponent", "sign", "any2"} /\ c \in Digit -> "any2"
    [] OTHER -> IF state \in {"zero", "any1", "decimal2", "any2"} THEN "done" ELSE "error"

(* where scan_number goes from each of its labels; a character that cannot *)
(* go on ends a number that may end, and is read again                     *)
Step(state, c) ==
  CASE state \in {"init", "minus"} /\ c = "0"                -> "zero"
    [] state \in {"init", "minus"} /\ c \in Digit \ {"0"}     -> "any1"
    [] state = "init" /\ c = "-"                             -> "minus"
    [] state = "any1" /\ c \in Digit                         -> "any1"
    [] state \in {"zero", "any1"} /\ c = "."                 -> "decimal1"
    [] state \in {"decimal1", "decimal2"} /\ c \in Digit     -> "decimal2"
    [] state \in {"zero", "any1", "decimal2"} /\ c = "e"     -> "exponent"
    [] state = "exponent" /\ c \in {"+", "-"}                -> "sign"
    [] state \in {"exponent", "sign", "any2"} /\ c \in Digit -> "any2"
    [] OTHER -> IF state \in {"zero", "any1", "decimal2", "any2"} THEN "done" ELSE "error"

(* the number that a sequence of digits stands for *)
Magnitude(digits) ==
  FoldLeft(LAMBDA n, c : n * 10 + (CHOOSE v \in 0 .. 9 : Numerals[v + 1] = c), 0, digits)

(* strtoull, or strtoll of a text with a minus, leaves errno at 0 *)
Fits(text) ==
  IF text[1] = "-" THEN Magnitude(Tail(text)) <= 2 ^ (IntegerBits - 1)
  ELSE Magnitude(text) < 2 ^ IntegerBits

(* scan_number on text and what ends it: the type and length of the        *)
(* number.  An integer that does not fit falls back to a float.            *)
ScanNumber(text) ==
  LET from[i \in 0 .. Len(text)] ==  \* the state behind the first i characters
        IF i = 0 THEN "init"
        ELSE IF from[i - 1] \in {"done", "error"} THEN from[i - 1]
        ELSE Step(from[i - 1], text[i])
      length == Max({i \in 0 .. Len(text) : from[i] \notin {"done", "error"}})
      last == Step(from[length], "end")
      passed == {from[i] : i \in 0 .. length}
  IN  IF from[Len(text)] = "error" \/ last = "error" THEN [type |-> "parse_error", length |-> 0]
      ELSE [length |-> length,
            type |-> IF \/ {"decimal1", "exponent"} \cap passed # {}
                        \/ ~Fits(take_front(text, length)) THEN "value_float"
                     ELSE IF "minus" \in passed THEN "value_integer"
                     ELSE "value_unsigned"]

(* RFC 7159, section 6: [ minus ] int [ frac ] [ exp ] *)
Digits(s) == s # <<>> /\ \A i \in DOMAIN s : s[i] \in Digit
Fraction(s) == s # <<>> => s[1] = "." /\ Digits(Tail(s))
Exponent(s) ==
  s # <<>> =>
    /\ s[1] = "e"
    /\ \/ Digits(Tail(s))
       \/ Len(s) > 2 /\ s[2] \in {"+", "-"} /\ Digits(drop_front(s, 2))
IsNumber(text) ==
  LET abs == IF text # <<>> /\ text[1] = "-" THEN Tail(text) ELSE text IN
  \E i \in 1 .. Len(abs) : \E j \in i .. Len(abs) :
    /\ Digits(take_front(abs, i)) /\ (abs[1] = "0" => i = 1)
    /\ Fraction(SubSeq(abs, i + 1, j))
    /\ Exponent(drop_front(abs, j))

(* dump_float, of a finite number that is not zero: what snprintf made of  *)
(* it in the locale (no separator is ""), and what is written              *)
dump_float(text, thousands_sep, decimal_point) ==
  LET kept == SelectSeq(text, LAMBDA c : c # thousands_sep)
      points == Occurrences(kept, decimal_point)
      number == IF points = {} THEN kept ELSE [kept EXCEPT ![Min(points)] = "."]
      value_is_int_like == \A i \in DOMAIN number : number[i] \notin {".", "e"}
  IN  number \o (IF value_is_int_like THEN <<".", "0">> ELSE <<>>)

-----------------------------------------------------------------------------
(* Strings.  What is scanned stands behind the opening quote.              *)

Quote == 34
Backslash == 92
Letter(c) == CASE c = 8 -> 98 [] c = 12 -> 102 [] c = 10 -> 110 [] c = 13 -> 114 [] c = 9 -> 116
Named == {8, 9, 10, 12, 13}
Unnamed(letter) == CHOOSE c \in Named : letter = Letter(c)
IsHighSurrogate(cp) == 55296 <= cp /\ cp <= 56319
IsLowSurrogate(cp) == 56320 <= cp /\ cp <= 57343

hexdigit(v) == IF v < 10 THEN 48 + v ELSE 87 + v
HexValue(c) ==
  IF c \in 48 .. 57 THEN c - 48
  ELSE IF c \in 65 .. 70 THEN c - 55
  ELSE IF c \in 97 .. 102 THEN c - 87
  ELSE -1

(* dump_escaped *)
Dumped(c) ==
  IF c \in {Quote, Backslash} THEN <<Backslash, c>>
  ELSE IF c \in Named THEN <<Backslash, Letter(c)>>
  ELSE IF c < 32 THEN <<Backslash, 117, 48, 48, hexdigit(c \div 16), hexdigit(c % 16)>>
  ELSE <<c>>
dump_escaped(s) == FlattenSeq([i \in DOMAIN s |-> Dumped(s[i])])

(* get_codepoint: four hex digits, or -1 *)
get_codepoint(digits) ==
  IF Len(digits) < 4 \/ \E i \in 1 .. 4 : HexValue(digits[i]) = -1 THEN -1
  ELSE HexValue(digits[1]) * 4096 + HexValue(digits[2]) * 256
         + HexValue(digits[3]) * 16 + HexValue(digits[4])

(* the bytes that are added for a code point *)
Utf8(cp) ==
  IF cp < 128 THEN <<cp>>
  ELSE IF cp < 2048 THEN <<192 + cp \div 64, 128 + (cp % 64)>>
  ELSE IF cp < 65536 THEN <<224 + cp \div 4096, 128 + ((cp \div 64) % 64), 128 + (cp % 64)>>
  ELSE <<240 + cp \div 262144, 128 + ((cp \div 4096) % 64), 128 + ((cp \div 64) % 64),
         128 + (cp % 64)>>

(* The escape at the front of s, behind the backslash: the bytes it stands *)
(* for and its length, none when it is not valid.                          *)
Escape(s) ==
  LET Slice(i, j) == SubSeq(s, i, Min({j, Len(s)}))
      cp1 == get_codepoint(Slice(2, 5))
      cp2 == get_codepoint(Slice(8, 11))
      None == [bytes |-> <<>>, length |-> 0]
  IN  IF s = <<>> THEN None
      ELSE IF s[1] \in {Quote, Backslash, 47} THEN [bytes |-> <<s[1]>>, length |-> 1]
      ELSE IF \E c \in Named : s[1] = Letter(c)
           THEN [bytes |-> <<Unnamed(s[1])>>, length |-> 1]
      ELSE IF s[1] # 117 \/ cp1 = -1 \/ IsLowSurrogate(cp1) THEN None
      ELSE IF ~IsHighSurrogate(cp1) THEN [bytes |-> Utf8(cp1), length |-> 5]
      ELSE IF Slice(6, 7) # <<Backslash, 117>> \/ ~IsLowSurrogate(cp2) THEN None
      ELSE [bytes |-> Utf8(cp1 * 1024 + cp2 - 56613888), length |-> 11]

(* how long the character at the front of s is; 0 if it is ill-formed *)
CharLength(s) ==
  LET c == s[1]
      Next(i, low, high) == i <= Len(s) /\ low <= s[i] /\ s[i] <= high
      Cont(i) == Next(i, 128, 191)
  IN  IF 32 <= c /\ c <= 127 THEN 1
      ELSE IF 194 <= c /\ c <= 223 /\ Cont(2) THEN 2
      ELSE IF /\ 224 <= c /\ c <= 239
              /\ Next(2, IF c = 224 THEN 160 ELSE 128, IF c = 237 THEN 159 ELSE 191)
              /\ Cont(3) THEN 3
      ELSE IF /\ 240 <= c /\ c <= 244
              /\ Next(2, IF c = 240 THEN 144 ELSE 128, IF c = 244 THEN 143 ELSE 191)
              /\ Cont(3) /\ Cont(4) THEN 4
      ELSE 0

(* scan_string: the value of a string up to its closing quote *)
ScanString(s) ==
  LET n == Len(s)
      Error == [ok |-> FALSE, str |-> <<>>]
      from[k \in 0 .. n] ==  \* the last k bytes
        LET rest == drop_front(s, n - k)
            escape == Escape(Tail(rest))
            Put(bytes, others) ==
              IF others.ok THEN [ok |-> TRUE, str |-> bytes \o others.str] ELSE Error
        IN  IF k = 0 THEN Error
            ELSE IF rest[1] = Quote THEN [ok |-> TRUE, str |-> <<>>]
            ELSE IF rest[1] = Backslash
                 THEN IF escape.length = 0 THEN Error
                      ELSE Put(escape.bytes, from[k - 1 - escape.length])
            ELSE IF CharLength(rest) = 0 THEN Error
            ELSE Put(take_front(rest, CharLength(rest)), from[k - CharLength(rest)])
  IN  from[n]

(* Unicode, table 3-7: the bytes are well formed if they are those of some *)
(* code points that are not surrogates, each in the shortest form          *)
IsScalar(cp) == 0 <= cp /\ cp <= 1114111 /\ ~IsHighSurrogate(cp) /\ ~IsLowSurrogate(cp)
IsCont(b) == 128 <= b /\ b <= 191
Value(b) ==
  IF Len(b) = 1 /\ b[1] < 128 THEN b[1]
  ELSE IF Len(b) = 2 /\ 192 <= b[1] /\ b[1] <= 223 /\ IsCont(b[2])
       THEN (b[1] - 192) * 64 + b[2] - 128
  ELSE IF Len(b) = 3 /\ 224 <= b[1] /\ b[1] <= 239 /\ IsCont(b[2]) /\ IsCont(b[3])
       THEN (b[1] - 224) * 4096 + (b[2] - 128) * 64 + b[3] - 128
  ELSE IF Len(b) = 4 /\ 240 <= b[1] /\ b[1] <= 247 /\ IsCont(b[2]) /\ IsCont(b[3]) /\ IsCont(b[4])
       THEN (b[1] - 240) * 262144 + (b[2] - 128) * 4096 + (b[3] - 128) * 64 + b[4] - 128
  ELSE -1
Shortest(b) ==
  Len(b) = IF Value(b) < 128 THEN 1 ELSE IF Value(b) < 2048 THEN 2
           ELSE IF Value(b) < 65536 THEN 3 ELSE 4
WellFormed(s) ==
  LET n == Len(s)
      to[k \in 0 .. n] ==
        k = 0 \/ \E l \in 1 .. Min({4, k}) :
          LET b == SubSeq(s, k - l + 1, k) IN
          to[k - l] /\ IsScalar(Value(b)) /\ Shortest(b)
  IN  to[n]

-----------------------------------------------------------------------------
(* scan_number reads all of a text as a number if and only if it is one by *)
(* RFC 7159, and gives it the type that its form and its size call for: a  *)
(* float also to an integer that the integers of its sign do not have.     *)
NumberByGrammar(text) ==
  LET scanned == ScanNumber(text) IN
  /\ (scanned.type # "parse_error" /\ scanned.length = Len(text)) <=> IsNumber(text)
  /\ IsNumber(text) =>
       scanned.type = IF \/ \E i \in DOMAIN text : text[i] \in {".", "e"}
                         \/ ~Fits(text) THEN "value_float"
                      ELSE IF text[1] = "-" THEN "value_integer" ELSE "value_unsigned"

(* A double is written as it is in the C locale, whatever locale is set,   *)
(* and read as a double again, also when it is a whole number.             *)
Locales == {<<"", ".">>, <<".", ",">>, <<",", ".">>, <<" ", ",">>}
FloatInverse(text) ==
  IsNumber(text) => \A locale \in Locales :
    LET local == [i \in DOMAIN text |-> IF text[i] = "." THEN locale[2] ELSE text[i]]
        dumped == dump_float(local, locale[1], locale[2])
    IN  /\ dumped \in {text, text \o <<".", "0">>}
        /\ ScanNumber(dumped) = [type |-> "value_float", length |-> Len(dumped)]

(* What the serializer writes of a string the lexer reads as that string,  *)
(* and it takes a string for valid if and only if it is valid UTF-8.       *)
StringInverse(s) ==
  LET scanned == ScanString(Append(dump_escaped(s), Quote)) IN
  /\ scanned.ok <=> WellFormed(s)
  /\ scanned.ok => scanned.str = s

(* The four digits of an escape, or the eight of a surrogate pair, stand   *)
(* for the bytes that the lexer reads as the same code point.              *)
Hex4(v) == <<hexdigit(v \div 4096), hexdigit((v \div 256) % 16), hexdigit((v \div 16) % 16),
             hexdigit(v % 16)>>
EscapeInverse(cp) ==
  LET u == <<Backslash, 117>>
      escaped == IF cp < 65536 THEN u \o Hex4(cp)
                 ELSE u \o Hex4(55296 + (cp - 65536) \div 1024)
                        \o u \o Hex4(56320 + ((cp - 65536) % 1024))
      scanned == ScanString(Append(escaped, Quote))
  IN  /\ scanned.ok <=> IsScalar(cp)
      /\ scanned.ok => Value(scanned.str) = cp /\ WellFormed(scanned.str)
=============================================================================
