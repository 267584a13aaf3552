------------------------------ MODULE Support ------------------------------
(***************************************************************************)
(* The classes and functions of support and llvm that stand on their own,  *)
(* side by side: a behaviour is one of one unit, and the variables of the  *)
(* others stay as they were.                                               *)
(***************************************************************************)
EXTENDS UidVector, Containers, RawFdIstream, Sha1, Multipart, JsonParser, Coders, TLC

CONSTANTS
  MaxLine,
  DoubleBits,
  MaxCoded  \* bound: the length of the strings and numbers that are encoded

(* more bits than a significand has, and halves of small numbers exact *)
ASSUME BitsAssumption == DoubleBits \in 2 .. IntegerBits - 2

HU == INSTANCE HttpUtil
HH == INSTANCE HttpHeaders
JG == INSTANCE JsonGrammar
PT == INSTANCE JsonPointer
JB == INSTANCE JsonBinary
JC == INSTANCE JsonCompare
UTF == INSTANCE ConvertUtf

vars == <<unit, sample, uidVars, mapVars, setVars, fdVars, shaVars, partVars, parserVars>>

Units == {"UidVector", "StringMap", "raw_fd_istream", "SHA1", "FindMultipartBoundary",
          "leb128", "Base64", "HttpRequest", "json::parser", "scan_number", "scan_string",
          "get_codepoint", "json_pointer", "flatten", "binary_writer", "binary_reader",
          "Handshake", "json_pointer access", "operator==", "UTF8", "UTF16", "UTF32",
          "SmallSet", "StringRef::find", "getAsInteger", "compare_numeric"}

(* What is encoded: bytes and digits at the ends of their ranges, and      *)
(* characters of each kind that a coder tells apart.                       *)
Strings == SeqOf({97, HU!SPACE, HU!PLUS, HU!PERCENT, HU!AMP, HU!EQUALS}, 1) \cup
           {<<97, HU!HASH>>, <<HU!QUESTION, 233>>, <<HU!PERCENT, 97>>}

Bytes == {1, 10, 34, 47, 92, 117, 127, 128, 143, 144, 159, 160, 191, 194, 224, 237, 240, 244, 245}
FourBytes == {<<b, c, 128, d>> : b \in {240, 241, 244}, c \in Bytes, d \in {97, 128, 191}}

CodePoints == {0, 10, 34, 127, 128, 2047, 2048, 55295, 55296, 56319, 56320, 57343, 57344,
               65535, 65536, 66559, 66560, 1048576, 1114111}

Tokens == SeqOf(PT!Letters, 2) \cup {<<48, PT!Space>>, <<48, 48>>, <<PT!Tilde, 48, 49>>}
Objects(keys, values) ==
  {PT!Object(m) : m \in UNION {[{k, l} -> values] : k, l \in keys} \cup [{} -> values]}
Arrays(values) == {PT!Array(e) : e \in SeqOf(values, 2)}
Flat == {PT!Null, PT!Leaf(1)}
Inner == {PT!Leaf(1)} \cup Objects({PT!Zero, <<97>>}, {PT!Leaf(1)}) \cup Arrays({PT!Leaf(1)})
Jsons == Flat \cup Objects(Tokens, Flat) \cup Objects({PT!Zero, <<97>>, <<PT!Space>>, <<48, PT!Space>>}, Inner)
              \cup Arrays(Inner)
\* an index, and how std::stoi reads what looks like one; 99 is beyond an int of IntegerBits
ArrayTokens ==
  {PT!Zero, <<49>>, <<48, 48>>, <<49, 97>>, <<PT!Space, 49>>, <<PT!Plus, 49>>, <<PT!Minus, 48>>,
   <<PT!Minus, 49>>, <<PT!Space, PT!Minus, 49>>, <<PT!Minus, 50>>, <<57, 57>>, <<>>, PT!Dash, <<97>>}
Accesses ==
  (Inner \cup Arrays(Inner) \cup Objects({PT!Zero, <<97>>, PT!Dash}, Inner)) \X SeqOf(ArrayTokens, 2)

(* lines of HTTP headers: fields, their continuations, and some that are cut *)
Lines ==
  {<<"T", ":", "v">>, <<"T", " ", ":", " ", "v", " ">>, <<"T">>, <<"T", ":">>, <<" ", "v">>,
   <<" ", ":", "T">>, <<"L", ":", "2">>, <<"v", ":", "T">>, <<"v", ":", "v", ":", "v">>,
   <<"L", ":", "v", "v", " ", "v", "v">>, <<"v", ":", " ", " ", "T", ":", "v", "v">>}

(* numbers and sizes at the ends of each form of CBOR and MessagePack *)
Naturals63 ==
  {<<>>, <<127, 255, 255, 255>>, <<128, 0, 0, 0>>, <<255, 255, 255, 255>>, <<1, 0, 0, 0, 0>>,
   <<127, 255, 255, 255, 255, 255, 255, 255>>}
  \cup {JB!Bytes(i) : i \in {1, 23, 24, 31, 32, 127, 128, 255, 256, 32767, 32768, 65535, 65536}}
Naturals64 == Naturals63 \cup {<<128, 0, 0, 0, 0, 0, 0, 0>>, <<255, 0, 0, 0, 0, 0, 0, 255>>}
Text(n) == [i \in 1 .. n |-> 97]
Leaves ==
  {JB!Null, JB!Boolean(TRUE), JB!Boolean(FALSE), JB!Float(<<63, 240, 0, 0, 0, 0, 0, 255>>)}
  \cup {JB!Unsigned(n) : n \in Naturals64} \cup {JB!Negative(n) : n \in Naturals63}
  \cup {JB!String(Text(n)) : n \in {0, 1, 23, 24, 31, 32, 255, 256, 65535, 65536}}
Row(n, j) == JB!Array([i \in 1 .. n |-> j])
Table(n, j) == JB!Object([k \in {<<i>> : i \in 1 .. n} |-> j])
BinaryJsons ==
  Leaves \cup {Row(2, j) : j \in Leaves} \cup {Row(n, JB!Null) : n \in {0, 15, 16, 23, 24}}
  \cup {Table(n, Row(1, j)) : n \in {0, 1, 15, 16, 23, 24}, j \in {JB!Null, Table(1, JB!Null)}}
  \cup {JB!Object(Text(n) :> JB!Null @@ <<98>> :> JB!Null) : n \in {0, 23, 24, 31, 32, 256}}

(* inputs of the binary reader: first bytes of all kinds and what may follow *)
FirstBytes ==
  {0, 23, 24, 25, 31, 32, 55, 56, 59, 64, 96, 97, 120, 127, 128, 129, 144, 145, 152, 159, 160, 161,
   184, 191, 192, 193, 204, 208, 209, 217, 220, 222, 224, 244, 246, 248, 255}
Inputs == {<<b>> \o s : b \in FirstBytes, s \in SeqOf({0, 1, 97, 128, 161, 255}, 4)}
          \cup {<<59, b, 0, 0, 0, 0, 0, 0, c>> : b, c \in {0, 127, 128, 255}}

(* numbers at the ends of what each type can hold or convert exactly *)
Ints == {JC!Integer(i) : i \in {-16, -9, -1, 0, 2, 9, 15}}
        \cup {JC!Unsigned(i) : i \in {0, 2, 9, 15, 16, 22, 31}}
Doubles == {JC!Float(h) : h \in {-32, -16, -3, -2, 0, 3, 4, 16, 32, 64, 128}} \cup {JC!NaN}
Scalars == {JC!Null, JC!Integer(1), JC!Unsigned(31), JC!Float(3), JC!NaN}
Two == {JC!Integer(1), JC!Float(3)}
One(values) == {JC!Object(m) : m \in [{1} -> values]}
Rows(values) == {JC!Array(e) : e \in SeqOf(values, 2)}
Comparables ==
  Ints \cup Doubles \cup Scalars \cup Rows(Scalars) \cup Rows({JC!Integer(1)} \cup One(Two))
  \cup {JC!String(0), JC!String(1), JC!Boolean(0), JC!Boolean(1), JC!Discarded}
  \cup One(Scalars \cup Rows({JC!Integer(1)}))
  \cup {JC!Object(m) : m \in [{} -> Two] \cup [{2} -> Two] \cup [{1, 2} -> Two]}

(* units of UTF-16 and numbers of UTF-32: ends of ranges, byte order marks *)
UtfBytes == {1, 127, 128, 143, 144, 159, 160, 191, 194, 224, 237, 240, 244, 245, 248, 252}
Marks == {<<239, 187, 191>>, <<239, 187, 191, 97>>, <<239, 191, 190>>}
Utf16Units == {97, 2047, 2048, 24832, 55296, 56319, 56320, 57343, UTF!ByteOrderMark, UTF!Swapped}
Utf32Numbers == CodePoints \cup {1114112}

(* texts of the characters of a number, and integers where the types end   *)
NumberTexts ==
  SeqOf({"-", "+", ".", "e", "0", "1"}, MaxCoded) \cup SeqOf({"-", "1", "2", "3", "6", "7", "9"}, 3)

(* a text and what is looked for in it; numbers with digits of every radix *)
Searches == SeqOf({97, 98}, 6) \X SeqOf({97, 98}, MaxNeedle + 1)
Numerals == SeqOf({SA!MINUS, 48, 49, 55, 57, 97, 120}, 4)

Samples(u) ==
  CASE u = "leb128" -> LB!Digits({0, 1, 15, 16, 127}, MaxCoded + 1)
    [] u = "Base64" -> SeqOf({0, 1, 108, 165, 255}, MaxCoded)
    [] u = "HttpRequest" -> SeqOf(Strings \X Strings, 2)
    [] u = "scan_number" -> NumberTexts
    [] u = "scan_string" -> SeqOf(Bytes, 3) \cup FourBytes
    [] u = "get_codepoint" -> CodePoints
    [] u = "json_pointer" -> SeqOf(Tokens, 2)
    [] u = "flatten" -> Jsons
    [] u = "json_pointer access" -> Accesses
    [] u = "Handshake" -> SeqOf(Lines, 3)
    [] u = "binary_writer" -> BinaryJsons
    [] u = "binary_reader" -> Inputs
    [] u = "operator==" -> Comparables
    [] u = "UTF8" -> SeqOf(UtfBytes, 3) \cup FourBytes \cup Marks
    [] u = "UTF16" -> SeqOf(Utf16Units, 3)
    [] u = "UTF32" -> SeqOf(Utf32Numbers, 2)
    [] u = "StringRef::find" -> Searches
    [] u = "getAsInteger" -> Numerals
    [] u = "compare_numeric" -> NumericTexts
    [] OTHER -> {<<>>}

ASSUME SamplesAssumption == \A u \in Units : \A x \in Samples(u) : Given(u, x)

Init ==
  /\ unit \in Units
  /\ sample \in Samples(unit)
  /\ UidInit /\ SetInit /\ FdInit /\ ShaInit
  /\ IF unit = "StringMap" THEN MapInit ELSE MapIdle
  /\ IF unit = "FindMultipartBoundary" THEN PartInit ELSE PartIdle
  /\ IF unit = "json::parser" THEN ParserInit ELSE ParserIdle

Next ==
  /\ UNCHANGED <<unit, sample>>
  /\ \/ unit = "UidVector" /\ UidNext
        /\ UNCHANGED <<mapVars, setVars, fdVars, shaVars, partVars, parserVars>>
     \/ unit = "StringMap" /\ MapNext
        /\ UNCHANGED <<uidVars, setVars, fdVars, shaVars, partVars, parserVars>>
     \/ unit = "SmallSet" /\ SetNext
        /\ UNCHANGED <<uidVars, mapVars, fdVars, shaVars, partVars, parserVars>>
     \/ unit = "raw_fd_istream" /\ FdNext
        /\ UNCHANGED <<uidVars, mapVars, setVars, shaVars, partVars, parserVars>>
     \/ unit = "SHA1" /\ ShaNext
        /\ UNCHANGED <<uidVars, mapVars, setVars, fdVars, partVars, parserVars>>
     \/ unit = "FindMultipartBoundary" /\ PartNext
        /\ UNCHANGED <<uidVars, mapVars, setVars, fdVars, shaVars, parserVars>>
     \/ unit = "json::parser" /\ ParserNext
        /\ UNCHANGED <<uidVars, mapVars, setVars, fdVars, shaVars, partVars>>

Spec == Init /\ [][Next]_vars

-----------------------------------------------------------------------------
(* HttpLocation and the readers of CBOR and MessagePack give back what     *)
(* HttpRequest and the binary writer were given, except parameters without *)
(* name and value; ParseHttpHeaders gives the values that the server sent. *)
(* Between UTF-8, UTF-16 and UTF-32 exactly what is well formed goes over  *)
(* and comes back, whole or in pieces.  StringRef::split gives parts that  *)
(* make the string again when they are joined.  JSON pointers are split    *)
(* into the tokens they were made of, it is known exactly which values     *)
(* unflatten restores, and assigning through a pointer changes what        *)
(* at(ptr) finds there and nothing that is elsewhere.                      *)
DecodersInvert ==
  /\ unit = "HttpRequest" =>
       \A path \in {<<>>, <<97>>} : HU!RequestInverse(path, sample)
  /\ unit = "Handshake" => \A eol \in {<<"n">>, <<"r", "n">>} : HH!HeadersRead(sample, eol)
  /\ unit = "StringRef::find" /\ sample[2] # <<>> => SA!SplitInverse(sample[1], sample[2])
  /\ unit = "json_pointer" => PT!PointerInverse(sample)
  /\ unit = "flatten" => PT!FlattenInverse(sample)
  /\ unit = "json_pointer access" => PT!AccessInverse(sample[1], sample[2])
  /\ unit = "binary_writer" => JB!BinaryInverse(sample)
  /\ unit = "binary_reader" => JB!ShortestBinary(sample)
  /\ unit \in {"UTF8", "UTF16", "UTF32"} => UTF!UtfInverse(unit, sample)

(* Parser and acceptor: what they take for a text is what RFC 7159 says is *)
(* one, and a double that is written is a double when it is read.  The     *)
(* value that is parsed has all of the text but what the callback refused. *)
(* getAsInteger: exactly the numbers that fit are read, and as what they   *)
(* are.                                                                    *)
ByTheGrammar ==
  /\ unit = "getAsInteger" => SA!IntegerExact(sample)
  /\ unit = "scan_number" => LX!FloatInverse(sample)
  /\ JG!TextByGrammar
  /\ JG!KeptOnly

(* operator== and operator<: what the conversions of numbers, and objects  *)
(* that are ordered by their keys, leave of the laws of an order.          *)
(* compare_numeric: numbers are in the order of their values.              *)
ComparisonLaws ==
  /\ unit = "operator==" => JC!ComparisonLaws(sample, Comparables)
  /\ unit = "compare_numeric" => SA!NumeralsByValue(sample, NumericTexts)

(* The documentation of unflatten (support/json.h:7123): a value without   *)
(* empty objects and arrays is always restored from what flatten makes.    *)
FlattenRestores == unit = "flatten" => PT!FlattenRestores(sample)
=============================================================================
