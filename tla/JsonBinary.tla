----------------------------- MODULE JsonBinary -----------------------------
(***************************************************************************)
(* CBOR and MessagePack (support/json_binary_writer.cpp and                *)
(* json_binary_reader.cpp).  A natural number of up to 64 bits is the      *)
(* sequence of its bytes, the highest first, without zeros at the front.   *)
(***************************************************************************)
EXTENDS StringRef, SequencesExt

Null == [type |-> "null"]
Boolean(b) == [type |-> "boolean", value |-> b]
Unsigned(n) == [type |-> "integer", negative |-> FALSE, n |-> n]
Negative(n) == [type |-> "integer", negative |-> TRUE, n |-> n]  \* the number -1 - n
Float(bytes) == [type |-> "float", bytes |-> bytes]              \* IEEE 754, as written
String(bytes) == [type |-> "string", bytes |-> bytes]
Array(elements) == [type |-> "array", elements |-> elements]
Object(members) == [type |-> "object", members |-> members]

Stripped(bytes) ==
  drop_front(bytes, Max({0} \cup {i \in DOMAIN bytes : \A k \in 1 .. i : bytes[k] = 0}))
Bytes(i) == Stripped(<<i \div 65536, (i \div 256) % 256, i % 256>>)
Small(n, limit) == n = <<>> \/ (Len(n) = 1 /\ n[1] <= limit)
Value(n) == IF n = <<>> THEN 0 ELSE n[1]

(* write_number for a T of width bytes *)
write_number(n, width) == [i \in 1 .. width - Len(n) |-> 0] \o n
Complement(bytes) == [i \in DOMAIN bytes |-> 255 - bytes[i]]

(* the least of some widths that holds n *)
Width(n, widths) == Min({w \in widths : Len(n) <= w})
Log2(w) == CASE w = 1 -> 0 [] w = 2 -> 1 [] w = 4 -> 2 [] w = 8 -> 3

(* what F makes of the elements of an array, or of the keys of an object, *)
(* one behind the other                                                   *)
Concat(F(_), s) == FlattenSeq([i \in DOMAIN s |-> F(s[i])])
InAnyOrder(F(_), keys) == FoldSet(LAMBDA k, bytes : F(k) \o bytes, <<>>, keys)

-----------------------------------------------------------------------------
(* write_cbor.  Numbers, and the sizes of strings, arrays and objects, are *)
(* written alike: up to 0x17 in the first byte, others behind it.          *)
CborHead(first, n) ==
  LET w == Width(n, {1, 2, 4, 8}) IN
  IF Small(n, 23) THEN <<first + Value(n)>> ELSE <<first + 24 + Log2(w)>> \o write_number(n, w)

write_cbor_string(str) == CborHead(96, Bytes(Len(str))) \o str

RECURSIVE write_cbor(_)
write_cbor(j) ==
  CASE j.type = "null"    -> <<246>>
    [] j.type = "boolean" -> IF j.value THEN <<245>> ELSE <<244>>
    [] j.type = "integer" -> CborHead(IF j.negative THEN 32 ELSE 0, j.n)
    [] j.type = "float"   -> <<251>> \o j.bytes
    [] j.type = "string"  -> write_cbor_string(j.bytes)
    [] j.type = "array"   -> CborHead(128, Bytes(Len(j.elements))) \o Concat(write_cbor, j.elements)
    [] j.type = "object"  ->
         CborHead(160, Bytes(Cardinality(DOMAIN j.members)))
           \o InAnyOrder(LAMBDA k : write_cbor_string(k) \o write_cbor(j.members[k]),
                         DOMAIN j.members)

-----------------------------------------------------------------------------
(* write_msgpack: what is small in the first byte, other numbers in one,   *)
(* two, four or eight bytes, and sizes not in eight                        *)
MsgpackInteger(j) ==
  LET fits == {w \in {1, 2, 4, 8} : Len(j.n) < w \/ (Len(j.n) = w /\ j.n[1] < 128)}
      signed == Min(fits)  \* the least T of the limits -2^(8w-1) .. 2^(8w-1) - 1
      unsigned == Width(j.n, {1, 2, 4, 8})
  IN  CASE ~j.negative /\ Small(j.n, 127) -> <<Value(j.n)>>
        [] ~j.negative /\ ~Small(j.n, 127) ->
             <<204 + Log2(unsigned)>> \o write_number(j.n, unsigned)
        [] j.negative /\ Small(j.n, 31)   -> <<255 - Value(j.n)>>
        [] j.negative /\ ~Small(j.n, 31)  ->
             <<208 + Log2(signed)>> \o Complement(write_number(j.n, signed))

write_msgpack_string(str) ==
  LET n == Bytes(Len(str))
      w == Width(n, {1, 2, 4})
  IN  (IF Small(n, 31) THEN <<160 + Value(n)>> ELSE <<217 + Log2(w)>> \o write_number(n, w))
        \o str

(* the size of an array or object *)
MsgpackHead(fix, sixteen, size) ==
  LET n == Bytes(size)
      w == Width(n, {2, 4})
  IN  IF Small(n, 15) THEN <<fix + Value(n)>>
      ELSE <<sixteen + Log2(w) - 1>> \o write_number(n, w)

RECURSIVE write_msgpack(_)
write_msgpack(j) ==
  CASE j.type = "null"    -> <<192>>
    [] j.type = "boolean" -> IF j.value THEN <<195>> ELSE <<194>>
    [] j.type = "integer" -> MsgpackInteger(j)
    [] j.type = "float"   -> <<203>> \o j.bytes
    [] j.type = "string"  -> write_msgpack_string(j.bytes)
    [] j.type = "array"   ->
         MsgpackHead(144, 220, Len(j.elements)) \o Concat(write_msgpack, j.elements)
    [] j.type = "object"  ->
         MsgpackHead(128, 222, Cardinality(DOMAIN j.members))
           \o InAnyOrder(LAMBDA k : write_msgpack_string(k) \o write_msgpack(j.members[k]),
                         DOMAIN j.members)

-----------------------------------------------------------------------------
(* The reader: a result is a value and the bytes behind it, or an error;   *)
(* "110" is the unexpected end of the input.                               *)

Read(value, rest) == [error |-> "none", value |-> value, rest |-> rest]
Fails(error) == [error |-> error]

(* get_number: the next width bytes, and what is made of them *)
Number(s, width) ==
  IF Len(s) < width THEN Fails("110")
  ELSE Read(take_front(s, width), drop_front(s, width))
Made(Make(_), r) == IF r.error # "none" THEN r ELSE Read(Make(r.value), r.rest)

ToUnsigned(bytes) == Unsigned(Stripped(bytes))
ToSigned(bytes) ==
  IF bytes[1] >= 128 THEN Negative(Stripped(Complement(bytes))) ELSE ToUnsigned(bytes)

(* -1 - static_cast<int64_t>(n), which is not negative for n from 2^63 *)
ToNegative(bytes) ==
  IF Len(bytes) = 8 /\ bytes[1] >= 128 THEN Unsigned(Stripped(Complement(bytes)))
  ELSE Negative(Stripped(bytes))

(* a size, as a number; no input is as long as one of more than three bytes *)
ToSize(bytes) ==
  LET n == Stripped(bytes)
      all == write_number(n, 3)
  IN  IF Len(n) > 3 THEN 2 ^ 24 ELSE all[1] * 65536 + all[2] * 256 + all[3]

(* get_string *)
get_string(size) ==
  IF size.error # "none" THEN size
  ELSE Made(String, Number(size.rest, size.value))

(* the size behind, or in, the first byte of s: info is what it says *)
CborSize(s, info) ==
  IF info < 24 THEN Read(info, Tail(s)) ELSE Made(ToSize, Number(Tail(s), 2 ^ (info - 24)))

(* get_cbor_string; the string of indefinite length is all that goes before *)
(* the next 0xff                                                            *)
get_cbor_string(s) ==
  IF s = <<>> THEN Fails("110")
  ELSE IF s[1] \in 96 .. 123 THEN get_string(CborSize(s, s[1] % 32))
  ELSE IF s[1] # 127 THEN Fails("113")
  ELSE LET ends == Occurrences(Tail(s), 255) IN
       IF ends = {} THEN Fails("110")
       ELSE Read(String(SubSeq(s, 2, Min(ends))), drop_front(s, Min(ends) + 1))

get_msgpack_string(s) ==
  IF s = <<>> THEN Fails("110")
  ELSE IF s[1] \in 160 .. 191 THEN get_string(Read(s[1] % 32, Tail(s)))
  ELSE IF s[1] \in 217 .. 219 THEN get_string(Made(ToSize, Number(Tail(s), 2 ^ (s[1] - 217))))
  ELSE Fails("113")

Put(members, k, v) == [x \in DOMAIN members \cup {k} |-> IF x = k THEN v ELSE members[x]]

(* The loops over the elements and members: n of them, or those up to the  *)
(* next 0xff if n is -1.                                                   *)
RECURSIVE parse_cbor(_), parse_msgpack(_), Elements(_, _, _, _), Members(_, _, _, _)
parse(format, s) == IF format = "cbor" THEN parse_cbor(s) ELSE parse_msgpack(s)
get_key(format, s) == IF format = "cbor" THEN get_cbor_string(s) ELSE get_msgpack_string(s)

Elements(format, s, n, elements) ==
  IF n = 0 THEN Read(Array(elements), s)
  ELSE IF n = -1 /\ s # <<>> /\ s[1] = 255 THEN Read(Array(elements), Tail(s))
  ELSE LET item == parse(format, s) IN
       IF item.error # "none" THEN item
       ELSE Elements(format, item.rest, IF n = -1 THEN -1 ELSE n - 1, Append(elements, item.value))

Members(format, s, n, members) ==
  IF n = 0 THEN Read(Object(members), s)
  ELSE IF n = -1 /\ s # <<>> /\ s[1] = 255 THEN Read(Object(members), Tail(s))
  ELSE LET key == get_key(format, s)
           item == parse(format, key.rest)
       IN  IF key.error # "none" THEN key
           ELSE IF item.error # "none" THEN item
           ELSE Members(format, item.rest, IF n = -1 THEN -1 ELSE n - 1,
                        Put(members, key.value.bytes, item.value))

ArrayOf(format, size) ==
  IF size.error # "none" THEN size ELSE Elements(format, size.rest, size.value, <<>>)
ObjectOf(format, size) ==
  IF size.error # "none" THEN size
  ELSE Members(format, size.rest, size.value, [k \in {} |-> Null])

(* parse_cbor, by the first byte: floats of two and four bytes are kept as *)
(* they are                                                                *)
parse_cbor(s) ==
  LET b == s[1]
      rest == Tail(s)
      info == b % 32
      Sized == IF info = 31 THEN Read(-1, rest) ELSE CborSize(s, info)
  IN  IF s = <<>> THEN Fails("110") ELSE
      CASE b \in 0 .. 23    -> Read(ToUnsigned(<<b>>), rest)
        [] b \in 24 .. 27   -> Made(ToUnsigned, Number(rest, 2 ^ (b - 24)))
        [] b \in 32 .. 55   -> Read(ToNegative(<<b - 32>>), rest)
        [] b \in 56 .. 59   -> Made(ToNegative, Number(rest, 2 ^ (b - 56)))
        [] b \in (96 .. 123) \cup {127}  -> get_cbor_string(s)
        [] b \in (128 .. 155) \cup {159} -> ArrayOf("cbor", Sized)
        [] b \in (160 .. 187) \cup {191} -> ObjectOf("cbor", Sized)
        [] b \in {244, 245} -> Read(Boolean(b = 245), rest)
        [] b = 246          -> Read(Null, rest)
        [] b \in 249 .. 251 -> Made(Float, Number(rest, 2 ^ (b - 248)))
        [] OTHER -> Fails("112")

parse_msgpack(s) ==
  LET b == s[1]
      rest == Tail(s)
      Sized(first) == Made(ToSize, Number(rest, 2 ^ (b - first + 1)))
  IN  IF s = <<>> THEN Fails("110") ELSE
      CASE b \in 0 .. 127   -> Read(ToUnsigned(<<b>>), rest)
        [] b \in 128 .. 143 -> ObjectOf("msgpack", Read(b - 128, rest))
        [] b \in 144 .. 159 -> ArrayOf("msgpack", Read(b - 144, rest))
        [] b \in (160 .. 191) \cup (217 .. 219) -> get_msgpack_string(s)
        [] b = 192          -> Read(Null, rest)
        [] b \in {194, 195} -> Read(Boolean(b = 195), rest)
        [] b \in {202, 203} -> Made(Float, Number(rest, 2 ^ (b - 200)))
        [] b \in 204 .. 207 -> Made(ToUnsigned, Number(rest, 2 ^ (b - 204)))
        [] b \in 208 .. 211 -> Made(ToSigned, Number(rest, 2 ^ (b - 208)))
        [] b \in {220, 221} -> ArrayOf("msgpack", Sized(220))
        [] b \in {222, 223} -> ObjectOf("msgpack", Sized(222))
        [] b \in 224 .. 255 -> Read(ToSigned(<<b>>), rest)
        [] OTHER -> Fails("112")

-----------------------------------------------------------------------------
(* What is written is read again, whatever follows it, and none of its     *)
(* beginnings is taken for a value.                                        *)
WrittenAndRead(Write(_), Parse(_), j) ==
  LET bytes == Write(j) IN
  /\ Parse(bytes \o <<255, 0>>) = Read(j, <<255, 0>>)
  /\ \A n \in {0, 1, Len(bytes) \div 2, Len(bytes) - 2, Len(bytes) - 1} :
       n \in 0 .. Len(bytes) - 1 => Parse(take_front(bytes, n)) = Fails("110")
BinaryInverse(j) ==
  /\ WrittenAndRead(write_cbor, parse_cbor, j)
  /\ WrittenAndRead(write_msgpack, parse_msgpack, j)

(* What is read from any input is written in no more bytes than it was     *)
(* read from, and these are read as the same value.                        *)
RECURSIVE Writable(_)
Writable(j) ==
  CASE j.type = "float"  -> Len(j.bytes) = 8
    [] j.type = "array"  -> \A i \in DOMAIN j.elements : Writable(j.elements[i])
    [] j.type = "object" -> \A k \in DOMAIN j.members : Writable(j.members[k])
    [] OTHER             -> TRUE
Shortest(Write(_), Parse(_), s) ==
  LET read == Parse(s) IN
  read.error = "none" /\ Writable(read.value) =>
    /\ Len(Write(read.value)) <= Len(s) - Len(read.rest)
    /\ Parse(Write(read.value)) = Read(read.value, <<>>)
ShortestBinary(s) ==
  Shortest(write_cbor, parse_cbor, s) /\ Shortest(write_msgpack, parse_msgpack, s)
=============================================================================
