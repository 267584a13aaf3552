------------------------------- MODULE Base64 -------------------------------
(***************************************************************************)
(* support/Base64.cpp.  A character is its value in pr2six: 0 .. 63, or 64 *)
(* for "=" and everything else that is not in the alphabet.                *)
(***************************************************************************)
EXTENDS StringRef

(* three bytes as four characters, and back *)
Sextets(a, b, c) ==
  <<a \div 4, (a % 4) * 16 + b \div 16, (b % 16) * 4 + c \div 64, c % 64>>
Octets(s) ==
  <<(s[1] * 4 + s[2] \div 16) % 256, (s[2] * 16 + s[3] \div 4) % 256, (s[3] * 64 + s[4]) % 256>>

(* how many "=" end the code of n bytes *)
Pads(n) == (3 - (n % 3)) % 3

(* Base64Encode *)
Base64Encode(plain) ==
  LET n == Len(plain)
      size == 4 * ((n + 2) \div 3)
      Byte(i) == IF i > n THEN 0 ELSE plain[i]
      Group(g) == Sextets(Byte(3 * g + 1), Byte(3 * g + 2), Byte(3 * g + 3))
  IN  [k \in 1 .. size |->
         IF k > size - Pads(n) THEN 64 ELSE Group((k - 1) \div 4)[1 + ((k - 1) % 4)]]

(* Base64Decode: the characters of the alphabet at the front, in groups of *)
(* four; the last group, of one to four, gives one byte less than it has   *)
(* characters.  It returns how much of encoded this was, with the "=" that *)
(* the last group lacks.                                                   *)
Base64Decode(encoded) ==
  LET nprbytes == Min({i - 1 : i \in Occurrences(encoded, 64)} \cup {Len(encoded)})
      loops == IF nprbytes = 0 THEN 0 ELSE (nprbytes - 1) \div 4
      rest == nprbytes - 4 * loops
      Char(i) == IF i > nprbytes THEN 0 ELSE encoded[i]
      Group(g) == Octets(<<Char(4 * g + 1), Char(4 * g + 2), Char(4 * g + 3), Char(4 * g + 4)>>)
      size == 3 * loops + (IF rest > 1 THEN rest - 1 ELSE 0)
  IN  [plain |-> [j \in 1 .. size |-> Group((j - 1) \div 3)[1 + ((j - 1) % 3)]],
       read |-> IF nprbytes = 0 THEN 0 ELSE nprbytes + ((4 - rest) % 4)]

(* What is encoded is decoded again, and decoding reads all of it, whether *)
(* or not something that is not in the alphabet follows.                   *)
Base64Inverse(plain) ==
  LET encoded == Base64Encode(plain) IN
  \A after \in {<<>>, <<64>>, <<64, 1>>} :
    Base64Decode(encoded \o after) = [plain |-> plain, read |-> Len(encoded)]
=============================================================================
