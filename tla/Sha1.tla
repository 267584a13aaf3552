-------------------------------- MODULE Sha1 --------------------------------
(***************************************************************************)
(* SHA1 (support/sha1.h, .cpp): how the message is cut into blocks and     *)
(* padded.  The digest is the sequence of the blocks that transform has    *)
(* been given, and the message is a sequence of bytes 1, 2, ...            *)
(***************************************************************************)
EXTENDS StringRef

CONSTANTS
  BlockBytes,   \* BLOCK_BYTES, 64 in the code
  LengthBytes,  \* the bytes of a block that hold total_bits, 8 in the code
  MaxMessage    \* bound: the length of a message

ASSUME ShaAssumption ==
  BlockBytes \in Nat /\ LengthBytes \in 1 .. BlockBytes - 1 /\ MaxMessage \in Nat

VARIABLES
  buffer,   \* the first buf_size bytes of it
  digest,   \* the blocks that were transformed; transforms is their number
  message,  \* history: what Update was given since the last reset
  result    \* the digest Final or FromFile returned last, and its message

shaVars == <<buffer, digest, message, result>>

Block(bytes) == [bytes |-> bytes, bits |-> 0]
LastBlock(bytes, bits) == [bytes |-> SubSeq(bytes, 1, BlockBytes - LengthBytes), bits |-> bits]
Zeros(n) == [i \in 1 .. n |-> 0]
Nth(bytes, b) == SubSeq(bytes, (b - 1) * BlockBytes + 1, b * BlockBytes)

ShaInit ==
  /\ buffer = <<>>
  /\ digest = <<>>
  /\ message = <<>>
  /\ result = [of |-> <<>>, digest |-> <<>>]

(* Update: the buffer is filled up and transformed until s is used up *)
Updated(buf, dig, s) ==
  LET all == buf \o s
      full == Len(all) \div BlockBytes
  IN  [buffer |-> drop_front(all, full * BlockBytes),
       digest |-> dig \o [b \in 1 .. full |-> Block(Nth(all, b))]]

Update(s) ==
  LET after == Updated(buffer, digest, s) IN
  /\ message' = message \o s
  /\ buffer' = after.buffer
  /\ digest' = after.digest
  /\ UNCHANGED result

(* bug: the padding byte does not count when its block is measured *)
FinalizedShort(buf, dig) ==
  LET total_bits == (Len(dig) * BlockBytes + Len(buf)) * 8
      padded == Append(buf, 128)
      block == padded \o Zeros(BlockBytes - Len(padded))
  IN  IF Len(buf) > BlockBytes - LengthBytes
      THEN dig \o <<Block(block), LastBlock(Zeros(BlockBytes), total_bits)>>
      ELSE Append(dig, LastBlock(block, total_bits))

(* finalize: the block that is padded takes the length if there is room *)
Finalized(buf, dig) ==
  LET total_bits == (Len(dig) * BlockBytes + Len(buf)) * 8
      padded == Append(buf, 128)
      block == padded \o Zeros(BlockBytes - Len(padded))
  IN  IF Len(padded) > BlockBytes - LengthBytes
      THEN dig \o <<Block(block), LastBlock(Zeros(BlockBytes), total_bits)>>
      ELSE Append(dig, LastBlock(block, total_bits))

(* Final, which resets *)
Final ==
  /\ result' = [of |-> message, digest |-> Finalized(buffer, digest)]
  /\ buffer' = <<>>
  /\ digest' = <<>>
  /\ message' = <<>>

(* FromFile: a new SHA1 is updated from a stream that has just been        *)
(* opened.  Update asks readsome, whose in_avail is nothing until a read   *)
(* has filled the stream's buffer, so that no byte of the file is hashed.  *)
FromFile(in_avail) ==
  LET after == Updated(<<>>, <<>>, in_avail) IN
  /\ result' = [of |-> in_avail, digest |-> Finalized(after.buffer, after.digest)]
  /\ UNCHANGED <<buffer, digest, message>>

ShaNext ==
  \/ \E n \in 0 .. MaxMessage - Len(message) :
       Update([i \in 1 .. n |-> Len(message) + i])
  \/ Final
  \/ FromFile(<<>>)

ShaSpec == ShaInit /\ [][ShaNext]_shaVars

-----------------------------------------------------------------------------
(* FIPS 180: the message, a bit 1, zeros up to a length of BlockBytes -    *)
(* LengthBytes modulo BlockBytes, and the length in bits.                  *)
ZerosAfter(len) == CHOOSE z \in 0 .. BlockBytes - 1 : (len + z + LengthBytes) % BlockBytes = 0

Padded(m) ==
  LET one == Append(m, 128)
      all == one \o Zeros(ZerosAfter(Len(one)) + LengthBytes)
      n == Len(all) \div BlockBytes
  IN  [b \in 1 .. n |-> IF b = n THEN LastBlock(Nth(all, n), 8 * Len(m)) ELSE Block(Nth(all, b))]

(* However the message was cut up among the calls of Update, and whatever  *)
(* was hashed before with the same object, Final digests the padded        *)
(* message.                                                                *)
HashesPadded ==
  result.digest # <<>> => result.digest = Padded(result.of)
=============================================================================
