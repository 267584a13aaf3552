------------------------- MODULE SocketStreamsProofs -------------------------
(***************************************************************************)
(* A raw_socket_ostream, the connection and the raw_socket_istream at its  *)
(* other end implement ByteStream, for every size of the buffer, of what   *)
(* the system holds and of the pieces that are written, sent, received and *)
(* read.  The proof follows the bytes: those of a read in progress, those  *)
(* the system holds and those the writer still has make up one sequence,   *)
(* which a step lengthens at its end, shortens at its front or, with an    *)
(* error, cuts a piece out of.                                             *)
(*                                                                         *)
(* Inv is TypeOK, by what a variable belongs to, with two additions: the   *)
(* pieces are sequences of numbers, and nothing is left in the buffer      *)
(* while a flush or what begins with one goes on.                          *)
(*                                                                         *)
(* What ByteStream promises to a reader is proved on the mapped variables, *)
(* of which only the steps of ByteStream are used (WriteIs and those after *)
(* it), so that the streams have it too.                                   *)
(***************************************************************************)
EXTENDS SocketStreams, SequenceTheorems, TLAPS

Flags == {oerror, ierror, wopen, ropen, reset, broken} \subseteq BOOLEAN

WriterOK ==
  /\ mode \in {"fresh", "buffered", "unbuffered"}
  /\ calling \in {"none", "write", "flush", "close", "SetUnbuffered", "SetBuffered"}
  /\ buf \in Seq(Nat) /\ rest \in Seq(Nat) /\ chunk \in Seq(Nat)
  /\ Len(buf) <= BufSize
  /\ mode # "buffered" => buf = <<>>
  /\ calling # "write" => rest = <<>>
  /\ calling = "none" => chunk = <<>>
  /\ calling \notin {"none", "write"} => buf = <<>>
  /\ written \in 0 .. MaxBytes

PipeOK == pipe \in Seq(Nat) /\ Len(pipe) <= PipeSize

ReaderOK ==
  /\ got \in Seq(Nat) /\ delivered \in Seq(Nat)
  /\ want \in 0 .. MaxLen /\ Len(got) <= want

Inv == Flags /\ WriterOK /\ PipeOK /\ ReaderOK

(* the sequence of all bytes that may still be delivered *)
Lost == reset \/ ~ropen
Pending == chunk \o buf \o rest
Transit == got \o pipe \o (IF Lost THEN <<>> ELSE Pending)

-----------------------------------------------------------------------------
(* how long the parts of a concatenation are together *)
LEMMA JoinedLength ==
  ASSUME NEW s \in Seq(Nat), NEW t \in Seq(Nat)
  PROVE  s \o t \in Seq(Nat) /\ Len(s \o t) = Len(s) + Len(t) /\ Len(s) \in Nat /\ Len(t) \in Nat
  BY ConcatProperties, LenProperties

(* the bytes of a write are numbers *)
LEMMA BytesAreNumbers ==
  ASSUME NEW m \in Nat, NEW n \in Nat
  PROVE  /\ BS!Bytes(m, m + n) \in Seq(Nat) /\ Len(BS!Bytes(m, m + n)) = n
         /\ n = 0 => BS!Bytes(m, m + n) = <<>>
<1>1. (m + n) - m = n /\ \A i \in 1 .. n : m + i \in Nat
  OBVIOUS
<1>2. BS!Bytes(m, m + n) = [i \in 1 .. n |-> m + i]
  BY <1>1 DEF BS!Bytes
<1>3. BS!Bytes(m, m + n) \in Seq(Nat) /\ Len(BS!Bytes(m, m + n)) = n
  BY <1>1, <1>2
<1> QED BY <1>3, EmptySeq

(* A sequence is its first n elements and those after them. *)
LEMMA Split ==
  ASSUME NEW s \in Seq(Nat), NEW n \in 0 .. Len(s)
  PROVE  /\ First(s, n) \in Seq(Nat) /\ Len(First(s, n)) = n
         /\ After(s, n) \in Seq(Nat) /\ Len(After(s, n)) = Len(s) - n
         /\ First(s, n) \o After(s, n) = s
<1>1. Len(s) \in Nat /\ \A i \in 1 .. Len(s) : s[i] \in Nat
  BY LenProperties
<1>2. First(s, n) \in Seq(Nat) /\ Len(First(s, n)) = n
  <2>1. 1 \in Int /\ n \in Int /\ \A i \in 1 .. n : s[i] \in Nat
    BY <1>1
  <2>2. SubSeq(s, 1, n) \in Seq(Nat) /\ Len(SubSeq(s, 1, n)) = IF 1 <= n THEN n - 1 + 1 ELSE 0
    BY <2>1, SubSeqProperties
  <2> QED BY <1>1, <2>2 DEF First
<1>3. After(s, n) \in Seq(Nat) /\ Len(After(s, n)) = Len(s) - n
  <2>1. n + 1 \in Int /\ Len(s) \in Int /\ \A i \in n + 1 .. Len(s) : s[i] \in Nat
    BY <1>1
  <2>2. /\ SubSeq(s, n + 1, Len(s)) \in Seq(Nat)
        /\ Len(SubSeq(s, n + 1, Len(s))) = IF n + 1 <= Len(s) THEN Len(s) - (n + 1) + 1 ELSE 0
    BY <2>1, SubSeqProperties
  <2> QED BY <1>1, <2>2 DEF After
<1>4. First(s, n) \o After(s, n) = s
  <2>1. 1 \in 1 .. Len(s) + 1 /\ n \in 1 - 1 .. Len(s) /\ Len(s) \in n .. Len(s)
    BY <1>1
  <2>2. SubSeq(s, 1, n) \o SubSeq(s, n + 1, Len(s)) = SubSeq(s, 1, Len(s))
    BY <2>1, ConcatAdjacentSubSeq
  <2> QED BY <2>2, SubSeqFull DEF First, After
<1> QED BY <1>2, <1>3, <1>4

(* the first of two parts, and the second, taken out again *)
LEMMA Unjoined ==
  ASSUME NEW s \in Seq(Nat), NEW t \in Seq(Nat)
  PROVE  First(s \o t, Len(s)) = s /\ After(s \o t, Len(s)) = t
<1>1. /\ s \o t \in Seq(Nat) /\ Len(s \o t) = Len(s) + Len(t)
      /\ Len(s) \in 0 .. Len(s \o t)
  BY JoinedLength
<1>2. \A i \in 1 .. Len(s) + Len(t) :
        (s \o t)[i] = IF i <= Len(s) THEN s[i] ELSE t[i - Len(s)]
  BY ConcatProperties
<1>3. /\ First(s \o t, Len(s)) \in Seq(Nat) /\ Len(First(s \o t, Len(s))) = Len(s)
      /\ After(s \o t, Len(s)) \in Seq(Nat) /\ Len(After(s \o t, Len(s))) = Len(t)
  <2>1. /\ First(s \o t, Len(s)) \in Seq(Nat) /\ Len(First(s \o t, Len(s))) = Len(s)
        /\ After(s \o t, Len(s)) \in Seq(Nat)
        /\ Len(After(s \o t, Len(s))) = Len(s \o t) - Len(s)
    BY <1>1, Split
  <2> QED BY <1>1, <2>1, JoinedLength
<1>4. First(s \o t, Len(s)) = s
  <2>1. \A i \in 1 .. Len(s) - 1 + 1 : First(s \o t, Len(s))[i] = (s \o t)[1 + i - 1]
    BY <1>1, <1>2, SubSeqProperties, ElementOfSeq, JoinedLength DEF First
  <2>2. \A i \in 1 .. Len(s) : First(s \o t, Len(s))[i] = s[i]
    BY <1>2, <2>1, JoinedLength
  <2> QED BY <1>3, <2>2, SeqEqual
<1>5. After(s \o t, Len(s)) = t
  <2>1. \A i \in 1 .. Len(t) : After(s \o t, Len(s))[i] = (s \o t)[Len(s) + i]
    BY <1>1, <1>2, SubSeqProperties, ElementOfSeq, JoinedLength DEF After
  <2>2. \A i \in 1 .. Len(t) : After(s \o t, Len(s))[i] = t[i]
    BY <1>2, <2>1, JoinedLength
  <2> QED BY <1>3, <2>2, SeqEqual
<1> QED BY <1>4, <1>5

-----------------------------------------------------------------------------
(* What the tuples of variables that a step leaves alone stand for *)
LEMMA WriterFrame ==
  ASSUME UNCHANGED outVars
  PROVE  /\ mode' = mode /\ buf' = buf /\ calling' = calling /\ rest' = rest
         /\ chunk' = chunk /\ oerror' = oerror /\ wopen' = wopen /\ written' = written
  BY DEF outVars

(* the same for the reader *)
LEMMA ReaderFrame ==
  ASSUME UNCHANGED inVars
  PROVE  /\ ropen' = ropen /\ want' = want /\ got' = got /\ ierror' = ierror
         /\ delivered' = delivered
  BY DEF inVars

(* the bounds are numbers *)
LEMMA Sizes ==
  /\ BufSize \in Nat /\ BufSize > 0 /\ PipeSize \in Nat /\ MaxBytes \in Nat /\ MaxLen \in Nat
  BY StreamsAssumption

(* the room in the buffer *)
LEMMA RoomFacts ==
  ASSUME WriterOK
  PROVE  Room \in Nat /\ (mode = "buffered" => Room = BufSize - Len(buf))
                      /\ (mode # "buffered" => Room = 0)
  BY Sizes, LenProperties DEF WriterOK, Room

(* How much of the rest goes past the buffer is at most all of it. *)
LEMMA Multiple ==
  ASSUME NEW n \in Nat
  PROVE  n - (n % BufSize) \in 0 .. n
<1>1. n % BufSize \in 0 .. BufSize - 1
  BY Sizes
<1>2. n % BufSize <= n
  BY Sizes
<1> QED BY <1>1, <1>2, Sizes

(* the steps of the writer *)
LEMMA WriterStep ==
  ASSUME Inv, Writer
  PROVE  WriterOK'
<1> USE DEF Inv
<1>0. /\ Len(buf) \in Nat /\ Len(rest) \in Nat /\ Len(chunk) \in Nat
      /\ <<>> \in Seq(Nat) /\ Len(<<>>) = 0
  BY LenProperties, EmptySeq DEF WriterOK
<1>1. ASSUME NEW n \in 0 .. MaxLen, written + n <= MaxBytes, Write(n)
      PROVE  WriterOK'
  <2>1. n \in Nat /\ written \in Nat
    BY Sizes DEF WriterOK
  <2>2. rest' \in Seq(Nat)
    BY <1>1, <2>1, BytesAreNumbers DEF Write
  <2>3. written' \in 0 .. MaxBytes
    BY <1>1, <2>1, Sizes DEF Write
  <2>4. /\ UNCHANGED <<buf, chunk>> /\ calling = "none" /\ calling' = "write"
        /\ mode' = IF mode = "fresh" /\ n > 0 THEN "buffered" ELSE mode
    BY <1>1 DEF Write
  <2> QED BY <2>2, <2>3, <2>4 DEF WriterOK
<1>2. ASSUME Place
      PROVE  WriterOK'
  <2>1. /\ buf' = buf \o rest /\ rest' = <<>> /\ calling' = "none" /\ chunk = <<>>
        /\ Len(rest) <= Room /\ UNCHANGED <<mode, chunk, written>>
    BY <1>2 DEF Place
  <2>2. buf' \in Seq(Nat) /\ Len(buf') = Len(buf) + Len(rest)
    BY <2>1, JoinedLength DEF WriterOK
  <2>3. Len(buf') <= BufSize
    BY <1>0, <2>1, <2>2, RoomFacts, Sizes DEF WriterOK
  <2>4. mode # "buffered" => buf' = <<>>
    <3>1. mode # "buffered" => Len(rest) = 0 /\ buf = <<>>
      BY <1>0, <2>1, RoomFacts DEF WriterOK
    <3>2. Len(rest) = 0 => rest = <<>>
      BY EmptySeq DEF WriterOK
    <3> QED BY <1>0, <2>1, <3>1, <3>2, ConcatEmptySeq
  <2> QED BY <1>0, <2>1, <2>2, <2>3, <2>4 DEF WriterOK
<1>3. ASSUME Bypass
      PROVE  WriterOK'
  <2>1. PICK n \in 0 .. Len(rest) : chunk' = First(rest, n) /\ rest' = After(rest, n)
    <3>1. LET n == IF mode = "unbuffered" THEN Len(rest) ELSE Len(rest) - (Len(rest) % BufSize)
          IN  n \in 0 .. Len(rest) /\ chunk' = First(rest, n) /\ rest' = After(rest, n)
      BY <1>0, <1>3, Multiple DEF Bypass
    <3> QED BY <3>1
  <2>2. chunk' \in Seq(Nat) /\ rest' \in Seq(Nat)
    BY <2>1, Split DEF WriterOK
  <2> QED BY <1>3, <2>2 DEF Bypass, WriterOK
<1>4. ASSUME Overflow
      PROVE  WriterOK'
  <2>1. Room \in 0 .. Len(rest)
    BY <1>0, <1>4, RoomFacts DEF Overflow
  <2>2. First(rest, Room) \in Seq(Nat) /\ After(rest, Room) \in Seq(Nat)
    BY <2>1, Split DEF WriterOK
  <2>3. chunk' \in Seq(Nat) /\ rest' \in Seq(Nat) /\ buf' = <<>>
    BY <1>4, <2>2, JoinedLength DEF Overflow, WriterOK
  <2> QED BY <1>0, <1>4, <2>3, Sizes DEF Overflow, WriterOK
<1>5. ASSUME NEW c \in {"flush", "close", "SetUnbuffered", "SetBuffered"}, Flush(c)
      PROVE  WriterOK'
  BY <1>0, <1>5, Sizes DEF Flush, WriterOK
<1>6. ASSUME Flushed
      PROVE  WriterOK'
  BY <1>0, <1>6 DEF Flushed, WriterOK
<1>7. ASSUME Send
      PROVE  WriterOK'
  <2>1. PICK n \in 1 .. Len(chunk) : chunk' = After(chunk, n)
    BY <1>7 DEF Send
  <2>2. chunk' \in Seq(Nat)
    BY <1>0, <2>1, Split DEF WriterOK
  <2> QED BY <1>7, <2>2 DEF Send, WriterOK
<1>8. ASSUME SendFails \/ ClearOutError
      PROVE  WriterOK'
  BY <1>0, <1>8 DEF SendFails, ClearOutError, WriterOK
<1> QED BY <1>1, <1>2, <1>3, <1>4, <1>5, <1>6, <1>7, <1>8 DEF Writer

(* the steps of the reader *)
LEMMA ReaderStep ==
  ASSUME Inv, Reader
  PROVE  ReaderOK'
<1> USE DEF Inv
<1>0. /\ Len(got) \in Nat /\ Len(pipe) \in Nat /\ <<>> \in Seq(Nat) /\ Len(<<>>) = 0
  BY LenProperties, EmptySeq DEF ReaderOK, PipeOK
<1>1. ASSUME NEW len \in 1 .. MaxLen, Read(len)
      PROVE  ReaderOK'
  BY <1>0, <1>1, Sizes DEF Read, ReaderOK
<1>2. ASSUME Receive
      PROVE  ReaderOK'
  <2>1. PICK n \in 1 .. want - Len(got) :
          /\ n <= Len(pipe)
          /\ LET data == got \o First(pipe, n) IN
             IF Len(data) = want
             THEN delivered' = delivered \o data /\ want' = 0 /\ got' = <<>>
             ELSE got' = data /\ UNCHANGED <<want, delivered>>
    BY <1>2 DEF Receive
  <2>2. n \in 0 .. Len(pipe) /\ n \in Nat
    BY <1>0, <2>1 DEF ReaderOK
  <2>3. First(pipe, n) \in Seq(Nat) /\ Len(First(pipe, n)) = n
    BY <2>2, Split DEF PipeOK
  <2>4. PICK data : data = got \o First(pipe, n)
    OBVIOUS
  <2>5. data \in Seq(Nat) /\ Len(data) = Len(got) + n
    BY <2>3, <2>4, JoinedLength DEF ReaderOK
  <2>6. Len(data) <= want
    BY <1>0, <2>1, <2>2, <2>5, Sizes DEF ReaderOK
  <2>7. CASE Len(data) = want
    <3>1. delivered' = delivered \o data /\ want' = 0 /\ got' = <<>>
      BY <2>1, <2>4, <2>7
    <3>2. delivered' \in Seq(Nat)
      BY <2>5, <3>1, JoinedLength DEF ReaderOK
    <3> QED BY <1>0, <3>1, <3>2, Sizes DEF ReaderOK
  <2>8. CASE Len(data) # want
    <3>1. got' = data /\ want' = want /\ delivered' = delivered
      BY <2>1, <2>4, <2>8
    <3> QED BY <2>5, <2>6, <3>1 DEF ReaderOK
  <2> QED BY <2>7, <2>8
<1>3. ASSUME ReceiveFails
      PROVE  ReaderOK'
  BY <1>0, <1>3, Sizes DEF ReceiveFails, ReaderOK
<1>4. ASSUME ClearInError \/ CloseIn
      PROVE  ReaderOK'
  BY <1>4 DEF ClearInError, CloseIn, ReaderOK
<1> QED BY <1>1, <1>2, <1>3, <1>4 DEF Reader

(* what the system holds *)
LEMMA PipeStep ==
  ASSUME Inv, Next
  PROVE  PipeOK'
<1> USE DEF Inv
<1>0. /\ Len(pipe) \in Nat /\ Len(chunk) \in Nat /\ Len(got) \in Nat
      /\ <<>> \in Seq(Nat) /\ Len(<<>>) = 0
  BY LenProperties, EmptySeq DEF PipeOK, WriterOK, ReaderOK
<1>1. ASSUME Send
      PROVE  PipeOK'
  <2>1. PICK n \in 1 .. Len(chunk) : Len(pipe) + n <= PipeSize /\ pipe' = pipe \o First(chunk, n)
    BY <1>1 DEF Send
  <2>2. First(chunk, n) \in Seq(Nat) /\ Len(First(chunk, n)) = n
    BY <1>0, <2>1, Split DEF WriterOK
  <2> QED BY <2>1, <2>2, JoinedLength DEF PipeOK
<1>2. ASSUME Receive
      PROVE  PipeOK'
  <2>1. PICK n \in 1 .. want - Len(got) : n <= Len(pipe) /\ pipe' = After(pipe, n)
    BY <1>2 DEF Receive
  <2>2. n \in 0 .. Len(pipe) /\ n \in Nat
    BY <1>0, <2>1 DEF ReaderOK
  <2>3. pipe' \in Seq(Nat) /\ Len(pipe') = Len(pipe) - n
    BY <2>1, <2>2, Split DEF PipeOK
  <2> QED BY <1>0, <2>2, <2>3, Sizes DEF PipeOK
<1>3. ASSUME Reset
      PROVE  PipeOK'
  BY <1>0, <1>3, Sizes DEF Reset, PipeOK
<1>4. ASSUME Next, ~Send, ~Receive, ~Reset
      PROVE  pipe' = pipe
  BY <1>4, WriterFrame, ReaderFrame
     DEF Next, Writer, Reader, Write, Place, Bypass, Overflow, Flush, Flushed, SendFails,
         ClearOutError, Read, ReceiveFails, ClearInError, CloseIn
<1> QED BY <1>1, <1>2, <1>3, <1>4 DEF PipeOK

(* Every step keeps Inv. *)
LEMMA InvStep ==
  ASSUME Inv, [Next]_vars
  PROVE  Inv'
<1> USE DEF Inv
<1>1. Flags'
  BY WriterFrame, ReaderFrame
     DEF Flags, Next, Writer, Reader, Write, Place, Bypass, Overflow, Flush, Flushed, Send,
         SendFails, ClearOutError, Read, Receive, ReceiveFails, ClearInError, CloseIn, Reset, vars
<1>2. CASE Writer
  <2>1. UNCHANGED inVars
    BY <1>2 DEF Writer, Write, Place, Bypass, Overflow, Flush, Flushed, Send, SendFails,
                ClearOutError
  <2> QED BY <1>1, <1>2, <2>1, WriterStep, PipeStep, ReaderFrame DEF Next, ReaderOK
<1>3. CASE Reader
  <2>1. UNCHANGED outVars
    BY <1>3 DEF Reader, Read, Receive, ReceiveFails, ClearInError, CloseIn
  <2> QED BY <1>1, <1>3, <2>1, ReaderStep, PipeStep, WriterFrame DEF Next, WriterOK
<1>4. CASE Reset
  BY <1>1, <1>4, PipeStep, WriterFrame, ReaderFrame DEF Next, Reset, WriterOK, ReaderOK
<1>5. CASE UNCHANGED vars
  BY <1>1, <1>5, WriterFrame, ReaderFrame DEF vars, WriterOK, ReaderOK, PipeOK
<1> QED BY <1>2, <1>3, <1>4, <1>5 DEF Next

(* Inv holds in every reachable state. *)
LEMMA Invariance ==
  Spec => []Inv
<1>1. ASSUME Init
      PROVE  Inv
  <2>1. <<>> \in Seq(Nat) /\ Len(<<>>) = 0
    BY EmptySeq
  <2>2. Flags
    BY <1>1 DEF Init, Flags
  <2>3. WriterOK
    BY <1>1, <2>1, Sizes DEF Init, WriterOK
  <2>4. PipeOK /\ ReaderOK
    BY <1>1, <2>1, Sizes DEF Init, PipeOK, ReaderOK
  <2> QED BY <2>2, <2>3, <2>4 DEF Inv
<1> QED BY <1>1, InvStep, PTL DEF Spec

(* The types hold, for any sizes: in particular no write overruns the      *)
(* buffer, and the buffer is empty when it is given up or made.            *)
THEOREM StreamTypes ==
  Spec => []TypeOK
<1>1. Inv => TypeOK
  BY DEF Inv, Flags, WriterOK, PipeOK, ReaderOK, TypeOK
<1> QED BY <1>1, Invariance, PTL

-----------------------------------------------------------------------------
(* the sequences the mapping is made of *)
LEMMA TransitFacts ==
  ASSUME Inv
  PROVE  /\ Pending \in Seq(Nat) /\ Transit \in Seq(Nat) /\ got \o pipe \in Seq(Nat)
         /\ Lost => Transit = got \o pipe
         /\ ~Lost => Transit = got \o pipe \o Pending
<1>1. got \o pipe \in Seq(Nat) /\ Pending \in Seq(Nat)
  BY JoinedLength DEF Inv, WriterOK, PipeOK, ReaderOK, Pending
<1>2. got \o pipe \o <<>> = got \o pipe
  BY <1>1, ConcatEmptySeq
<1>3. got \o pipe \o Pending \in Seq(Nat)
  BY <1>1, JoinedLength
<1> QED BY <1>1, <1>2, <1>3 DEF Transit

(* concatenation of the pieces, which the provers do not instantiate alone *)
LEMMA Assoc ==
  \A s, t, u \in Seq(Nat) : s \o t \o u = s \o (t \o u)
  BY ConcatAssociative

(* An empty piece changes nothing. *)
LEMMA NoneJoined ==
  \A s \in Seq(Nat) : s \o <<>> = s /\ <<>> \o s = s
  BY ConcatEmptySeq

(* Two pieces of bytes are one. *)
LEMMA Joined ==
  \A s, t \in Seq(Nat) : s \o t \in Seq(Nat)
  BY JoinedLength

(* Four pieces may be joined in any order. *)
LEMMA Regroup ==
  ASSUME NEW a \in Seq(Nat), NEW b \in Seq(Nat), NEW c \in Seq(Nat), NEW d \in Seq(Nat)
  PROVE  /\ a \o b \o c = a \o (b \o c)
         /\ a \o b \o (c \o d) = a \o (b \o c) \o d
         /\ a \o b \o c \in Seq(Nat)
<1>1. a \o b \in Seq(Nat) /\ b \o c \in Seq(Nat) /\ a \o b \o c \in Seq(Nat)
  BY Joined, Zenon
<1>2. a \o b \o c = a \o (b \o c)
  BY Assoc, Zenon
<1>3. a \o b \o c \o d = a \o b \o (c \o d)
  <2>1. PICK e \in Seq(Nat) : e = a \o b
    BY <1>1
  <2>2. e \o c \o d = e \o (c \o d)
    BY Assoc, Zenon
  <2> QED BY <2>1, <2>2, Zenon
<1>4. a \o b \o (c \o d) = a \o (b \o c) \o d
  BY <1>2, <1>3, Zenon
<1> QED BY <1>1, <1>2, <1>4, Zenon

(* Between buffer and socket the writer only moves its bytes. *)
LEMMA PendingMoves ==
  ASSUME Inv,
         \/ Place \/ Bypass \/ Overflow \/ Flushed
         \/ \E c \in {"flush", "close", "SetUnbuffered", "SetBuffered"} : Flush(c)
  PROVE  Pending' = Pending
<1> USE DEF Inv
<1>0. /\ buf \in Seq(Nat) /\ rest \in Seq(Nat) /\ chunk \in Seq(Nat) /\ <<>> \in Seq(Nat)
      /\ Len(rest) \in Nat
  BY EmptySeq, LenProperties DEF WriterOK
<1>1. CASE Place
  <2>1. chunk = <<>> /\ chunk' = <<>> /\ buf' = buf \o rest /\ rest' = <<>>
    BY <1>1 DEF Place
  <2>2. buf \o rest \in Seq(Nat)
    BY <1>0, JoinedLength
  <2> QED BY <1>0, <2>1, <2>2, NoneJoined DEF Pending
<1>2. CASE Bypass
  <2>1. PICK n \in 0 .. Len(rest) : chunk' = First(rest, n) /\ rest' = After(rest, n)
    <3>1. LET n == IF mode = "unbuffered" THEN Len(rest) ELSE Len(rest) - (Len(rest) % BufSize)
          IN  n \in 0 .. Len(rest) /\ chunk' = First(rest, n) /\ rest' = After(rest, n)
      BY <1>0, <1>2, Multiple DEF Bypass
    <3> QED BY <3>1
  <2>2. chunk' \o rest' = rest /\ chunk' \in Seq(Nat)
    BY <1>0, <2>1, Split
  <2>3. chunk = <<>> /\ buf = <<>> /\ buf' = <<>>
    BY <1>2 DEF Bypass
  <2> QED BY <1>0, <2>2, <2>3, NoneJoined DEF Pending
<1>3. CASE Overflow
  <2>1. Room \in 0 .. Len(rest)
    BY <1>0, <1>3, RoomFacts DEF Overflow
  <2>2. /\ First(rest, Room) \in Seq(Nat) /\ After(rest, Room) \in Seq(Nat)
        /\ First(rest, Room) \o After(rest, Room) = rest
    BY <1>0, <2>1, Split
  <2>3. /\ chunk = <<>> /\ chunk' = buf \o First(rest, Room)
        /\ rest' = After(rest, Room) /\ buf' = <<>>
    BY <1>3 DEF Overflow
  <2>4. buf \o First(rest, Room) \in Seq(Nat)
    BY <1>0, <2>2, JoinedLength
  <2>5. Pending' = buf \o First(rest, Room) \o After(rest, Room)
    BY <1>0, <2>3, <2>4, NoneJoined DEF Pending
  <2>6. Pending = buf \o rest
    BY <1>0, <2>3, NoneJoined DEF Pending
  <2>7. buf \o First(rest, Room) \o After(rest, Room) = buf \o (First(rest, Room) \o After(rest, Room))
    BY <1>0, <2>2, Assoc, Zenon
  <2> QED BY <2>2, <2>5, <2>6, <2>7, Zenon
<1>4. CASE Flushed
  BY <1>4 DEF Flushed, Pending
<1>5. ASSUME NEW c \in {"flush", "close", "SetUnbuffered", "SetBuffered"}, Flush(c)
      PROVE  Pending' = Pending
  <2>1. chunk = <<>> /\ chunk' = buf /\ buf' = <<>> /\ rest' = rest
    BY <1>5 DEF Flush, WriterOK
  <2> QED BY <1>0, <2>1, NoneJoined DEF Pending
<1> QED BY <1>1, <1>2, <1>3, <1>4, <1>5

(* the steps of the byte stream, on the mapped variables *)
LEMMA MappedStutter ==
  ASSUME written' = written, Transit' = Transit, delivered' = delivered,
         Lost' = Lost, broken' = broken
  PROVE  UNCHANGED BS!vars
  BY DEF BS!vars, Transit, Lost, Pending

(* New bytes at the end of what is in transit are a write. *)
LEMMA MappedWrite ==
  ASSUME written' \in Nat, written' > written,
         Transit' = IF Lost THEN Transit ELSE Transit \o BS!Bytes(written, written'),
         delivered' = delivered, Lost' = Lost, broken' = broken
  PROVE  BS!Write
  BY DEF BS!Write, Transit, Lost, Pending

(* Bytes that go from the front of it to the reader are delivered. *)
LEMMA MappedDeliver ==
  ASSUME \E n \in 1 .. Len(Transit) :
           /\ delivered' = delivered \o SubSeq(Transit, 1, n)
           /\ Transit' = SubSeq(Transit, n + 1, Len(Transit)),
         written' = written, Lost' = Lost, broken' = broken
  PROVE  BS!Deliver
  BY DEF BS!Deliver, Transit, Lost, Pending

(* What is left when the connection ends is a first part. *)
LEMMA MappedCut ==
  ASSUME \E n \in 0 .. Len(Transit) : Transit' = SubSeq(Transit, 1, n),
         Lost', written' = written, delivered' = delivered, broken' = broken
  PROVE  BS!Cut
<1>1. Lost' = TRUE
  BY DEF Lost
<1> QED BY <1>1 DEF BS!Cut, Transit, Lost, Pending

(* A piece that goes out of the middle is lost with an error. *)
LEMMA MappedLose ==
  ASSUME \E i, j \in 0 .. Len(Transit) :
           /\ i <= j
           /\ Transit' = SubSeq(Transit, 1, i) \o SubSeq(Transit, j + 1, Len(Transit)),
         broken' = TRUE, written' = written, delivered' = delivered, Lost' = Lost
  PROVE  BS!Lose
  BY DEF BS!Lose, Transit, Lost, Pending

(* Write of n bytes is that of the byte stream, or nothing for none. *)
LEMMA WriteMaps ==
  ASSUME Inv, NEW n \in 0 .. MaxLen, Write(n)
  PROVE  BS!Write \/ UNCHANGED BS!vars
<1> DEFINE new == BS!Bytes(written, written + n)
<1>1. /\ calling = "none" /\ rest' = new /\ written' = written + n
      /\ UNCHANGED <<buf, chunk, inVars, pipe, reset, broken>>
  BY DEF Write
<1>2. n \in Nat /\ written \in Nat /\ written' \in Nat
  BY <1>1, Sizes DEF Inv, WriterOK
<1>3. new \in Seq(Nat) /\ (n = 0 => new = <<>>)
  BY <1>2, BytesAreNumbers
<1> HIDE DEF new
<1>4. Lost' = Lost /\ got' = got /\ pipe' = pipe /\ delivered' = delivered /\ broken' = broken
  BY <1>1, ReaderFrame DEF Lost
<1>5. chunk = <<>> /\ rest = <<>> /\ buf \in Seq(Nat)
  BY <1>1 DEF Inv, WriterOK
<1>6. Pending = buf /\ Pending' = buf \o new
  <2>1. <<>> \in Seq(Nat)
    BY EmptySeq
  <2> QED BY <1>1, <1>5, <2>1, NoneJoined DEF Pending
<1>7. Transit' = IF Lost THEN Transit ELSE Transit \o new
  <2>1. CASE Lost
    BY <1>4, <2>1 DEF Transit
  <2>2. CASE ~Lost
    <3>1. Transit = got \o pipe \o buf /\ Transit' = got \o pipe \o (buf \o new)
      BY <1>4, <1>6, <2>2 DEF Transit
    <3>2. got \o pipe \in Seq(Nat)
      BY TransitFacts
    <3>3. got \o pipe \o buf \o new = got \o pipe \o (buf \o new)
      BY <1>3, <1>5, <3>2, Assoc, Zenon
    <3> QED BY <2>2, <3>1, <3>3, Zenon
  <2> QED BY <2>1, <2>2
<1>8. CASE n = 0
  <2>1. written' = written
    BY <1>1, <1>2, <1>8
  <2>2. Transit' = Transit
    <3>1. Transit \in Seq(Nat) /\ new = <<>>
      BY <1>3, <1>8, TransitFacts
    <3> QED BY <1>7, <3>1, NoneJoined, Zenon
  <2> QED BY <1>4, <2>1, <2>2, MappedStutter
<1>9. CASE n # 0
  <2>1. written' > written
    BY <1>1, <1>2, <1>9
  <2>2. new = BS!Bytes(written, written')
    BY <1>1 DEF new
  <2> QED BY <1>2, <1>4, <1>7, <2>1, <2>2, MappedWrite
<1> QED BY <1>8, <1>9

(* Any piece but the first and the last of the bytes may go. *)
LEMMA LoseMaps ==
  ASSUME NEW a \in Seq(Nat), NEW b \in Seq(Nat), NEW c \in Seq(Nat),
         Transit = a \o b \o c, Transit' = a \o c,
         broken' = TRUE, UNCHANGED <<written, delivered, reset, ropen>>
  PROVE  BS!Lose
<1>1. a \o b \in Seq(Nat) /\ b \o c \in Seq(Nat) /\ Transit = a \o (b \o c)
  <2>1. a \o b \o c = a \o (b \o c)
    BY Assoc, Zenon
  <2> QED BY <2>1, Joined
<1>2. First(Transit, Len(a)) = a
  <2>1. First(a \o (b \o c), Len(a)) = a
    BY <1>1, Unjoined
  <2> QED BY <1>1, <2>1, Zenon
<1>3. After(Transit, Len(a \o b)) = c
  <2>1. After(a \o b \o c, Len(a \o b)) = c
    BY <1>1, Unjoined
  <2> QED BY <2>1, Zenon
<1>4. /\ Len(a) \in 0 .. Len(Transit) /\ Len(a \o b) \in 0 .. Len(Transit)
      /\ Len(a) <= Len(a \o b)
  <2>1. Len(Transit) = Len(a \o b) + Len(c) /\ Len(a \o b) = Len(a) + Len(b)
    BY <1>1, JoinedLength
  <2>2. Len(a) \in Nat /\ Len(b) \in Nat /\ Len(c) \in Nat
    BY LenProperties
  <2> QED BY <2>1, <2>2
<1>5. \E i, j \in 0 .. Len(Transit) :
        /\ i <= j
        /\ Transit' = SubSeq(Transit, 1, i) \o SubSeq(Transit, j + 1, Len(Transit))
  BY <1>2, <1>3, <1>4 DEF First, After
<1>6. Lost' = Lost
  BY DEF Lost
<1> QED BY <1>5, <1>6, MappedLose

(* What is left of the bytes after the connection has ended is a first     *)
(* part of them.                                                           *)
LEMMA CutMaps ==
  ASSUME NEW a \in Seq(Nat), NEW b \in Seq(Nat),
         Transit = a \o b, Transit' = a,
         Lost', UNCHANGED <<written, delivered, broken>>
  PROVE  BS!Cut
<1>1. First(Transit, Len(a)) = a
  BY Unjoined
<1>2. Len(a) \in 0 .. Len(Transit)
  <2>1. Len(Transit) = Len(a) + Len(b) /\ Len(a) \in Nat /\ Len(b) \in Nat
    BY JoinedLength
  <2> QED BY <2>1
<1>3. \E n \in 0 .. Len(Transit) : Transit' = SubSeq(Transit, 1, n)
  BY <1>1, <1>2 DEF First
<1> QED BY <1>3, MappedCut

(* send moves bytes on. *)
LEMMA SendMaps ==
  ASSUME Inv, Send
  PROVE  UNCHANGED BS!vars
<1>1. PICK n \in 1 .. Len(chunk) : pipe' = pipe \o First(chunk, n) /\ chunk' = After(chunk, n)
  BY DEF Send
<1>2. /\ ~Lost /\ ~Lost' /\ Lost' = Lost
      /\ UNCHANGED <<written, buf, rest, got, delivered, broken>>
  BY ReaderFrame DEF Send, Carried, Lost
<1>3. /\ chunk \in Seq(Nat) /\ buf \in Seq(Nat) /\ rest \in Seq(Nat)
      /\ pipe \in Seq(Nat) /\ got \in Seq(Nat) /\ Len(chunk) \in Nat
  BY LenProperties DEF Inv, WriterOK, PipeOK, ReaderOK
<1>4. PICK a, b, p, c, d :
        /\ a = First(chunk, n) /\ b = After(chunk, n)
        /\ p = got \o pipe /\ c = buf \o rest /\ d = b \o c
  OBVIOUS
<1>5. a \in Seq(Nat) /\ b \in Seq(Nat) /\ a \o b = chunk
  <2>1. n \in 0 .. Len(chunk)
    BY <1>1, <1>3
  <2>2. /\ First(chunk, n) \in Seq(Nat) /\ After(chunk, n) \in Seq(Nat)
        /\ First(chunk, n) \o After(chunk, n) = chunk
    BY <1>3, <2>1, Split
  <2> QED BY <1>4, <2>2, Zenon
<1>6. c \in Seq(Nat) /\ p \in Seq(Nat) /\ d \in Seq(Nat)
  BY <1>3, <1>4, <1>5, Joined
<1>7. Pending = a \o d
  <2>1. chunk \o buf \o rest = chunk \o (buf \o rest)
    BY <1>3, Assoc, Zenon
  <2>2. a \o b \o c = a \o (b \o c)
    BY <1>5, <1>6, Assoc, Zenon
  <2> QED BY <1>4, <1>5, <2>1, <2>2, Zenon DEF Pending
<1>8. Pending' = d
  <2>1. b \o buf \o rest = b \o (buf \o rest)
    <3>1. b \in Seq(Nat) /\ buf \in Seq(Nat) /\ rest \in Seq(Nat)
      BY <1>3, <1>5
    <3> QED BY <3>1, Assoc, Zenon
  <2>2. chunk' = b /\ buf' = buf /\ rest' = rest
    BY <1>1, <1>2, <1>4
  <2> QED BY <1>4, <2>1, <2>2, Zenon DEF Pending
<1>9. got' \o pipe' = p \o a
  <2>1. got \o pipe \o a = got \o (pipe \o a)
    BY <1>3, <1>5, Assoc, Zenon
  <2> QED BY <1>1, <1>2, <1>4, <2>1, Zenon
<1>10. Transit' = Transit
  <2>1. p \o a \o d = p \o (a \o d)
    BY <1>5, <1>6, Assoc, Zenon
  <2>2. Transit = p \o (a \o d)
    BY <1>2, <1>4, <1>7 DEF Transit
  <2>3. Transit' = p \o a \o d
    BY <1>2, <1>8, <1>9 DEF Transit
  <2> QED BY <2>1, <2>2, <2>3, Zenon
<1> QED BY <1>2, <1>10, MappedStutter

(* A send that fails loses the rest of its chunk. *)
LEMMA SendFailsMaps ==
  ASSUME Inv, SendFails
  PROVE  BS!Lose
<1>1. /\ chunk' = <<>> /\ broken' = TRUE /\ Lost' = Lost
      /\ UNCHANGED <<written, buf, rest, got, pipe, delivered, reset, ropen>>
  BY ReaderFrame DEF SendFails, Lost
<1>2. /\ chunk \in Seq(Nat) /\ buf \in Seq(Nat) /\ rest \in Seq(Nat) /\ <<>> \in Seq(Nat)
      /\ got \o pipe \in Seq(Nat)
  BY EmptySeq, TransitFacts DEF Inv, WriterOK
<1>3. CASE Lost
  <2>1. Transit = got \o pipe \o <<>> \o <<>> /\ Transit' = got \o pipe \o <<>>
    BY <1>1, <1>2, <1>3, NoneJoined DEF Transit
  <2> QED BY <1>1, <1>2, <2>1, LoseMaps
<1>4. CASE ~Lost
  <2>1. PICK c, p : c = buf \o rest /\ p = got \o pipe
    OBVIOUS
  <2>2. c \in Seq(Nat) /\ p \in Seq(Nat)
    BY <1>2, <2>1, Joined
  <2>3. Pending = chunk \o c
    <3>1. chunk \o buf \o rest = chunk \o (buf \o rest)
      BY <1>2, Assoc, Zenon
    <3> QED BY <2>1, <3>1, Zenon DEF Pending
  <2>4. Pending' = c
    <3>1. <<>> \o buf = buf
      <4>1. buf \in Seq(Nat)
        BY <1>2
      <4> QED BY <4>1, NoneJoined, Zenon
    <3>2. chunk' = <<>> /\ buf' = buf /\ rest' = rest
      BY <1>1
    <3> QED BY <2>1, <3>1, <3>2, Zenon DEF Pending
  <2>5. Transit = p \o chunk \o c
    <3>1. p \o chunk \o c = p \o (chunk \o c)
      <4>1. p \in Seq(Nat) /\ chunk \in Seq(Nat) /\ c \in Seq(Nat)
        BY <1>2, <2>2
      <4> QED BY <4>1, Assoc, Zenon
    <3>2. Transit = p \o (chunk \o c)
      BY <1>4, <2>1, <2>3 DEF Transit
    <3> QED BY <3>1, <3>2, Zenon
  <2>6. Transit' = p \o c
    BY <1>1, <1>4, <2>1, <2>4 DEF Transit
  <2> QED BY <1>1, <1>2, <2>2, <2>5, <2>6, LoseMaps
<1> QED BY <1>3, <1>4

(* A receive that completes a read delivers; another only collects. *)
LEMMA ReceiveMaps ==
  ASSUME Inv, Receive
  PROVE  BS!Deliver \/ UNCHANGED BS!vars
<1>1. PICK n \in 1 .. want - Len(got) :
        /\ n <= Len(pipe)
        /\ pipe' = After(pipe, n)
        /\ LET data == got \o First(pipe, n) IN
           IF Len(data) = want
           THEN delivered' = delivered \o data /\ want' = 0 /\ got' = <<>>
           ELSE got' = data /\ UNCHANGED <<want, delivered>>
  BY DEF Receive
<1>2. /\ Lost' = Lost /\ Pending' = Pending
      /\ UNCHANGED <<written, reset, ropen, broken>>
  BY WriterFrame DEF Receive, Lost, Pending
<1>3. /\ pipe \in Seq(Nat) /\ got \in Seq(Nat) /\ Len(pipe) \in Nat /\ Len(got) \in Nat
      /\ want \in Nat /\ <<>> \in Seq(Nat)
  BY LenProperties, EmptySeq, Sizes DEF Inv, PipeOK, ReaderOK
<1>4. PICK a, b, data, more :
        /\ a = First(pipe, n) /\ b = After(pipe, n) /\ data = got \o a
        /\ more = IF Lost THEN <<>> ELSE Pending
  OBVIOUS
<1>5. a \in Seq(Nat) /\ b \in Seq(Nat) /\ a \o b = pipe /\ Len(a) = n
  <2>1. n \in 0 .. Len(pipe)
    BY <1>1, <1>3
  <2>2. /\ First(pipe, n) \in Seq(Nat) /\ After(pipe, n) \in Seq(Nat)
        /\ First(pipe, n) \o After(pipe, n) = pipe /\ Len(First(pipe, n)) = n
    BY <1>3, <2>1, Split
  <2> QED BY <1>4, <2>2, Zenon
<1>6. data \in Seq(Nat) /\ Len(data) = Len(got) + n /\ more \in Seq(Nat)
  <2>1. got \o a \in Seq(Nat) /\ Len(got \o a) = Len(got) + n
    BY <1>3, <1>5, JoinedLength
  <2>2. more \in Seq(Nat)
    BY <1>3, <1>4, TransitFacts
  <2> QED BY <1>4, <2>1, <2>2, Zenon
<1>7. Transit = data \o b \o more
  <2>1. got \o a \o b = got \o (a \o b)
    BY <1>3, <1>5, Assoc, Zenon
  <2>2. got \o pipe = data \o b
    BY <1>4, <1>5, <2>1, Zenon
  <2> QED BY <1>4, <2>2 DEF Transit
<1>8. CASE Len(data) = want
  <2>1. delivered' = delivered \o data /\ got' = <<>>
    BY <1>1, <1>4, <1>8
  <2>2. Transit' = b \o more
    <3>1. got' \o pipe' = b
      BY <1>1, <1>4, <1>5, <2>1, NoneJoined, Zenon
    <3>2. more = IF Lost' THEN <<>> ELSE Pending'
      BY <1>2, <1>4
    <3> QED BY <3>1, <3>2, Zenon DEF Transit
  <2>3. b \o more \in Seq(Nat) /\ Transit = data \o (b \o more)
    <3>1. data \o b \o more = data \o (b \o more)
      BY <1>5, <1>6, Assoc, Zenon
    <3> QED BY <1>5, <1>6, <1>7, <3>1, Joined, Zenon
  <2>4. First(Transit, Len(data)) = data /\ After(Transit, Len(data)) = Transit'
    BY <1>6, <2>2, <2>3, Unjoined
  <2>5. Len(data) \in 1 .. Len(Transit)
    <3>1. Len(Transit) = Len(data) + Len(b \o more) /\ Len(b \o more) \in Nat
      BY <1>6, <2>3, JoinedLength
    <3> QED BY <1>3, <1>6, <3>1
  <2>6. \E m \in 1 .. Len(Transit) :
          /\ delivered' = delivered \o SubSeq(Transit, 1, m)
          /\ Transit' = SubSeq(Transit, m + 1, Len(Transit))
    BY <2>1, <2>4, <2>5 DEF First, After
  <2> QED BY <1>2, <2>6, MappedDeliver
<1>9. CASE Len(data) # want
  <2>1. got' = data /\ delivered' = delivered
    BY <1>1, <1>4, <1>9
  <2>2. Transit' = data \o b \o more
    <3>1. more = IF Lost' THEN <<>> ELSE Pending'
      BY <1>2, <1>4
    <3> QED BY <1>1, <1>4, <2>1, <3>1, Zenon DEF Transit
  <2> QED BY <1>2, <1>7, <2>1, <2>2, MappedStutter
<1> QED BY <1>8, <1>9

(* A receive that fails loses what its read had collected. *)
LEMMA ReceiveFailsMaps ==
  ASSUME Inv, ReceiveFails
  PROVE  BS!Lose
<1>1. /\ got' = <<>> /\ broken' = TRUE /\ Lost' = Lost /\ Pending' = Pending
      /\ UNCHANGED <<written, pipe, delivered, reset, ropen>>
  BY WriterFrame DEF ReceiveFails, Lost, Pending
<1>2. got \in Seq(Nat) /\ pipe \in Seq(Nat) /\ <<>> \in Seq(Nat)
  BY EmptySeq DEF Inv, PipeOK, ReaderOK
<1>3. PICK more : more = IF Lost THEN <<>> ELSE Pending
  OBVIOUS
<1>4. more \in Seq(Nat) /\ pipe \o more \in Seq(Nat)
  BY <1>2, <1>3, TransitFacts, JoinedLength
<1>5. Transit = <<>> \o got \o (pipe \o more) /\ Transit' = <<>> \o (pipe \o more)
  <2>1. Transit = got \o pipe \o more /\ Transit' = <<>> \o pipe \o more
    BY <1>1, <1>3 DEF Transit
  <2>2. <<>> \o got = got /\ <<>> \o pipe = pipe /\ <<>> \o (pipe \o more) = pipe \o more
    BY <1>2, <1>4, NoneJoined, Zenon
  <2>3. got \o pipe \o more = got \o (pipe \o more)
    BY <1>2, <1>4, Assoc, Zenon
  <2> QED BY <2>1, <2>2, <2>3, Zenon
<1> QED BY <1>1, <1>2, <1>4, <1>5, LoseMaps

(* When the reader closes, what was for it is the part it has not received. *)
LEMMA CloseMaps ==
  ASSUME Inv, CloseIn \/ Reset
  PROVE  BS!Cut
<1>1. /\ Lost' /\ got' = got /\ Pending' = Pending
      /\ UNCHANGED <<written, delivered, broken>>
      /\ pipe' = pipe \/ pipe' = <<>>
  BY WriterFrame, ReaderFrame DEF CloseIn, Reset, Lost, Pending
<1>2. got \in Seq(Nat) /\ pipe \in Seq(Nat) /\ <<>> \in Seq(Nat)
  BY EmptySeq DEF Inv, PipeOK, ReaderOK
<1>3. PICK more : more = IF Lost THEN <<>> ELSE Pending
  OBVIOUS
<1>4. more \in Seq(Nat) /\ pipe \o more \in Seq(Nat) /\ got \o pipe \in Seq(Nat)
  BY <1>2, <1>3, TransitFacts, JoinedLength
<1>5. Transit = got \o pipe \o more /\ Transit = got \o (pipe \o more)
  <2>1. got \o pipe \o more = got \o (pipe \o more)
    BY <1>2, <1>4, Assoc, Zenon
  <2>2. Transit = got \o pipe \o more
    BY <1>3 DEF Transit
  <2> QED BY <2>1, <2>2, Zenon
<1>6. CASE pipe' = pipe
  <2>1. Transit' = got \o pipe
    BY <1>1, <1>4, <1>6, NoneJoined DEF Transit
  <2> QED BY <1>1, <1>4, <1>5, <2>1, CutMaps
<1>7. CASE pipe' = <<>>
  <2>1. Transit' = got
    BY <1>1, <1>2, <1>7, NoneJoined DEF Transit
  <2> QED BY <1>1, <1>2, <1>4, <1>5, <2>1, CutMaps
<1> QED BY <1>1, <1>6, <1>7

(* Streams, buffers and the system's pieces implement the byte stream.     *)
THEOREM StreamsImplementByteStream ==
  Spec => AsByteStream
<1>1. Init => BS!Init
  <2>1. ASSUME Init
        PROVE  BS!Init
    <3>1. Transit = <<>>
      BY <2>1, EmptySeq, NoneJoined DEF Init, Transit, Pending, Lost
    <3> QED BY <2>1, <3>1 DEF Init, BS!Init, Transit, Pending, Lost
  <2> QED BY <2>1
<1>2. Inv /\ [Next]_vars => [BS!Next]_BS!vars
  <2> SUFFICES ASSUME Inv, [Next]_vars
               PROVE  BS!Next \/ UNCHANGED BS!vars
    OBVIOUS
  <2>1. ASSUME NEW n \in 0 .. MaxLen, Write(n)
        PROVE  BS!Next \/ UNCHANGED BS!vars
    BY <2>1, WriteMaps DEF BS!Next
  <2>2. ASSUME \/ Place \/ Bypass \/ Overflow \/ Flushed
               \/ \E c \in {"flush", "close", "SetUnbuffered", "SetBuffered"} : Flush(c)
        PROVE  UNCHANGED BS!vars
    <3>1. Pending' = Pending
      BY <2>2, PendingMoves
    <3>2. UNCHANGED <<written, got, pipe, delivered, reset, ropen, broken>>
      BY <2>2, ReaderFrame DEF Place, Bypass, Overflow, Flushed, Flush
    <3> QED BY <3>1, <3>2, MappedStutter DEF Transit, Lost
  <2>3. ASSUME ClearOutError \/ ClearInError \/ (\E len \in 1 .. MaxLen : Read(len))
               \/ UNCHANGED vars
        PROVE  UNCHANGED BS!vars
    <3>1. /\ UNCHANGED <<written, buf, rest, chunk, got, pipe, delivered>>
          /\ UNCHANGED <<reset, ropen, broken>>
      BY <2>3, WriterFrame, ReaderFrame DEF ClearOutError, ClearInError, Read, vars
    <3> QED BY <3>1, MappedStutter DEF Transit, Lost, Pending
  <2>4. ASSUME Send
        PROVE  UNCHANGED BS!vars
    BY <2>4, SendMaps
  <2>5. ASSUME SendFails \/ ReceiveFails
        PROVE  BS!Next
    BY <2>5, SendFailsMaps, ReceiveFailsMaps DEF BS!Next
  <2>6. ASSUME Receive
        PROVE  BS!Next \/ UNCHANGED BS!vars
    BY <2>6, ReceiveMaps DEF BS!Next
  <2>7. ASSUME CloseIn \/ Reset
        PROVE  BS!Next
    BY <2>7, CloseMaps DEF BS!Next
  <2> QED BY <2>1, <2>2, <2>3, <2>4, <2>5, <2>6, <2>7 DEF Next, Writer, Reader
<1> QED BY <1>1, <1>2, Invariance, PTL DEF Spec, AsByteStream, BS!Spec

-----------------------------------------------------------------------------
(* What the byte stream promises, on the mapped variables *)

StreamTyped ==
  /\ written \in Nat
  /\ Transit \in Seq(Nat)
  /\ delivered \in Seq(Nat)
  /\ {Lost, broken} \subseteq BOOLEAN

(* delivered, then transit: ascending, and nothing that was not written *)
Ascending ==
  /\ \A i, j \in 1 .. Len(delivered) : i < j => delivered[i] < delivered[j]
  /\ \A i, j \in 1 .. Len(Transit) : i < j => Transit[i] < Transit[j]
  /\ \A i \in 1 .. Len(delivered), j \in 1 .. Len(Transit) : delivered[i] < Transit[j]
Written ==
  /\ \A i \in 1 .. Len(delivered) : delivered[i] <= written
  /\ \A i \in 1 .. Len(Transit) : Transit[i] <= written

(* without an error they are all bytes, and up to the last one unless the  *)
(* connection was cut                                                      *)
Complete ==
  ~broken =>
    /\ \A i \in 1 .. Len(delivered) : delivered[i] = i
    /\ \A i \in 1 .. Len(Transit) : Transit[i] = Len(delivered) + i
    /\ ~Lost => Len(delivered) + Len(Transit) = written

StreamInv == StreamTyped /\ Ascending /\ Written /\ Complete

(* what an action of the byte stream does to the mapped variables          *)
LEMMA WriteIs ==
  ASSUME BS!Write
  PROVE  /\ written' \in Nat /\ written' > written
         /\ Transit' = IF Lost THEN Transit ELSE Transit \o BS!Bytes(written, written')
         /\ delivered' = delivered /\ Lost' = Lost /\ broken' = broken
  BY DEF BS!Write, Transit, Lost, Pending

(* the same for what is delivered *)
LEMMA DeliverIs ==
  ASSUME BS!Deliver
  PROVE  \E n \in 1 .. Len(Transit) :
           /\ delivered' = delivered \o SubSeq(Transit, 1, n)
           /\ Transit' = SubSeq(Transit, n + 1, Len(Transit))
           /\ written' = written /\ Lost' = Lost /\ broken' = broken
  BY DEF BS!Deliver, Transit, Lost, Pending

(* the same for the end of the connection *)
LEMMA CutIs ==
  ASSUME BS!Cut
  PROVE  /\ \E n \in 0 .. Len(Transit) : Transit' = SubSeq(Transit, 1, n)
         /\ Lost' = TRUE /\ written' = written /\ delivered' = delivered /\ broken' = broken
  BY DEF BS!Cut, Transit, Lost, Pending

(* the same for what is lost *)
LEMMA LoseIs ==
  ASSUME BS!Lose
  PROVE  /\ \E i, j \in 0 .. Len(Transit) :
              /\ i <= j
              /\ Transit' = SubSeq(Transit, 1, i) \o SubSeq(Transit, j + 1, Len(Transit))
         /\ broken' = TRUE /\ written' = written /\ delivered' = delivered /\ Lost' = Lost
  BY DEF BS!Lose, Transit, Lost, Pending

(* the same for a step that changes nothing *)
LEMMA StutterIs ==
  ASSUME UNCHANGED BS!vars
  PROVE  /\ written' = written /\ Transit' = Transit /\ delivered' = delivered
         /\ Lost' = Lost /\ broken' = broken
  BY DEF BS!vars, Transit, Lost, Pending

(* before the first step *)
LEMMA StartIs ==
  ASSUME BS!Init
  PROVE  written = 0 /\ Transit = <<>> /\ delivered = <<>> /\ Lost = FALSE /\ broken = FALSE
  BY DEF BS!Init, Transit, Lost, Pending

(* where the elements of a concatenation come from *)
LEMMA ConcatFacts ==
  ASSUME NEW s \in Seq(Nat), NEW t \in Seq(Nat)
  PROVE  /\ s \o t \in Seq(Nat)
         /\ Len(s) \in Nat /\ Len(t) \in Nat
         /\ Len(s \o t) = Len(s) + Len(t)
         /\ \A k \in 1 .. Len(s) + Len(t) :
              (s \o t)[k] = IF k <= Len(s) THEN s[k] ELSE t[k - Len(s)]
  OBVIOUS

(* Each element of a concatenation is one of the first part or of the second. *)
LEMMA JoinedFacts ==
  ASSUME NEW s \in Seq(Nat), NEW t \in Seq(Nat)
  PROVE  \A k \in 1 .. Len(s) + Len(t) :
           \/ \E l \in 1 .. Len(s) : l = k /\ (s \o t)[k] = s[l]
           \/ \E l \in 1 .. Len(t) : l + Len(s) = k /\ (s \o t)[k] = t[l]
<1>1. Len(s) \in Nat /\ Len(t) \in Nat
  BY ConcatFacts
<1> TAKE k \in 1 .. Len(s) + Len(t)
<1>2. CASE k <= Len(s)
  BY <1>1, <1>2, ConcatFacts
<1>3. CASE ~(k <= Len(s))
  <2>1. k - Len(s) \in 1 .. Len(t) /\ (k - Len(s)) + Len(s) = k
    BY <1>1, <1>3
  <2>2. (s \o t)[k] = t[k - Len(s)]
    BY <1>1, <1>3, ConcatFacts
  <2> QED BY <2>1, <2>2
<1> QED BY <1>2, <1>3

(* a part of a sequence, by its elements *)
LEMMA PartFacts ==
  ASSUME NEW s \in Seq(Nat), NEW m \in Nat, NEW n \in Nat, m <= n, n <= Len(s)
  PROVE  /\ SubSeq(s, m + 1, n) \in Seq(Nat)
         /\ Len(SubSeq(s, m + 1, n)) = n - m
         /\ \A i \in 1 .. n - m : SubSeq(s, m + 1, n)[i] = s[m + i]
<1>1. \A i \in m + 1 .. n : s[i] \in Nat
  BY LenProperties
<1>2. /\ SubSeq(s, m + 1, n) \in Seq(Nat)
      /\ Len(SubSeq(s, m + 1, n)) = IF m + 1 <= n THEN n - (m + 1) + 1 ELSE 0
      /\ \A i \in 1 .. n - (m + 1) + 1 : SubSeq(s, m + 1, n)[i] = s[(m + 1) + i - 1]
  BY <1>1, m + 1 \in Int, n \in Int, SubSeqProperties
<1> QED BY <1>2

(* the same for a first part *)
LEMMA FirstFacts ==
  ASSUME NEW s \in Seq(Nat), NEW n \in Nat, n <= Len(s)
  PROVE  /\ SubSeq(s, 1, n) \in Seq(Nat)
         /\ Len(SubSeq(s, 1, n)) = n
         /\ \A i \in 1 .. n : SubSeq(s, 1, n)[i] = s[i]
<1>1. /\ SubSeq(s, 0 + 1, n) \in Seq(Nat)
      /\ Len(SubSeq(s, 0 + 1, n)) = n - 0
      /\ \A i \in 1 .. n - 0 : SubSeq(s, 0 + 1, n)[i] = s[0 + i]
  BY 0 \in Nat, 0 <= n, PartFacts
<1>2. 0 + 1 = 1 /\ n - 0 = n /\ \A i \in 1 .. n : 0 + i = i
  OBVIOUS
<1> QED BY <1>1, <1>2

(* The bytes m + 1 .. n are as many, and each is its own number. *)
LEMMA BytesFacts ==
  ASSUME NEW m \in Nat, NEW n \in Nat, m <= n
  PROVE  /\ BS!Bytes(m, n) \in Seq(Nat)
         /\ Len(BS!Bytes(m, n)) = n - m
         /\ \A i \in 1 .. n - m : BS!Bytes(m, n)[i] = m + i
<1>1. n - m \in Nat /\ \A i \in 1 .. n - m : m + i \in Nat
  OBVIOUS
<1> QED BY <1>1 DEF BS!Bytes

(* u is s without its elements i+1 .. j: where its elements come from *)
LeftOf(s, u, i, j) ==
  /\ u \in Seq(Nat)
  /\ Len(u) = i + (Len(s) - j)
  /\ \A k \in 1 .. Len(u) :
       \E l \in 1 .. Len(s) :
         /\ u[k] = s[l]
         /\ k <= i => l = k
         /\ i < k => l = j + (k - i)

(* What is left when a piece is taken out keeps its order. *)
LEMMA LeftFacts ==
  ASSUME NEW s \in Seq(Nat), NEW i \in Nat, NEW j \in Nat, i <= j, j <= Len(s), NEW u,
         u = SubSeq(s, 1, i) \o SubSeq(s, j + 1, Len(s))
  PROVE  LeftOf(s, u, i, j)
<1>1. Len(s) \in Nat
  BY LenProperties
<1>2. PICK a : a = SubSeq(s, 1, i)
  OBVIOUS
<1>3. PICK b : b = SubSeq(s, j + 1, Len(s))
  OBVIOUS
<1>4. a \in Seq(Nat) /\ Len(a) = i /\ \A k \in 1 .. i : a[k] = s[k]
  BY <1>1, <1>2, i <= Len(s), FirstFacts
<1>5. b \in Seq(Nat) /\ Len(b) = Len(s) - j /\ \A k \in 1 .. Len(s) - j : b[k] = s[j + k]
  BY <1>1, <1>3, Len(s) <= Len(s), PartFacts
<1>6. u = a \o b
  BY <1>2, <1>3
<1>7. u \in Seq(Nat) /\ Len(u) = i + (Len(s) - j)
  BY <1>4, <1>5, <1>6, ConcatFacts
<1>8. ASSUME NEW k \in 1 .. Len(u)
      PROVE  \E l \in 1 .. Len(s) :
               /\ u[k] = s[l]
               /\ k <= i => l = k
               /\ i < k => l = j + (k - i)
  <2>1. k \in 1 .. Len(a) + Len(b)
    BY <1>4, <1>5, <1>7
  <2>2. CASE \E l \in 1 .. Len(a) : l = k /\ (a \o b)[k] = a[l]
    <3>1. k \in 1 .. i /\ u[k] = s[k]
      BY <2>2, <1>4, <1>6
    <3>2. k \in 1 .. Len(s) /\ ~(i < k)
      BY <3>1, <1>1
    <3> QED BY <3>1, <3>2, Zenon
  <2>3. CASE \E l \in 1 .. Len(b) : l + Len(a) = k /\ (a \o b)[k] = b[l]
    <3>1. PICK l \in 1 .. Len(s) - j : l + i = k /\ u[k] = s[j + l]
      BY <2>3, <1>4, <1>5, <1>6
    <3>2. l \in Nat /\ 1 <= l /\ l <= Len(s) - j /\ k = l + i
      BY <3>1, <1>1
    <3>3. j + l \in 1 .. Len(s)
      BY <3>2, <1>1
    <3>4. i < k /\ k - i = l
      BY <3>2
    <3> QED BY <3>1, <3>3, <3>4
  <2> QED BY <2>1, <2>2, <2>3, <1>4, <1>5, JoinedFacts
<1> QED BY <1>7, <1>8 DEF LeftOf

(* An index counted from v that stays below w is a number. *)
LEMMA UpTo ==
  ASSUME NEW v \in Nat, NEW w \in Nat, NEW l \in 1 .. w - v
  PROVE  l \in Nat /\ v + l <= w
OBVIOUS

(* Whatever pieces of transit are left in their order, the invariant holds *)
(* for them, with an error or if they are a first part and transit is cut. *)
LEMMA LeftInOrder ==
  ASSUME StreamInv, NEW i \in 0 .. Len(Transit), NEW j \in 0 .. Len(Transit), i <= j,
         Transit' = SubSeq(Transit, 1, i) \o SubSeq(Transit, j + 1, Len(Transit)),
         delivered' = delivered, written' = written, {Lost', broken'} \subseteq BOOLEAN,
         broken' \/ (broken' = broken /\ Lost' /\ j = Len(Transit))
  PROVE  StreamInv'
<1>1. Transit \in Seq(Nat) /\ Len(Transit) \in Nat /\ i \in Nat /\ j \in Nat
  BY LenProperties DEF StreamInv, StreamTyped
<1>2. PICK u : u = SubSeq(Transit, 1, i) \o SubSeq(Transit, j + 1, Len(Transit))
  OBVIOUS
<1>3. j <= Len(Transit)
  BY <1>1
<1>4. LeftOf(Transit, u, i, j)
  BY <1>1, <1>2, <1>3, LeftFacts
<1>41. Transit' = u
  BY <1>2
<1>5. /\ Transit' \in Seq(Nat) /\ Len(Transit') = i + (Len(Transit) - j)
      /\ \A k \in 1 .. Len(Transit') :
           \E l \in 1 .. Len(Transit) :
             /\ Transit'[k] = Transit[l]
             /\ k <= i => l = k
             /\ i < k => l = j + (k - i)
  BY <1>4, <1>41 DEF LeftOf
<1>6. \A k \in 1 .. Len(Transit') : \E l \in 1 .. Len(Transit) : Transit'[k] = Transit[l]
  BY <1>5
<1>8. Len(delivered) \in Nat
  BY LenProperties DEF StreamInv, StreamTyped
<1>9. StreamTyped'
  BY <1>5 DEF StreamInv, StreamTyped
<1>10. Written'
  <2>1. \A k \in 1 .. Len(Transit') : Transit'[k] <= written
    BY <1>6 DEF StreamInv, Written
  <2> QED BY <2>1 DEF StreamInv, Written
<1>11. Ascending'
  <2>1. ASSUME NEW k \in 1 .. Len(Transit'), NEW l \in 1 .. Len(Transit'), k < l
        PROVE  Transit'[k] < Transit'[l]
    <3>1. PICK m \in 1 .. Len(Transit), n \in 1 .. Len(Transit) :
            m < n /\ Transit'[k] = Transit[m] /\ Transit'[l] = Transit[n]
      <4>1. PICK m \in 1 .. Len(Transit) :
              Transit'[k] = Transit[m] /\ (k <= i => m = k) /\ (i < k => m = j + (k - i))
        BY <1>5
      <4>2. PICK n \in 1 .. Len(Transit) :
              Transit'[l] = Transit[n] /\ (l <= i => n = l) /\ (i < l => n = j + (l - i))
        BY <1>5
      <4>3. k \in Nat /\ l \in Nat
        <5>1. Len(Transit') \in Nat
          BY <1>5, LenProperties
        <5> QED BY <5>1
      <4>4. m < n
        BY <4>1, <4>2, <4>3, <1>1, <2>1
      <4> QED BY <4>1, <4>2, <4>4
    <3> QED BY <3>1 DEF StreamInv, Ascending
  <2>2. ASSUME NEW k \in 1 .. Len(delivered), NEW l \in 1 .. Len(Transit')
        PROVE  delivered[k] < Transit'[l]
    BY <1>6 DEF StreamInv, Ascending
  <2> QED BY <2>1, <2>2 DEF StreamInv, Ascending
<1>12. Complete'
  <2> SUFFICES ASSUME ~broken'
               PROVE  /\ \A k \in 1 .. Len(delivered) : delivered[k] = k
                      /\ \A k \in 1 .. Len(Transit') : Transit'[k] = Len(delivered) + k
                      /\ Lost'
    BY DEF Complete
  <2>1. ~broken /\ Lost' /\ j = Len(Transit)
    OBVIOUS
  <2>2. Len(Transit') = i
    BY <2>1, <1>1, <1>5
  <2>3. \A k \in 1 .. Len(Transit') : k \in 1 .. Len(Transit) /\ Transit'[k] = Transit[k]
    BY <2>1, <2>2, <1>1, <1>5
  <2> QED BY <2>1, <2>3 DEF StreamInv, Complete
<1> QED BY <1>9, <1>10, <1>11, <1>12 DEF StreamInv

(* New bytes are greater than all before them. *)
LEMMA StreamWriteInv ==
  ASSUME StreamInv, BS!Write
  PROVE  StreamInv'
<1>1. /\ Transit \in Seq(Nat) /\ Len(Transit) \in Nat
      /\ delivered \in Seq(Nat) /\ Len(delivered) \in Nat
      /\ written \in Nat /\ written' \in Nat /\ written' > written
      /\ \A i \in 1 .. Len(Transit) : Transit[i] \in Nat
      /\ \A i \in 1 .. Len(delivered) : delivered[i] \in Nat
  BY LenProperties, WriteIs DEF StreamInv, StreamTyped
<1>11. Transit \in Seq(Nat)
  BY <1>1
<1>12. /\ Len(Transit) \in Nat /\ Len(delivered) \in Nat
       /\ written \in Nat /\ written' \in Nat /\ written' > written
       /\ \A i \in 1 .. Len(Transit) : Transit[i] \in Nat
       /\ \A i \in 1 .. Len(delivered) : delivered[i] \in Nat
  BY <1>1
<1>2. delivered' = delivered /\ Lost' = Lost /\ broken' = broken
  BY WriteIs
<1>3. CASE Lost
  <2>1. Transit' = Transit
    BY <1>3, WriteIs
  <2> QED BY <1>1, <1>2, <1>3, <2>1 DEF StreamInv, StreamTyped, Ascending, Written, Complete
<1>4. CASE ~Lost
  <2> DEFINE new == BS!Bytes(written, written')
  <2>0. written \in Nat /\ written' \in Nat /\ written <= written'
    BY <1>1
  <2>1. /\ new \in Seq(Nat) /\ Len(new) = written' - written
        /\ \A i \in 1 .. written' - written : new[i] = written + i
    BY <2>0, BytesFacts
  <2>2. Transit' = Transit \o new
    BY <1>4, WriteIs DEF new
  <2> HIDE DEF new
  <2>3. Transit' \in Seq(Nat) /\ Len(Transit') = Len(Transit) + (written' - written)
    BY <1>1, <2>1, <2>2, ConcatFacts
  <2>4. ASSUME NEW k \in 1 .. Len(Transit')
        PROVE  \/ \E l \in 1 .. Len(Transit) : l = k /\ Transit'[k] = Transit[l]
               \/ \E l \in 1 .. written' - written :
                    l + Len(Transit) = k /\ Transit'[k] = written + l
    <3>1. k \in 1 .. Len(Transit) + Len(new)
      BY <2>1, <2>3
    <3>2. \/ \E l \in 1 .. Len(Transit) : l = k /\ (Transit \o new)[k] = Transit[l]
          \/ \E l \in 1 .. Len(new) : l + Len(Transit) = k /\ (Transit \o new)[k] = new[l]
      BY <1>11, <2>1, <3>1, JoinedFacts
    <3> QED BY <3>2, <2>1, <2>2
  <2>5. StreamTyped'
    BY <1>1, <1>2, <2>3 DEF StreamInv, StreamTyped
  <2>30. Len(Transit') = Len(Transit) + (written' - written)
    BY <2>3
  <2>6. Written'
    <3>1. ASSUME NEW i \in 1 .. Len(Transit') PROVE Transit'[i] <= written'
      <4>1. CASE \E l \in 1 .. Len(Transit) : l = i /\ Transit'[i] = Transit[l]
        BY <4>1, <1>12 DEF StreamInv, Written
      <4>2. CASE \E l \in 1 .. written' - written :
                   l + Len(Transit) = i /\ Transit'[i] = written + l
        <5>1. PICK l \in 1 .. written' - written : Transit'[i] = written + l
          BY <4>2
        <5> QED BY <5>1, <2>0, UpTo
      <4> QED BY <4>1, <4>2, <2>4
    <3>2. \A i \in 1 .. Len(delivered) : delivered[i] <= written'
      BY <1>12 DEF StreamInv, Written
    <3> QED BY <1>2, <3>1, <3>2 DEF Written
  <2>7. Ascending'
    <3>1. ASSUME NEW i \in 1 .. Len(Transit'), NEW j \in 1 .. Len(Transit'), i < j
          PROVE  Transit'[i] < Transit'[j]
      <4>1. CASE \E l \in 1 .. Len(Transit) : l = j /\ Transit'[j] = Transit[l]
        <5>1. j \in 1 .. Len(Transit) /\ Transit'[j] = Transit[j]
          BY <4>1
        <5>2. i \in 1 .. Len(Transit) /\ Transit'[i] = Transit[i]
          <6>1. i \in Nat /\ i <= Len(Transit)
            BY <3>1, <5>1, <1>12, <2>30
          <6>2. Len(Transit) \in Nat
            BY <1>12
          <6>3. ASSUME NEW m \in 1 .. written' - written PROVE m + Len(Transit) # i
            BY <6>1, <6>2, <2>0
          <6> QED BY <6>3, <2>4
        <5> QED BY <3>1, <5>1, <5>2 DEF StreamInv, Ascending
      <4>2. CASE \E l \in 1 .. written' - written :
                   l + Len(Transit) = j /\ Transit'[j] = written + l
        <5>1. PICK l \in 1 .. written' - written :
                l + Len(Transit) = j /\ Transit'[j] = written + l
          BY <4>2
        <5>2. CASE \E m \in 1 .. Len(Transit) : m = i /\ Transit'[i] = Transit[m]
          BY <5>1, <5>2, <1>12 DEF StreamInv, Written
        <5>3. CASE \E m \in 1 .. written' - written :
                     m + Len(Transit) = i /\ Transit'[i] = written + m
          BY <3>1, <5>1, <5>3, <1>12
        <5> QED BY <5>2, <5>3, <2>4
      <4> QED BY <4>1, <4>2, <2>4
    <3>2. ASSUME NEW i \in 1 .. Len(delivered), NEW j \in 1 .. Len(Transit')
          PROVE  delivered[i] < Transit'[j]
      <4>1. CASE \E l \in 1 .. Len(Transit) : l = j /\ Transit'[j] = Transit[l]
        BY <4>1 DEF StreamInv, Ascending
      <4>2. CASE \E l \in 1 .. written' - written :
                   l + Len(Transit) = j /\ Transit'[j] = written + l
        BY <4>2, <1>12 DEF StreamInv, Written
      <4> QED BY <4>1, <4>2, <2>4
    <3> QED BY <1>2, <3>1, <3>2 DEF StreamInv, Ascending
  <2>8. Complete'
    <3> SUFFICES ASSUME ~broken'
                 PROVE  /\ \A i \in 1 .. Len(delivered') : delivered'[i] = i
                        /\ \A i \in 1 .. Len(Transit') : Transit'[i] = Len(delivered') + i
                        /\ ~Lost' => Len(delivered') + Len(Transit') = written'
      BY DEF Complete
    <3>1. /\ \A i \in 1 .. Len(delivered) : delivered[i] = i
          /\ \A i \in 1 .. Len(Transit) : Transit[i] = Len(delivered) + i
          /\ Len(delivered) + Len(Transit) = written
      BY <1>2, <1>4 DEF StreamInv, Complete
    <3>2. ASSUME NEW i \in 1 .. Len(Transit') PROVE Transit'[i] = Len(delivered) + i
      <4>1. CASE \E l \in 1 .. Len(Transit) : l = i /\ Transit'[i] = Transit[l]
        BY <4>1, <3>1
      <4>2. CASE \E l \in 1 .. written' - written :
                   l + Len(Transit) = i /\ Transit'[i] = written + l
        <5>1. PICK l \in 1 .. written' - written :
                l + Len(Transit) = i /\ Transit'[i] = written + l
          BY <4>2
        <5>2. Len(Transit) \in Nat /\ Len(delivered) \in Nat /\ l \in Nat
          BY <1>12, <2>0, UpTo
        <5>3. written + l = Len(delivered) + (l + Len(Transit))
          <6>1. written = Len(delivered) + Len(Transit)
            BY <3>1
          <6> QED BY <5>2, <6>1
        <5> QED BY <5>1, <5>3
      <4> QED BY <4>1, <4>2, <2>4
    <3> QED BY <3>1, <3>2, <1>12, <1>2, <2>30
  <2> QED BY <2>5, <2>6, <2>7, <2>8 DEF StreamInv
<1> QED BY <1>3, <1>4

(* What is delivered is the least in transit. *)
LEMMA StreamDeliverInv ==
  ASSUME StreamInv, BS!Deliver
  PROVE  StreamInv'
<1>1. /\ Transit \in Seq(Nat) /\ Len(Transit) \in Nat
      /\ delivered \in Seq(Nat) /\ Len(delivered) \in Nat /\ written \in Nat
      /\ \A i \in 1 .. Len(Transit) : Transit[i] \in Nat
      /\ \A i \in 1 .. Len(delivered) : delivered[i] \in Nat
  BY LenProperties DEF StreamInv, StreamTyped
<1>2. PICK n \in 1 .. Len(Transit) :
        /\ delivered' = delivered \o SubSeq(Transit, 1, n)
        /\ Transit' = SubSeq(Transit, n + 1, Len(Transit))
        /\ written' = written /\ Lost' = Lost /\ broken' = broken
  BY DeliverIs
<1> DEFINE a == SubSeq(Transit, 1, n)
<1>3. a \in Seq(Nat) /\ Len(a) = n /\ \A k \in 1 .. n : a[k] = Transit[k]
  BY <1>1, n \in Nat, FirstFacts
<1>4. /\ Transit' \in Seq(Nat) /\ Len(Transit') = Len(Transit) - n
      /\ \A k \in 1 .. Len(Transit) - n : Transit'[k] = Transit[n + k]
  BY <1>1, <1>2, n \in Nat, PartFacts
<1>5. delivered' = delivered \o a
  BY <1>2
<1> HIDE DEF a
<1>60. delivered \in Seq(Nat) /\ a \in Seq(Nat) /\ Len(a) = n
  BY <1>1, <1>3
<1>6. delivered' \in Seq(Nat) /\ Len(delivered') = Len(delivered) + n
  BY <1>60, <1>5, ConcatFacts
<1>61. Len(delivered') = Len(delivered) + n /\ Len(Transit') = Len(Transit) - n
  BY <1>4, <1>6
<1>62. /\ Len(Transit) \in Nat /\ Len(delivered) \in Nat /\ written \in Nat
       /\ \A i \in 1 .. Len(Transit) : Transit[i] \in Nat
       /\ \A i \in 1 .. Len(delivered) : delivered[i] \in Nat
  BY <1>1
<1>7. ASSUME NEW k \in 1 .. Len(delivered')
      PROVE  \/ \E l \in 1 .. Len(delivered) : l = k /\ delivered'[k] = delivered[l]
             \/ \E l \in 1 .. n : l + Len(delivered) = k /\ delivered'[k] = Transit[l]
  <2>1. k \in 1 .. Len(delivered) + Len(a)
    BY <1>60, <1>61
  <2>2. \/ \E l \in 1 .. Len(delivered) : l = k /\ (delivered \o a)[k] = delivered[l]
        \/ \E l \in 1 .. Len(a) : l + Len(delivered) = k /\ (delivered \o a)[k] = a[l]
    BY <2>1, <1>60, JoinedFacts
  <2> QED BY <2>2, <1>3, <1>5
<1>71. ASSUME NEW k \in 1 .. Len(Transit')
       PROVE  \E l \in 1 .. Len(Transit) : l = n + k /\ l > n /\ Transit'[k] = Transit[l]
  BY <1>1, <1>4
<1>8. StreamTyped'
  BY <1>1, <1>2, <1>4, <1>6 DEF StreamInv, StreamTyped
<1>9. Written'
  <2>1. ASSUME NEW k \in 1 .. Len(delivered') PROVE delivered'[k] <= written
    <3>1. CASE \E l \in 1 .. Len(delivered) : l = k /\ delivered'[k] = delivered[l]
      BY <3>1 DEF StreamInv, Written
    <3>2. CASE \E l \in 1 .. n : l + Len(delivered) = k /\ delivered'[k] = Transit[l]
      BY <3>2, <1>62 DEF StreamInv, Written
    <3> QED BY <3>1, <3>2, <1>7
  <2>2. \A k \in 1 .. Len(Transit') : Transit'[k] <= written
    BY <1>71 DEF StreamInv, Written
  <2> QED BY <1>2, <2>1, <2>2 DEF Written
<1>10. Ascending'
  <2>1. ASSUME NEW k \in 1 .. Len(delivered'), NEW l \in 1 .. Len(delivered'), k < l
        PROVE  delivered'[k] < delivered'[l]
    <3>1. CASE \E m \in 1 .. Len(delivered) : m = l /\ delivered'[l] = delivered[m]
      <4>1. l \in 1 .. Len(delivered) /\ delivered'[l] = delivered[l]
        BY <3>1
      <4>2. k \in 1 .. Len(delivered) /\ delivered'[k] = delivered[k]
        BY <2>1, <4>1, <1>62, <1>61, <1>7
      <4> QED BY <2>1, <4>1, <4>2 DEF StreamInv, Ascending
    <3>2. CASE \E m \in 1 .. n : m + Len(delivered) = l /\ delivered'[l] = Transit[m]
      <4>1. PICK m \in 1 .. n : m + Len(delivered) = l /\ delivered'[l] = Transit[m]
        BY <3>2
      <4>2. m \in 1 .. Len(Transit)
        BY <1>62
      <4>3. CASE \E i \in 1 .. Len(delivered) : i = k /\ delivered'[k] = delivered[i]
        BY <4>1, <4>2, <4>3 DEF StreamInv, Ascending
      <4>4. CASE \E i \in 1 .. n : i + Len(delivered) = k /\ delivered'[k] = Transit[i]
        <5>1. PICK i \in 1 .. n : i + Len(delivered) = k /\ delivered'[k] = Transit[i]
          BY <4>4
        <5>2. i \in 1 .. Len(Transit) /\ i < m
          BY <2>1, <4>1, <5>1, <1>62
        <5> QED BY <4>1, <4>2, <5>1, <5>2 DEF StreamInv, Ascending
      <4> QED BY <4>3, <4>4, <1>7
    <3> QED BY <3>1, <3>2, <1>7
  <2>2. ASSUME NEW k \in 1 .. Len(Transit'), NEW l \in 1 .. Len(Transit'), k < l
        PROVE  Transit'[k] < Transit'[l]
    BY <2>2, <1>62, <1>71 DEF StreamInv, Ascending
  <2>3. ASSUME NEW k \in 1 .. Len(delivered'), NEW l \in 1 .. Len(Transit')
        PROVE  delivered'[k] < Transit'[l]
    <3>1. PICK m \in 1 .. Len(Transit) : m > n /\ Transit'[l] = Transit[m]
      BY <1>71
    <3>2. CASE \E i \in 1 .. Len(delivered) : i = k /\ delivered'[k] = delivered[i]
      BY <3>1, <3>2 DEF StreamInv, Ascending
    <3>3. CASE \E i \in 1 .. n : i + Len(delivered) = k /\ delivered'[k] = Transit[i]
      <4>1. PICK i \in 1 .. Len(Transit) : i <= n /\ delivered'[k] = Transit[i]
        BY <3>3, <1>62
      <4>2. i < m
        BY <3>1, <4>1, <1>62
      <4> QED BY <3>1, <4>1, <4>2 DEF StreamInv, Ascending
    <3> QED BY <3>2, <3>3, <1>7
  <2> QED BY <2>1, <2>2, <2>3 DEF Ascending
<1>11. Complete'
  <2> SUFFICES ASSUME ~broken'
               PROVE  /\ \A k \in 1 .. Len(delivered') : delivered'[k] = k
                      /\ \A k \in 1 .. Len(Transit') : Transit'[k] = Len(delivered') + k
                      /\ ~Lost' => Len(delivered') + Len(Transit') = written'
    BY DEF Complete
  <2>1. /\ \A k \in 1 .. Len(delivered) : delivered[k] = k
        /\ \A k \in 1 .. Len(Transit) : Transit[k] = Len(delivered) + k
        /\ ~Lost => Len(delivered) + Len(Transit) = written
    BY <1>2 DEF StreamInv, Complete
  <2>2. \A k \in 1 .. Len(delivered') : delivered'[k] = k
    BY <2>1, <1>62, <1>7
  <2>3. ASSUME NEW k \in 1 .. Len(Transit') PROVE Transit'[k] = Len(delivered') + k
    <3>1. PICK l \in 1 .. Len(Transit) : l = n + k /\ Transit'[k] = Transit[l]
      BY <1>71
    <3>2. k \in Nat
      BY <1>62, <1>61
    <3> QED BY <3>1, <3>2, <2>1, <1>62, <1>61
  <2>4. ~Lost' => Len(delivered') + Len(Transit') = written'
    <3>1. Lost' = Lost /\ written' = written
      BY <1>2
    <3>2. Len(Transit) \in Nat /\ Len(delivered) \in Nat /\ written \in Nat
      BY <1>62
    <3> QED BY <2>1, <3>1, <3>2, <1>61
  <2> QED BY <2>2, <2>3, <2>4
<1> QED BY <1>8, <1>9, <1>10, <1>11 DEF StreamInv

(* Before the first write nothing is in transit and nothing delivered. *)
LEMMA StreamInitInv == BS!Init => StreamInv
<1> SUFFICES ASSUME BS!Init PROVE StreamInv
  OBVIOUS
<1>1. /\ written = 0 /\ Transit \in Seq(Nat) /\ Len(Transit) = 0
      /\ delivered \in Seq(Nat) /\ Len(delivered) = 0 /\ Lost = FALSE /\ broken = FALSE
  BY EmptySeq, StartIs
<1>2. StreamTyped
  BY <1>1 DEF StreamTyped
<1> QED BY <1>1, <1>2 DEF StreamInv, Ascending, Written, Complete

(* Write, deliver, lose and cut keep the order of what is left. *)
LEMMA StreamStepInv == StreamInv /\ [BS!Next]_BS!vars => StreamInv'
<1> SUFFICES ASSUME StreamInv, [BS!Next]_BS!vars PROVE StreamInv'
  OBVIOUS
<1>1. Transit \in Seq(Nat) /\ Len(Transit) \in Nat
  BY LenProperties DEF StreamInv, StreamTyped
<1>2. CASE BS!Cut
  <2>1. PICK n \in 0 .. Len(Transit) : Transit' = SubSeq(Transit, 1, n)
    BY <1>2, CutIs
  <2>2. SubSeq(Transit, 1, n) \in Seq(Nat)
    BY <1>1, n \in Nat, FirstFacts
  <2>3. SubSeq(Transit, Len(Transit) + 1, Len(Transit)) = <<>>
    BY <1>1, Len(Transit) + 1 \in Int, SubSeqEmpty
  <2>4. Transit' = SubSeq(Transit, 1, n) \o SubSeq(Transit, Len(Transit) + 1, Len(Transit))
    BY <2>1, <2>2, <2>3, ConcatEmptySeq
  <2>5. /\ delivered' = delivered /\ written' = written /\ Lost' = TRUE /\ broken' = broken
        /\ {Lost', broken'} \subseteq BOOLEAN
    BY <1>2, CutIs DEF StreamInv, StreamTyped
  <2>6. Len(Transit) \in 0 .. Len(Transit) /\ n <= Len(Transit)
    BY <1>1
  <2> QED BY <2>4, <2>5, <2>6, LeftInOrder
<1>3. CASE BS!Lose
  <2>1. PICK i \in 0 .. Len(Transit), j \in 0 .. Len(Transit) :
          /\ i <= j
          /\ Transit' = SubSeq(Transit, 1, i) \o SubSeq(Transit, j + 1, Len(Transit))
    BY <1>3, LoseIs
  <2>2. /\ delivered' = delivered /\ written' = written /\ Lost' = Lost /\ broken' = TRUE
        /\ {Lost', broken'} \subseteq BOOLEAN
    BY <1>3, LoseIs DEF StreamInv, StreamTyped
  <2> QED BY <2>1, <2>2, LeftInOrder
<1>4. CASE UNCHANGED BS!vars
  BY <1>4, StutterIs DEF StreamInv, StreamTyped, Ascending, Written, Complete
<1>5. BS!Write \/ BS!Deliver \/ BS!Cut \/ BS!Lose \/ UNCHANGED BS!vars
  BY DEF BS!Next
<1> QED BY <1>2, <1>3, <1>4, <1>5, StreamWriteInv, StreamDeliverInv

(* Bytes are delivered in the order in which they were written and none    *)
(* twice; and as long as neither end has had an error, none is left out.   *)
THEOREM ByteStreamDelivery == BS!Spec => [](BS!InOrder /\ BS!NoGap)
<1>1. StreamInv => BS!InOrder
  <2> SUFFICES ASSUME StreamInv PROVE BS!InOrder
    OBVIOUS
  <2>1. DOMAIN delivered = 1 .. Len(delivered)
    BY LenProperties DEF StreamInv, StreamTyped
  <2> QED BY <2>1 DEF StreamInv, Ascending, BS!InOrder
<1>2. StreamInv => BS!NoGap
  <2> SUFFICES ASSUME StreamInv, ~broken PROVE delivered = BS!Bytes(0, Len(delivered))
    BY DEF BS!NoGap
  <2>1. delivered \in Seq(Nat) /\ Len(delivered) \in Nat
    BY LenProperties DEF StreamInv, StreamTyped
  <2>2. /\ BS!Bytes(0, Len(delivered)) \in Seq(Nat)
        /\ Len(BS!Bytes(0, Len(delivered))) = Len(delivered)
        /\ \A i \in 1 .. Len(delivered) : BS!Bytes(0, Len(delivered))[i] = 0 + i
    <3>1. 0 <= Len(delivered) /\ Len(delivered) - 0 = Len(delivered)
      BY <2>1
    <3> QED BY <2>1, <3>1, 0 \in Nat, BytesFacts
  <2>3. \A i \in 1 .. Len(delivered) : delivered[i] = BS!Bytes(0, Len(delivered))[i]
    BY <2>1, <2>2 DEF StreamInv, Complete
  <2> QED BY <2>1, <2>2, <2>3, SeqEqual
<1>3. BS!Spec => []StreamInv
  BY StreamInitInv, StreamStepInv, PTL DEF BS!Spec
<1> QED BY <1>1, <1>2, <1>3, PTL

(* Through the mapping the streams inherit what is proved of the byte      *)
(* stream: what read returns is in the order of the writes, each byte at   *)
(* most once, and without a gap as long as no stream has had an error.     *)
THEOREM StreamDelivery ==
  Spec => [](BS!InOrder /\ BS!NoGap)
  BY StreamsImplementByteStream, ByteStreamDelivery, PTL DEF AsByteStream
=============================================================================
