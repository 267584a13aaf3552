---------------------------- MODULE SocketStreams ----------------------------
(***************************************************************************)
(* One direction of a connection, as HttpConnection uses it: a program     *)
(* writes into a raw_socket_ostream (the buffer of llvm::raw_ostream, and  *)
(* write_impl over TCPStream::send), the system carries the bytes, and the *)
(* other end reads them with a raw_socket_istream (read_impl over          *)
(* TCPStream::receive).  Each send and receive is a step of its own.  The  *)
(* n-th byte that is written is n.                                         *)
(***************************************************************************)
EXTENDS Integers, Sequences

CONSTANTS
  BufSize,   \* preferred_buffer_size()
  PipeSize,  \* bound: the bytes the system holds
  MaxBytes,  \* bound: the bytes that are written
  MaxLen     \* bound: the length of a single write or read

ASSUME StreamsAssumption == {BufSize, PipeSize, MaxBytes, MaxLen} \subseteq Nat \ {0}

VARIABLES
  mode,      \* "fresh": to be buffered, no buffer yet; "buffered" or "unbuffered"
  buf,       \* OutBufStart .. OutBufCur
  calling,   \* the call of the writer: "none", "write", "flush", "close", ...
  rest,      \* what write has still to place
  chunk,     \* what write_impl has still to send
  oerror,    \* m_error of the ostream
  wopen,     \* the writer's TCPStream has a descriptor
  written,   \* how many bytes the writer has given to write
  pipe,      \* sent and not received
  reset,     \* the connection was reset: what was in the pipe is gone
  ropen,     \* the reader's TCPStream has a descriptor
  want,      \* the len of the read in progress, 0 outside
  got,       \* data[0 .. pos) of the read in progress
  ierror,    \* m_error of the istream
  delivered, \* history: what the calls of read that succeeded returned
  broken     \* history: one of the m_error has been set

outVars == <<mode, buf, calling, rest, chunk, oerror, wopen, written>>
inVars == <<ropen, want, got, ierror, delivered>>
vars == <<outVars, inVars, pipe, reset, broken>>

BS == INSTANCE ByteStream WITH
        transit <- got \o pipe \o (IF reset \/ ~ropen THEN <<>> ELSE chunk \o buf \o rest),
        cut <- reset \/ ~ropen

Init ==
  /\ mode \in {"fresh", "unbuffered"}
  /\ buf = <<>>
  /\ calling = "none"
  /\ rest = <<>>
  /\ chunk = <<>>
  /\ oerror = FALSE
  /\ wopen = TRUE
  /\ written = 0
  /\ pipe = <<>>
  /\ reset = FALSE
  /\ ropen = TRUE
  /\ want = 0
  /\ got = <<>>
  /\ ierror = FALSE
  /\ delivered = <<>>
  /\ broken = FALSE

First(s, n) == SubSeq(s, 1, n)
After(s, n) == SubSeq(s, n + 1, Len(s))

-----------------------------------------------------------------------------
(* raw_ostream *)

(* write and the operators <<; the first one makes the buffer *)
Write(n) ==
  /\ calling = "none"
  /\ calling' = "write"
  /\ rest' = BS!Bytes(written, written + n)
  /\ written' = written + n
  /\ mode' = IF mode = "fresh" /\ n > 0 THEN "buffered" ELSE mode
  /\ UNCHANGED <<buf, chunk, oerror, wopen, inVars, pipe, reset, broken>>

Room == IF mode = "buffered" THEN BufSize - Len(buf) ELSE 0

(* bug: one byte too many is taken to fit *)
PlaceOverrun ==
  /\ calling = "write" /\ chunk = <<>>
  /\ Len(rest) <= Room + 1
  /\ buf' = buf \o rest
  /\ rest' = <<>>
  /\ calling' = "none"
  /\ UNCHANGED <<mode, chunk, oerror, wopen, written, inVars, pipe, reset, broken>>

(* the rest goes into the buffer *)
Place ==
  /\ calling = "write" /\ chunk = <<>>
  /\ Len(rest) <= Room
  /\ buf' = buf \o rest
  /\ rest' = <<>>
  /\ calling' = "none"
  /\ UNCHANGED <<mode, chunk, oerror, wopen, written, inVars, pipe, reset, broken>>

(* bug: whole buffers are written at once beside what is in the buffer *)
BypassAlways ==
  /\ calling = "write" /\ chunk = <<>>
  /\ Len(rest) > Room
  /\ LET n == IF mode = "unbuffered" THEN Len(rest) ELSE Len(rest) - (Len(rest) % BufSize)
     IN  chunk' = First(rest, n) /\ rest' = After(rest, n)
  /\ UNCHANGED <<mode, buf, calling, oerror, wopen, written, inVars, pipe, reset, broken>>

(* With nothing in the buffer, whole buffers are written directly; without *)
(* a buffer, everything is.                                                *)
Bypass ==
  /\ calling = "write" /\ chunk = <<>>
  /\ Len(rest) > Room /\ buf = <<>>
  /\ LET n == IF mode = "unbuffered" THEN Len(rest) ELSE Len(rest) - (Len(rest) % BufSize)
     IN  chunk' = First(rest, n) /\ rest' = After(rest, n)
  /\ UNCHANGED <<mode, buf, calling, oerror, wopen, written, inVars, pipe, reset, broken>>

(* the buffer is filled up and flushed *)
Overflow ==
  /\ calling = "write" /\ chunk = <<>>
  /\ Len(rest) > Room /\ buf # <<>>
  /\ chunk' = buf \o First(rest, Room)
  /\ rest' = After(rest, Room)
  /\ buf' = <<>>
  /\ UNCHANGED <<mode, calling, oerror, wopen, written, inVars, pipe, reset, broken>>

(* flush, and the calls that begin with it *)
Flush(call) ==
  /\ calling = "none"
  /\ calling' = call
  /\ chunk' = buf
  /\ buf' = <<>>
  /\ UNCHANGED <<mode, rest, oerror, wopen, written, inVars, pipe, reset, broken>>

(* close (as the destructor when m_shouldClose), SetUnbuffered, SetBuffered *)
Flushed ==
  /\ calling \in {"flush", "close", "SetUnbuffered", "SetBuffered"} /\ chunk = <<>>
  /\ wopen' = (wopen /\ calling # "close")
  /\ mode' = CASE calling = "SetUnbuffered" -> "unbuffered"
               [] calling = "SetBuffered"   -> "buffered"
               [] OTHER                     -> mode
  /\ calling' = "none"
  /\ UNCHANGED <<buf, rest, chunk, oerror, written, inVars, pipe, reset, broken>>

-----------------------------------------------------------------------------
(* raw_socket_ostream::write_impl and TCPStream::send *)

Carried == wopen /\ ropen /\ ~reset

Send ==
  /\ chunk # <<>> /\ Carried
  /\ \E n \in 1 .. Len(chunk) :
       /\ Len(pipe) + n <= PipeSize
       /\ pipe' = pipe \o First(chunk, n)
       /\ chunk' = After(chunk, n)
  /\ UNCHANGED <<mode, buf, calling, rest, oerror, wopen, written, inVars, reset, broken>>

(* send returns 0: no descriptor, the connection gone, the system's own    *)
(* troubles, or a socket that does not block and is full.  The rest of the *)
(* chunk is dropped; the next write_impl tries again.                      *)
SendFails ==
  /\ chunk # <<>>
  /\ chunk' = <<>>
  /\ oerror' = TRUE
  /\ broken' = TRUE
  /\ UNCHANGED <<mode, buf, calling, rest, wopen, written, inVars, pipe, reset>>

ClearOutError ==
  /\ oerror /\ calling = "none"
  /\ oerror' = FALSE
  /\ UNCHANGED <<mode, buf, calling, rest, chunk, wopen, written, inVars, pipe, reset,
                 broken>>

-----------------------------------------------------------------------------
(* raw_socket_istream::read_impl and TCPStream::receive *)

Read(len) ==
  /\ want = 0
  /\ want' = len
  /\ UNCHANGED <<outVars, ropen, got, ierror, delivered, pipe, reset, broken>>

Receive ==
  /\ want > 0 /\ ropen /\ pipe # <<>>
  /\ \E n \in 1 .. want - Len(got) :
       /\ n <= Len(pipe)
       /\ pipe' = After(pipe, n)
       /\ LET data == got \o First(pipe, n) IN
          IF Len(data) = want
          THEN delivered' = delivered \o data /\ want' = 0 /\ got' = <<>>
          ELSE got' = data /\ UNCHANGED <<want, delivered>>
  /\ UNCHANGED <<outVars, ropen, ierror, reset, broken>>

(* receive returns 0: no descriptor, the end of the stream, nothing in     *)
(* time, nothing in a socket that does not block, or a reset.  The caller  *)
(* is not told how much of its data was read.                              *)
ReceiveFails ==
  /\ want > 0
  /\ ierror' = TRUE
  /\ broken' = TRUE
  /\ want' = 0
  /\ got' = <<>>
  /\ UNCHANGED <<outVars, ropen, delivered, pipe, reset>>

ClearInError ==
  /\ ierror /\ want = 0
  /\ ierror' = FALSE
  /\ UNCHANGED <<outVars, ropen, want, got, delivered, pipe, reset, broken>>

CloseIn ==
  /\ ropen /\ want = 0
  /\ ropen' = FALSE
  /\ UNCHANGED <<outVars, want, got, ierror, delivered, pipe, reset, broken>>

(* the system gives up the connection, with what it holds *)
Reset ==
  /\ ~reset
  /\ reset' = TRUE
  /\ pipe' = <<>>
  /\ UNCHANGED <<outVars, inVars, broken>>

-----------------------------------------------------------------------------
Writer ==
  \/ \E n \in 0 .. MaxLen : written + n <= MaxBytes /\ Write(n)
  \/ Place \/ Bypass \/ Overflow
  \/ \E call \in {"flush", "close", "SetUnbuffered", "SetBuffered"} : Flush(call)
  \/ Flushed \/ Send \/ SendFails \/ ClearOutError

Reader ==
  \/ \E len \in 1 .. MaxLen : Read(len)
  \/ Receive \/ ReceiveFails \/ ClearInError \/ CloseIn

Next == Writer \/ Reader \/ Reset

Spec == Init /\ [][Next]_vars

-----------------------------------------------------------------------------
(* The types; the buffer is never overrun (the assertion of copy_to_buffer) *)
(* and empty when its mode changes (the one of SetBufferAndMode).          *)
TypeOK ==
  /\ mode \in {"fresh", "buffered", "unbuffered"}
  /\ Len(buf) <= BufSize /\ (mode # "buffered" => buf = <<>>)
  /\ calling \in {"none", "write", "flush", "close", "SetUnbuffered", "SetBuffered"}
  /\ calling # "write" => rest = <<>>
  /\ calling = "none" => chunk = <<>>
  /\ Len(pipe) <= PipeSize
  /\ want \in 0 .. MaxLen /\ Len(got) <= want
  /\ written \in 0 .. MaxBytes
  /\ {oerror, ierror, wopen, ropen, reset, broken} \subseteq BOOLEAN

(* Whatever pieces send and receive take and however write cuts its data   *)
(* between buffer and socket, what is read is what was written, in order;  *)
(* a piece in between is missing only if a stream has had an error.        *)
AsByteStream == BS!Spec
=============================================================================
