----------------------------- MODULE Multipart -----------------------------
(***************************************************************************)
(* FindMultipartBoundary (support/HttpUtil.cpp): the search for "--" and a *)
(* boundary in a stream, through a buffer that is as long as what is       *)
(* looked for.  A character is "-", "b" (the boundary is "b"), "x" (any    *)
(* other one) or "n" (CR or LF).                                           *)
(***************************************************************************)
EXTENDS StringRef, SequencesExt

CONSTANTS MaxText  \* bound: the length of what is in the stream

VARIABLES
  stream,     \* what has not been read
  save,       \* saveBuf is not null
  searchBuf,
  searchPos,
  saved,      \* *saveBuf
  ret,        \* "true" or "false", and "searching" before that
  text        \* history: all that was in the stream

partVars == <<stream, save, searchBuf, searchPos, saved, ret, text>>

Marker == <<"-", "-", "b">>
Size == Len(Marker)

PartInit ==
  /\ text \in SeqOf({"-", "b", "x", "n"}, MaxText)
  /\ stream = text
  /\ save \in BOOLEAN
  /\ searchBuf = <<>>
  /\ searchPos = 0
  /\ saved = <<>>
  /\ ret = "searching"

(* no search goes on *)
PartIdle ==
  /\ text = <<>> /\ stream = <<>> /\ save = FALSE
  /\ searchBuf = <<>> /\ searchPos = 0 /\ saved = <<>> /\ ret = "searching"

(* is.read(searchBuf.data() + searchPos, n) *)
ReadTo(n) ==
  IF Len(stream) < n
  THEN ret' = "false" /\ UNCHANGED <<stream, searchBuf>>
  ELSE /\ searchBuf' = SubSeq(searchBuf, 1, searchPos) \o SubSeq(stream, 1, n)
       /\ stream' = drop_front(stream, n)
       /\ ret' = "searching"

(* when nothing is saved, leading newlines are thrown away *)
SkipNewline ==
  /\ ret = "searching" /\ ~save /\ searchPos = 0
  /\ ReadTo(1)
  /\ searchPos' = IF ret' = "searching" /\ searchBuf'[1] # "n" THEN 1 ELSE 0
  /\ UNCHANGED <<save, saved, text>>

(* bug: the first place is never looked at, nor is the last *)
DashesWithin(buf) == {i \in 2 .. Size - 1 : buf[i] = "-"}

(* searchBuf.find('-'), behind a dash at the front *)
Dashes(buf) == {i \in 1 .. Size : buf[i] = "-" /\ (i = 1 => buf[1] # "-")}
Dash(buf) == Min(Dashes(buf))

(* The search: the buffer is filled; what goes before the next dash is     *)
(* saved, and the dash with what follows moved to the front.  Without a    *)
(* dash all of the buffer is saved, and searchPos stays what it was.       *)
Search ==
  /\ ret = "searching" /\ (save \/ searchPos > 0)
  /\ IF Len(stream) < Size - searchPos
     THEN ret' = "false" /\ UNCHANGED <<stream, searchBuf, searchPos, saved>>
     ELSE LET buf == take_front(searchBuf, searchPos)
                     \o take_front(stream, Size - searchPos)
              found == buf = Marker
              moves == ~found /\ Dashes(buf) # {}
          IN  /\ stream' = drop_front(stream, Size - searchPos)
              /\ ret' = IF found THEN "true" ELSE "searching"
              /\ searchPos' = IF moves THEN Size - Dash(buf) + 1 ELSE searchPos
              /\ searchBuf' = IF moves THEN drop_front(buf, Dash(buf) - 1) ELSE buf
              /\ saved' = IF ~save \/ found THEN saved
                          ELSE IF moves THEN saved \o SubSeq(buf, 1, Dash(buf) - 1)
                          ELSE saved \o buf
  /\ UNCHANGED <<save, text>>

PartNext == SkipNewline \/ Search

PartSpec == PartInit /\ [][PartNext]_partVars

-----------------------------------------------------------------------------
Read == SubSeq(text, 1, Len(text) - Len(stream))

(* where the boundary is in the text *)
Places == {i \in 1 .. Len(text) - Size + 1 : SubSeq(text, i, i + Size - 1) = Marker}
First == Min(Places)
DashBefore(i) == \E j \in 1 .. i - 1 : text[j] = "-"

(* A boundary that is there is not passed over: the search fails only when *)
(* there is none.  When no dash precedes the first one the search stops    *)
(* right behind it and has saved what precedes it.                         *)
BoundaryFound ==
  /\ ret = "false" => Places = {}
  /\ ret = "true" /\ Places # {} /\ ~DashBefore(First) =>
       /\ Len(Read) = First + Size - 1
       /\ save => saved = SubSeq(text, 1, First - 1)
=============================================================================
