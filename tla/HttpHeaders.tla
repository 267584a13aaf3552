----------------------------- MODULE HttpHeaders -----------------------------
(***************************************************************************)
(* The client's side of HTTP (support/HttpUtil.cpp): ParseHttpHeaders and  *)
(* HttpConnection::Handshake, on what the server has sent before it closed *)
(* the connection.  A word is a character: "T" and "L" are Content-Type    *)
(* and Content-Length in any case, "H" begins with HTTP, "2" is 200, "v"   *)
(* is any other one; "n" and "r" are LF and CR.                            *)
(***************************************************************************)
EXTENDS StringRef, SequencesExt

CONSTANT MaxLine  \* what getline is asked for at most, 1024 in the code

Spaces == {" ", "n", "r"}
NotSpace(s) == {i \in DOMAIN s : s[i] \notin Spaces}
ltrim(s) == drop_front(s, Min(NotSpace(s) \cup {Len(s) + 1}) - 1)
rtrim(s) == take_front(s, Max(NotSpace(s) \cup {0}))

(* raw_istream::getline(lineBuf, 1024).rtrim(): a longer line is cut, CRs  *)
(* count although they are left out, and an error goes before a line       *)
Getline(s) ==
  LET ends == Occurrences(s, "n") \cup {MaxLine}
      n == Min(ends)
  IN  IF n > Len(s) THEN [error |-> TRUE]
      ELSE [error |-> FALSE, rest |-> drop_front(s, n),
            line |-> rtrim(SelectSeq(take_front(s, n), LAMBDA c : c # "r"))]

(* ParseHttpHeaders: in is the field whose lines are saved, "" for others  *)
RECURSIVE Headers(_, _, _, _)
Headers(s, in, contentType, contentLength) ==
  LET got == Getline(s)
      line == got.line
      parts == split(line, ":")
      begins == line[1] \notin Spaces
      name == rtrim(parts[1])
      field == IF ~begins THEN in
               ELSE IF name \in {<<"T">>, <<"L">>} THEN name[1] ELSE ""
      data == ltrim(IF begins THEN parts[2] ELSE line)
  IN  IF got.error THEN [ok |-> FALSE]
      ELSE IF line = <<>> THEN [ok |-> TRUE, contentType |-> contentType,
                                contentLength |-> contentLength, rest |-> got.rest]
      ELSE Headers(got.rest, field,
                   IF field = "T" THEN contentType \o data ELSE contentType,
                   IF field = "L" THEN contentLength \o data ELSE contentLength)

ParseHttpHeaders(s) == Headers(s, "", <<>>, <<>>)

(* Handshake, what follows the request: it returns "true", or the warning  *)
Handshake(s) ==
  LET status == Getline(s)
      httpver == split(status.line, " ")
      code == split(httpver[2], " ")[1]
  IN  IF status.error THEN "disconnected before response"
      ELSE IF httpver[1] = <<>> \/ httpver[1][1] # "H" THEN "did not receive HTTP response"
      ELSE IF code # <<"2">> THEN "received another response"
      ELSE IF ~ParseHttpHeaders(status.rest).ok THEN "disconnected during headers"
      ELSE "true"

-----------------------------------------------------------------------------
(* RFC 7230, section 3.2: a field is a line that begins with its name and  *)
(* those after it that begin with a space; its value is in all of them.    *)
Folds(line) == line[1] \in Spaces
ValueIn(lines, i) ==
  rtrim(ltrim(IF Folds(lines[i]) THEN lines[i] ELSE split(lines[i], ":")[2]))
FieldOf(lines, i) ==
  LET heads == {k \in 1 .. i : ~Folds(lines[k])} IN
  IF heads = {} THEN <<>> ELSE rtrim(split(lines[Max(heads)], ":")[1])
FieldValues(lines, name) ==
  FlattenSeq([i \in DOMAIN lines |->
                IF FieldOf(lines, i) = name THEN ValueIn(lines, i) ELSE <<>>])

(* What the server sends as lines, with the end of line of its own, comes  *)
(* back as the values of its fields, and what follows the empty line is    *)
(* left in the stream; while it is incomplete nothing is accepted.  Lines  *)
(* that getline cuts are excepted, and those of spaces alone.              *)
HeadersRead(lines, eol) ==
  LET sent == FlattenSeq([i \in DOMAIN lines |-> lines[i] \o eol]) \o eol
      body == <<"T", ":", "v", "n">>
      response == <<"H", " ", "2", " ", "v">> \o eol \o sent
  IN  (\A i \in DOMAIN lines : NotSpace(lines[i]) # {} /\ Len(lines[i] \o eol) <= MaxLine) =>
        /\ ParseHttpHeaders(sent \o body) =
             [ok |-> TRUE, contentType |-> FieldValues(lines, <<"T">>),
              contentLength |-> FieldValues(lines, <<"L">>), rest |-> body]
        /\ Handshake(response) = "true"
        /\ \A n \in 0 .. Len(response) - 1 :
             Handshake(take_front(response, n)) \in
               {"disconnected before response", "disconnected during headers"}
=============================================================================
