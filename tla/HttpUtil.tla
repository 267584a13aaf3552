------------------------------ MODULE HttpUtil ------------------------------
(***************************************************************************)
(* URIs in support/HttpUtil.cpp and HttpUtil.inl: escaping, the parts of a *)
(* URL (HttpLocation) and the path of a request (HttpRequest::SetPath).    *)
(* Characters are their ASCII codes.                                       *)
(***************************************************************************)
EXTENDS StringRefAlgorithms

SPACE == 32
HASH == 35
PERCENT == 37
AMP == 38
PLUS == 43
SLASH == 47
COLON == 58
EQUALS == 61
QUESTION == 63
AT == 64

IsAlnum(c) == ascii_isdigit(c) \/ c \in 65 .. 90 \/ c \in 97 .. 122
Unreserved(c) == IsAlnum(c) \/ c \in {45, 95, 46, 126}

hexLut(v) == IF v < 10 THEN 48 + v ELSE 55 + v
hexDigitValue(c) ==
  IF ascii_isdigit(c) THEN c - 48
  ELSE IF c \in 65 .. 70 THEN c - 55
  ELSE IF c \in 97 .. 102 THEN c - 87
  ELSE -1

(* bug: a plus passes, which UnescapeURI takes for a space *)
EscapedButPlus(c, spacePlus) ==
  IF Unreserved(c) \/ c = PLUS THEN <<c>>
  ELSE IF spacePlus /\ c = SPACE THEN <<PLUS>>
  ELSE <<PERCENT, hexLut(c \div 16), hexLut(c % 16)>>

Escaped(c, spacePlus) ==
  IF Unreserved(c) THEN <<c>>
  ELSE IF spacePlus /\ c = SPACE THEN <<PLUS>>
  ELSE <<PERCENT, hexLut(c \div 16), hexLut(c % 16)>>

EscapeURI(str, spacePlus) ==
  FlattenSeq([i \in DOMAIN str |-> Escaped(str[i], spacePlus)])

Error == [error |-> TRUE]

(* UnescapeURI: from behind to the front, as the loop would if it began    *)
(* there: %xx takes three characters                                       *)
UnescapeURI(str) ==
  LET n == Len(str)
      Hex(i) == IF i > n THEN -1 ELSE hexDigitValue(str[i])
      Put(c, rest) == IF rest = Error THEN Error ELSE [error |-> FALSE, str |-> <<c>> \o rest.str]
      from[k \in 0 .. n] ==  \* the last k characters
        LET i == n - k + 1 IN
        IF k = 0 THEN [error |-> FALSE, str |-> <<>>]
        ELSE IF str[i] = PLUS THEN Put(SPACE, from[k - 1])
        ELSE IF str[i] # PERCENT THEN Put(str[i], from[k - 1])
        ELSE IF Hex(i + 1) = -1 \/ Hex(i + 2) = -1 THEN Error
        ELSE Put(Hex(i + 1) * 16 + Hex(i + 2), from[k - 3])
  IN  from[n]

-----------------------------------------------------------------------------
(* HttpRequest::SetPath: params is a sequence of pairs *)
SetPath(path, params) ==
  path \o FlattenSeq([i \in DOMAIN params |->
    <<IF i = 1 THEN QUESTION ELSE AMP>> \o EscapeURI(params[i][1], TRUE)
      \o (IF params[i][2] = <<>> THEN <<>> ELSE <<EQUALS>> \o EscapeURI(params[i][2], TRUE))])

(* the loop over the query: && is ignored *)
RECURSIVE Params(_)
Params(query) ==
  IF query = <<>> THEN [error |-> FALSE, params |-> <<>>]
  ELSE LET raw == split(query, AMP)[1]
           rest == split(query, AMP)[2]
           param == UnescapeURI(split(raw, EQUALS)[1])
           value == UnescapeURI(split(raw, EQUALS)[2])
           others == Params(rest)
       IN  IF raw = <<>> THEN others
           ELSE IF param.error \/ value.error \/ others.error THEN Error
           ELSE [error |-> FALSE, params |-> <<<<param.str, value.str>>>> \o others.params]

IntBits == IntegerBits - 1  \* bound: the width of the port, an int; 32 in the code

(* HttpLocation behind "http://": user:password@host:port/path?query#fragment *)
HttpLocation(rest) ==
  LET authority == split(rest, SLASH)[1]
      atSign == split(authority, AT)
      userpass == IF atSign[2] = <<>> THEN <<>> ELSE atSign[1]
      user == UnescapeURI(split(userpass, COLON)[1])
      password == UnescapeURI(split(userpass, COLON)[2])
      hostport == rsplit(IF atSign[2] = <<>> THEN atSign[1] ELSE atSign[2], COLON)
      ports == IF hostport[2] = <<>> THEN {80} ELSE getAsInteger(hostport[2], 10, IntBits)
      unfragmented == split(split(rest, SLASH)[2], HASH)
      query == Params(split(unfragmented[1], QUESTION)[2])
  IN  IF user.error \/ password.error \/ hostport[1] = <<>> \/ ports = {} \/ query.error
      THEN Error
      ELSE [error |-> FALSE, user |-> user.str, password |-> password.str,
            host |-> hostport[1], ports |-> ports, fragment |-> unfragmented[2],
            path |-> split(unfragmented[1], QUESTION)[1], params |-> query.params]

(* The URL of a request names the location that the request was made for:  *)
(* whatever characters its login and its parameters have, each comes back  *)
(* as it was, and only a parameter without name and value is lost.         *)
RequestInverse(path, params) ==
  LET login == IF params = <<>> THEN <<<<>>, <<>>>> ELSE params[1]
      userpass == IF params = <<>> THEN <<>>
                  ELSE EscapeURI(login[1], FALSE) \o <<COLON>> \o EscapeURI(login[2], FALSE) \o <<AT>>
      Back(port) == HttpLocation(userpass \o <<97>> \o port \o <<SLASH>> \o SetPath(path, params))
      Right(back, port) ==
        /\ ~back.error
        /\ back.path = path /\ back.fragment = <<>>
        /\ back.user = login[1] /\ back.password = login[2]
        /\ back.host = <<97>> /\ back.ports = {port}
        /\ back.params = SelectSeq(params, LAMBDA p : p[1] # <<>> \/ p[2] # <<>>)
  IN  Right(Back(<<>>), 80) /\ Right(Back(<<COLON, 55>>), 7)
=============================================================================
