---------------------------- MODULE JsonGrammar ----------------------------
(***************************************************************************)
(* accept_internal of the JSON parser (support/json_parser.cpp), what RFC  *)
(* 7159 takes for a text, and what parse returns.                          *)
(***************************************************************************)
EXTENDS JsonParser

(* accept_internal on the tokens from position i: where the value ends, or *)
(* 0 when there is none.  A number that is not finite is a value to it.    *)
At(ts, i) == IF i > Len(ts) THEN "end" ELSE ts[i]

RECURSIVE AcceptValue(_, _), AcceptMembers(_, _), AcceptElements(_, _)

AcceptValue(ts, i) ==
  CASE At(ts, i) = "{" -> IF At(ts, i + 1) = "}" THEN i + 1 ELSE AcceptMembers(ts, i + 1)
    [] At(ts, i) = "[" -> IF At(ts, i + 1) = "]" THEN i + 1 ELSE AcceptElements(ts, i + 1)
    [] At(ts, i) \in Scalar \cup {"f"} -> i
    [] OTHER -> 0

AcceptMembers(ts, i) ==
  LET ends == AcceptValue(ts, i + 2) IN
  IF At(ts, i) \notin String \/ At(ts, i + 1) # ":" \/ ends = 0 THEN 0
  ELSE IF At(ts, ends + 1) = "," THEN AcceptMembers(ts, ends + 2)
  ELSE IF At(ts, ends + 1) = "}" THEN ends + 1 ELSE 0

AcceptElements(ts, i) ==
  LET ends == AcceptValue(ts, i) IN
  IF ends = 0 THEN 0
  ELSE IF At(ts, ends + 1) = "," THEN AcceptElements(ts, ends + 2)
  ELSE IF At(ts, ends + 1) = "]" THEN ends + 1 ELSE 0

(* accept(strict) *)
Accept(ts) ==
  LET ends == AcceptValue(ts, 1) IN ends # 0 /\ At(ts, ends + 1) = "end"

-----------------------------------------------------------------------------
(* RFC 7159: what is an object, an array, a value *)
RECURSIVE IsValue(_)

IsList(s, IsItem(_)) ==
  LET n == Len(s)
      cut[i \in 0 .. n] ==  \* the first i tokens are items with commas behind them
        i = 0 \/ /\ s[i] = ","
                 /\ \E j \in 0 .. i - 1 : cut[j] /\ IsItem(SubSeq(s, j + 1, i - 1))
  IN  s = <<>> \/ \E i \in 0 .. n : cut[i] /\ IsItem(SubSeq(s, i + 1, n))

IsMember(s) == Len(s) > 2 /\ s[1] \in String /\ s[2] = ":" /\ IsValue(drop_front(s, 2))

IsValue(s) ==
  \/ Len(s) = 1 /\ s[1] \in Scalar \cup {"f"}
  \/ Len(s) > 1 /\ s[1] = "{" /\ Last(s) = "}" /\ IsList(SubSeq(s, 2, Len(s) - 1), IsMember)
  \/ Len(s) > 1 /\ s[1] = "[" /\ Last(s) = "]" /\ IsList(SubSeq(s, 2, Len(s) - 1), IsValue)

IsText(ts) == ts # <<>> /\ Last(ts) = "end" /\ IsValue(Front(ts))

(* The parser and the acceptor take the same texts, those of the grammar,  *)
(* but for numbers that overflow: these the parser alone refuses.          *)
TextByGrammar ==
  outcome # "parsing" =>
    /\ outcome = "value" <=> (IsText(tokens) /\ \A i \in DOMAIN tokens : tokens[i] # "f")
    /\ outcome # "overflow" => (Accept(tokens) <=> IsText(tokens))

IsKey(p) == tokens[p] \in String /\ At(tokens, p + 1) = ":"
Extent(p) == LET first == IF IsKey(p) THEN p + 2 ELSE p IN first .. AcceptValue(tokens, first)

(* the object of a key *)
ObjectOf(p) == Max({o \in 1 .. p - 1 : tokens[o] = "{" /\ p \in Extent(o)})

(* The members that another one with the same key follows in their object, *)
(* which the callback has left there.                                      *)
Replaced ==
  {p \in DOMAIN tokens : IsKey(p) /\ \E q \in p + 1 .. Len(tokens) :
     /\ IsKey(q) /\ tokens[q] = tokens[p] /\ ObjectOf(q) = ObjectOf(p)
     /\ \A r \in refused : r.at \notin {q, q + 2}}

(* What parse returns has every value of the text but those the callback   *)
(* refused, at their start or end, by their key or whole, those whose key  *)
(* comes again behind them, and what is in either; a refusal somewhere     *)
(* drops nothing else.                                                     *)
KeptOnly ==
  outcome = "value" =>
    LET values == {p \in DOMAIN tokens : tokens[p] \in {"{", "["} \cup Scalar /\ ~IsKey(p)}
        dropped == UNION {Extent(p) : p \in {r.at : r \in refused} \cup Replaced}
    IN  value.holds = values \ dropped /\ value.discarded = (1 \in dropped)
=============================================================================
