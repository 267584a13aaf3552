---------------------------- MODULE JsonPointer ----------------------------
(***************************************************************************)
(* JSON pointers (support/json_pointer.cpp): escaping, splitting, and what *)
(* flatten() and unflatten() make of a JSON value.  A string is a sequence *)
(* of ASCII codes.                                                         *)
(***************************************************************************)
EXTENDS StringRef, SequencesExt

\* the width of int; 32 in the code
CONSTANT IntegerBits

Space == 32
Plus == 43
Minus == 45
Slash == 47
Tilde == 126
Zero == <<48>>
DigitCodes == 48 .. 57
Letters == {Space, Slash, 48, 49, 97, Tilde}

Null == [type |-> "null"]
Leaf(v) == [type |-> "leaf", value |-> v]
Array(elements) == [type |-> "array", elements |-> elements]
Object(members) == [type |-> "object", members |-> members]
Failure == [type |-> "exception"]

IsPrimitive(j) == j.type \in {"null", "leaf"}

-----------------------------------------------------------------------------
(* replace_substring: from the front, going on behind what was put in *)
RECURSIVE replace_substring(_, _, _)
replace_substring(s, f, t) ==
  IF Len(s) < Len(f) THEN s
  ELSE IF take_front(s, Len(f)) = f
       THEN t \o replace_substring(drop_front(s, Len(f)), f, t)
       ELSE <<s[1]>> \o replace_substring(Tail(s), f, t)

Tilde0 == <<Tilde, 48>>
Tilde1 == <<Tilde, 49>>

(* bug: the slash goes first, and its tilde is escaped again *)
EscapeSlashFirst(s) ==
  replace_substring(replace_substring(s, <<Slash>>, Tilde1), <<Tilde>>, Tilde0)

Escape(s) == replace_substring(replace_substring(s, <<Tilde>>, Tilde0), <<Slash>>, Tilde1)

Unescape(s) == replace_substring(replace_substring(s, Tilde1, <<Slash>>), Tilde0, <<Tilde>>)

to_string(reference_tokens) ==
  FlattenSeq([i \in DOMAIN reference_tokens |-> <<Slash>> \o Escape(reference_tokens[i])])

(* split, without its exceptions: a pointer begins with a slash and each   *)
(* tilde is followed by 0 or 1                                             *)
RECURSIVE SplitPointer(_)
SplitPointer(s) ==
  IF s = <<>> THEN <<>>
  ELSE LET parts == split(Tail(s), Slash)
           more == Occurrences(Tail(s), Slash) # {}
       IN  <<Unescape(parts[1])>>
             \o (IF more THEN SplitPointer(<<Slash>> \o parts[2]) ELSE <<>>)

-----------------------------------------------------------------------------
(* std::to_string of an index; bound: arrays have up to ten elements *)
Index(i) == <<48 + i - 1>>

(* flatten: a function from pointers to primitive values *)
RECURSIVE Flatten(_, _)
Flatten(reference_string, j) ==
  LET Below(token) == reference_string \o <<Slash>> \o token
      Union(parts) == FoldLeft(LAMBDA f, g : [p \in DOMAIN f \cup DOMAIN g |->
                                                IF p \in DOMAIN f THEN f[p] ELSE g[p]],
                               [p \in {} |-> Null], parts)
      Put(v) == [p \in {reference_string} |-> v]
  IN  CASE IsPrimitive(j) -> Put(j)
        [] j.type = "array" ->
             IF j.elements = <<>> THEN Put(Null)
             ELSE Union([i \in DOMAIN j.elements |-> Flatten(Below(Index(i)), j.elements[i])])
        [] j.type = "object" ->
             IF DOMAIN j.members = {} THEN Put(Null)
             ELSE LET keys == SetToSeq(DOMAIN j.members) IN
                  Union([i \in DOMAIN keys |->
                           Flatten(Below(Escape(keys[i])), j.members[keys[i]])])

(* std::stoi, as the set of its result: white space, a sign, and the      *)
(* digits up to the first other character.  Without a digit it throws      *)
(* invalid_argument, and out_of_range for what int does not hold.          *)
WhiteSpace == 9 .. 13 \cup {Space}
FrontIn(chars, s) == Max({i \in 0 .. Len(s) : \A k \in 1 .. i : s[k] \in chars})
Stoi(token) ==
  LET text == drop_front(token, FrontIn(WhiteSpace, token))
      signed == text # <<>> /\ text[1] \in {Plus, Minus}
      unsigned == IF signed THEN Tail(text) ELSE text
      digits == take_front(unsigned, FrontIn(DigitCodes, unsigned))
      magnitude == FoldLeft(LAMBDA n, c : n * 10 + c - 48, 0, digits)
      number == IF signed /\ text[1] = Minus THEN -magnitude ELSE magnitude
  IN  {n \in {number} : digits # <<>> /\ n \in -2 ^ (IntegerBits - 1) .. 2 ^ (IntegerBits - 1) - 1}

(* operator[] of an array fills up with null.  A negative index is cast to *)
(* size_type: it comes behind any end, and no vector takes so many nulls    *)
(* (length_error).  But to -1 in an empty array it puts in                  *)
(* size_type(-1) - 0 + 1 = 0 of them, and refers to what is not there.      *)
Extended(elements, n) ==
  [i \in 1 .. Max({n, Len(elements)}) |-> IF i <= Len(elements) THEN elements[i] ELSE Null]
Wrapped(elements, index) == elements = <<>> /\ index = {-1}
Fillable(index) == \E i \in index : i >= 0
Place(index) == 1 + CHOOSE i \in index : i >= 0

(* get_and_create, and the assignment of v to what it returns.  The first  *)
(* token that comes to a null makes it an array or an object, and the      *)
(* arrays it makes are never empty.                                        *)
RECURSIVE Assigned(_, _, _)
Assigned(j, tokens, v) ==
  LET token == Head(tokens)
      elements == IF j.type = "null" THEN <<>> ELSE j.elements
      members == IF j.type = "null" THEN [k \in {} |-> Null] ELSE j.members
      fromNull == j.type = "null" /\ token = Zero
      place == IF fromNull THEN 1 ELSE Place(Stoi(token))
      grown == Extended(elements, place)
      below == IF token \in DOMAIN members THEN members[token] ELSE Null
      InArray == Assigned(grown[place], Tail(tokens), v)
      InObject == Assigned(below, Tail(tokens), v)
  IN  IF j = Failure THEN Failure
      ELSE IF tokens = <<>> THEN v
      ELSE IF j.type = "leaf" THEN Failure
      ELSE IF j.type = "array" \/ fromNull
      THEN IF (~fromNull /\ ~Fillable(Stoi(token))) \/ InArray = Failure THEN Failure
           ELSE Array([grown EXCEPT ![place] = InArray])
      ELSE IF InObject = Failure THEN Failure
      ELSE Object([k \in DOMAIN members \cup {token} |->
                     IF k = token THEN InObject ELSE members[k]])

(* std::string's order *)
Less(s, t) ==
  \E i \in 1 .. Len(t) :
    /\ i <= Len(s) + 1
    /\ \A k \in 1 .. i - 1 : s[k] = t[k]
    /\ (i = Len(s) + 1 \/ s[i] < t[i])

(* unflatten: one value after the other, in the order of their pointers *)
Unflatten(flat) ==
  FoldLeft(LAMBDA j, p : Assigned(j, SplitPointer(p), flat[p]), Null,
           SetToSortSeq(DOMAIN flat, Less))

-----------------------------------------------------------------------------
(* Access by pointer.  An array takes an index without a zero in front, as *)
(* far as std::stoi reads it; "-" is the place behind its end.             *)
Dash == <<Minus>>
ArrayIndex(token) == IF Len(token) > 1 /\ token[1] = 48 THEN {} ELSE Stoi(token)
Digits(token) == \A i \in DOMAIN token : token[i] \in DigitCodes

(* get_unchecked, and the assignment of v to what it returns: its outcome, *)
(* and what has become of j by then                                        *)
RECURSIVE Written(_, _, _)
Written(j, tokens, v) ==
  LET token == Head(tokens)
      target == IF j.type # "null" THEN j
                ELSE IF Digits(token) \/ token = Dash THEN Array(<<>>)
                ELSE Object([k \in {} |-> Null])
      index == IF token = Dash THEN {Len(target.elements)} ELSE ArrayIndex(token)
      place == Place(index)
      grown == Extended(target.elements, place)
      below == IF token \in DOMAIN target.members THEN target.members[token] ELSE Null
      InArray == Written(grown[place], Tail(tokens), v)
      InObject == Written(below, Tail(tokens), v)
  IN  IF tokens = <<>> THEN [outcome |-> "ok", j |-> v]
      ELSE IF target.type = "leaf" \/ (target.type = "array" /\ ~Fillable(index))
      THEN [outcome |-> IF target.type = "array" /\ Wrapped(target.elements, index)
                        THEN "undefined" ELSE "exception",
            j |-> target]
      ELSE IF target.type = "array"
      THEN [outcome |-> InArray.outcome, j |-> Array([grown EXCEPT ![place] = InArray.j])]
      ELSE [outcome |-> InObject.outcome,
            j |-> Object([k \in DOMAIN target.members \cup {token} |->
                            IF k = token THEN InObject.j ELSE target.members[k]])]

(* get_checked, which at(ptr) calls *)
RECURSIVE At(_, _)
At(j, tokens) ==
  LET token == Head(tokens)
      index == ArrayIndex(token)
  IN  IF tokens = <<>> THEN j
      ELSE IF j.type = "array" /\ token # Dash /\ Fillable(index) /\ Place(index) <= Len(j.elements)
      THEN At(j.elements[Place(index)], Tail(tokens))
      ELSE IF j.type = "object" /\ token \in DOMAIN j.members
      THEN At(j.members[token], Tail(tokens))
      ELSE Failure

-----------------------------------------------------------------------------
RECURSIVE HasEmpty(_), StartsWithZero(_)

HasEmpty(j) ==
  \/ j.type = "array" /\ (j.elements = <<>> \/ \E i \in DOMAIN j.elements : HasEmpty(j.elements[i]))
  \/ j.type = "object" /\ (DOMAIN j.members = {} \/ \E k \in DOMAIN j.members : HasEmpty(j.members[k]))

(* an object whose first pointer goes to its key "0" *)
StartsWithZero(j) ==
  \/ j.type = "array" /\ \E i \in DOMAIN j.elements : StartsWithZero(j.elements[i])
  \/ /\ j.type = "object"
     /\ LET pointers == DOMAIN Flatten(<<>>, j)
            first == CHOOSE p \in pointers : \A q \in pointers : p = q \/ Less(p, q)
        IN  \/ DOMAIN j.members # {} /\ SplitPointer(first)[1] = Zero
            \/ \E k \in DOMAIN j.members : StartsWithZero(j.members[k])

(* A pointer is split into the tokens it was made of, and a value comes    *)
(* back from flatten and unflatten if and only if it has nothing empty in  *)
(* it and no object whose first pointer, in their order, is to a key "0".  *)
PointerInverse(reference_tokens) == SplitPointer(to_string(reference_tokens)) = reference_tokens
FlattenInverse(j) ==
  (Unflatten(Flatten(<<>>, j)) = j) <=> (~HasEmpty(j) /\ ~StartsWithZero(j))

(* The path of s and the path of t in j: one goes on from the other, by    *)
(* tokens that are the same or, in an array, are read as the same index.   *)
RECURSIVE Related(_, _, _)
Related(j, s, t) ==
  \/ s = <<>> \/ t = <<>>
  \/ /\ j.type = "array" /\ ArrayIndex(s[1]) = ArrayIndex(t[1])
     /\ Related(At(j, <<s[1]>>), Tail(s), Tail(t))
  \/ /\ j.type = "object" /\ s[1] = t[1]
     /\ Related(At(j, <<s[1]>>), Tail(s), Tail(t))

(* What flatten calls the values of j, at(ptr) finds.  j[ptr] takes all    *)
(* that at(ptr) finds, and what is assigned to it is found there, unless   *)
(* "-" is in the pointer.  Its behaviour is undefined where, and only      *)
(* where, an empty array is reached by a token that reads as -1.           *)
(* Otherwise the values whose pointers neither lead to the place nor go on *)
(* from it stay where they are, also when the assignment fails half-way.   *)
AccessInverse(j, tokens) ==
  LET flat == Flatten(<<>>, j)
      written == Written(j, tokens, Leaf(2))
  IN  /\ \A p \in DOMAIN flat : LET found == At(j, SplitPointer(p)) IN
           found = flat[p] \/ (flat[p] = Null /\ HasEmpty(found))
      /\ At(j, tokens) # Failure => written.outcome = "ok"
      /\ written.outcome = "ok" /\ (\A i \in DOMAIN tokens : tokens[i] # Dash)
           => At(written.j, tokens) = Leaf(2)
      /\ written.outcome = "undefined" <=>
           \E i \in DOMAIN tokens : /\ At(j, take_front(tokens, i - 1)) = Array(<<>>)
                                   /\ ArrayIndex(tokens[i]) = {-1}
      /\ written.outcome # "undefined" => \A p \in DOMAIN flat :
           LET q == SplitPointer(p) IN
           ~Related(j, q, tokens) => At(written.j, q) = At(j, q)

(* json.h of unflatten(): "Apart from this example [empty objects and      *)
(* arrays], for a JSON value j, the following is always true:              *)
(* j == j.flatten().unflatten()".                                          *)
FlattenRestores(j) == ~HasEmpty(j) => Unflatten(Flatten(<<>>, j)) = j
=============================================================================
