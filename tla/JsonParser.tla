----------------------------- MODULE JsonParser -----------------------------
(***************************************************************************)
(* The JSON parser (support/json_parser.cpp): parse_internal with its      *)
(* callback.  The recursion of parse_internal is a stack of its calls for  *)
(* objects and arrays, and a step takes a token from the lexer.  A value   *)
(* is known by the position of its first token.                            *)
(***************************************************************************)
EXTENDS StringRef, SequencesExt

CONSTANTS
  MaxTokens,  \* bound: the length of a text
  MaxNesting  \* bound: how deep it is nested

VARIABLES
  tokens,    \* what has been read
  calls,     \* the calls of parse_internal that are open
  expecting, \* what the loop will do with the next token
  depth,
  callback,  \* there is one
  outcome,   \* "parsing", then "value", "syntax_error" or "overflow"
  value,     \* what the last call returned: the positions it holds, or discarded
  event,     \* the last call of the callback, with the nesting it was made at
  refused    \* history: the calls of the callback that returned false

parserVars ==
  <<tokens, calls, expecting, depth, callback, outcome, value, event, refused>>

(* There are two strings, "s" and "t"; "v" is any other scalar but "f", a  *)
(* number that is not finite as a double.                                  *)
String == {"s", "t"}
Scalar == String \cup {"v"}
Token == {"{", "}", "[", "]", ":", ",", "f", "end", "bad"} \cup Scalar

(* under what a call holds something: a key of its object, or itself       *)
Name == String \cup {"itself"}

Discarded == [discarded |-> TRUE, holds |-> {}]
Held(holds) == [discarded |-> FALSE, holds |-> holds]
NoEvent == [name |-> "none", depth |-> 0, nesting |-> 0]

ParserIdle ==
  /\ tokens = <<>> /\ calls = <<>> /\ expecting = "value" /\ depth = 0
  /\ callback = FALSE
  /\ outcome = "parsing" /\ value = Discarded /\ event = NoEvent
  /\ refused = {}

ParserInit ==
  /\ callback \in BOOLEAN
  /\ tokens = <<>> /\ calls = <<>> /\ expecting = "value" /\ depth = 0
  /\ outcome = "parsing" /\ value = Discarded /\ event = NoEvent
  /\ refused = {}

(* the position of the token that is being read *)
Here == Len(tokens) + 1
Top == calls[Len(calls)]

(* keep, as the next call of parse_internal gets it *)
Keep == calls # <<>> => Top.keep

(* callback(d, e, ...), for the value at position p that is nested in n *)
Calls(d, e, n, p, answer) ==
  /\ event' = [name |-> e, depth |-> d, nesting |-> n]
  /\ refused' = IF answer THEN refused ELSE refused \cup {[name |-> e, at |-> p]}
Silent == UNCHANGED <<event, refused>>

-----------------------------------------------------------------------------
(* bug: the first of the values of a key stays *)
AddedOnce(caller, holds) ==
  [caller EXCEPT !.holds[caller.key] = IF caller.kind = "[" \/ @ = {} THEN @ \cup holds ELSE @]

(* push_back, and result[key] = value, which replaces what the object had  *)
(* of that key                                                             *)
Added(caller, holds) ==
  [caller EXCEPT !.holds[caller.key] = IF caller.kind = "[" THEN @ \cup holds ELSE holds]

AllOf(call) == UNION {call.holds[k] : k \in Name}

(* What goes on when a call returns v and others are the calls that stay:  *)
(* the caller adds it to its own value, unless the value, its key or the   *)
(* caller itself is discarded, and reads the next token.                   *)
Return(v, others) ==
  /\ value' = v
  /\ IF others = <<>>
     THEN calls' = <<>> /\ expecting' = "end"
     ELSE LET caller == others[Len(others)]
              adds == caller.keep /\ caller.keep_tag /\ ~v.discarded
          IN  /\ calls' = IF adds
                          THEN [others EXCEPT ![Len(others)] = Added(caller, v.holds)]
                          ELSE others
              /\ expecting' = "separator"

(* parse_internal, a scalar *)
ScalarValue(t) ==
  /\ expecting \in {"value", "value_or_end"} /\ t \in Scalar
  /\ IF Keep /\ callback
     THEN \E answer \in BOOLEAN :
            /\ Calls(depth, "value", Len(calls), Here, answer)
            /\ Return(IF answer THEN Held({Here}) ELSE Discarded, calls)
     ELSE Silent /\ Return(Held({Here}), calls)
  /\ UNCHANGED <<depth, outcome>>

(* parse_internal, { or [ : depth++ is passed to the callback, and is what *)
(* it is also when the callback then refuses the object or array           *)
StartValue(t) ==
  /\ expecting \in {"value", "value_or_end"} /\ t \in {"{", "["}
  /\ Len(calls) < MaxNesting
  /\ \E answer \in (IF Keep /\ callback THEN BOOLEAN ELSE {TRUE}) :
       /\ calls' = Append(calls, [kind |-> t, at |-> Here, keep |-> Keep /\ answer,
                                  keep_tag |-> TRUE, key |-> "itself",
                                  holds |-> [k \in Name |-> IF k = "itself" THEN {Here} ELSE {}]])
       /\ IF Keep /\ callback
          THEN /\ depth' = depth + 1
               /\ Calls(depth, IF t = "{" THEN "object_start" ELSE "array_start",
                        Len(calls), Here, answer)
          ELSE Silent /\ UNCHANGED depth
  /\ expecting' = IF t = "{" THEN "key_or_end" ELSE "value_or_end"
  /\ UNCHANGED <<value, outcome>>

(* bug: callback(depth--, ...) *)
AskBeforeEnd(t, answer) ==
  /\ depth' = depth - 1
  /\ Calls(depth, IF t = "}" THEN "object_end" ELSE "array_end",
           Len(calls) - 1, Top.at, answer)

(* callback(--depth, ...) *)
AskAtEnd(t, answer) ==
  /\ depth' = depth - 1
  /\ Calls(depth - 1, IF t = "}" THEN "object_end" ELSE "array_end",
           Len(calls) - 1, Top.at, answer)

(* The end of what was begun.  A callback is asked about what is kept; and *)
(* about an array without values also when it, or what it is in, is not.   *)
EndValue(t) ==
  /\ calls # <<>>
  /\ \/ t = "}" /\ Top.kind = "{" /\ expecting \in {"key_or_end", "separator"}
     \/ t = "]" /\ Top.kind = "[" /\ expecting \in {"value_or_end", "separator"}
  /\ LET asks == callback /\ (Top.keep \/ (t = "]" /\ expecting = "value_or_end"))
         v == IF Top.keep THEN Held(AllOf(Top)) ELSE Discarded
     IN  IF asks
         THEN \E answer \in BOOLEAN :
                /\ AskAtEnd(t, answer)
                /\ Return(IF answer THEN v ELSE Discarded, Front(calls))
         ELSE Silent /\ UNCHANGED depth /\ Return(v, Front(calls))
  /\ UNCHANGED outcome

(* bug: the answer for a key is forgotten *)
KeyAlways(t) ==
  /\ expecting \in {"key", "key_or_end"} /\ t \in String
  /\ IF Top.keep /\ callback
     THEN \E answer \in BOOLEAN :
            /\ Calls(depth, "key", Len(calls), Here, answer)
            /\ calls' = [calls EXCEPT ![Len(calls)].key = t]
     ELSE Silent /\ calls' = [calls EXCEPT ![Len(calls)].key = t]
  /\ expecting' = "colon"
  /\ UNCHANGED <<depth, value, outcome>>

(* a key, about which the callback is asked while the object is kept *)
Key(t) ==
  /\ expecting \in {"key", "key_or_end"} /\ t \in String
  /\ IF Top.keep /\ callback
     THEN \E answer \in BOOLEAN :
            /\ Calls(depth, "key", Len(calls), Here, answer)
            /\ calls' = [calls EXCEPT ![Len(calls)].keep_tag = answer, ![Len(calls)].key = t]
     ELSE /\ Silent
          /\ calls' = [calls EXCEPT ![Len(calls)].keep_tag = Top.keep, ![Len(calls)].key = t]
  /\ expecting' = "colon"
  /\ UNCHANGED <<depth, value, outcome>>

(* : and , *)
Separator(t) ==
  /\ \/ expecting = "colon" /\ t = ":" /\ expecting' = "value"
     \/ /\ expecting = "separator" /\ t = ","
        /\ expecting' = IF Top.kind = "{" THEN "key" ELSE "value"
  /\ Silent
  /\ UNCHANGED <<calls, depth, value, outcome>>

(* parse: the end of the text; a value that was discarded becomes null *)
End(t) ==
  /\ expecting = "end" /\ t = "end"
  /\ outcome' = "value"
  /\ Silent
  /\ UNCHANGED <<calls, expecting, depth, value>>

(* expect or unexpect throws, and so does a number that is not finite *)
Unexpected(t) ==
  /\ CASE expecting = "value"        -> t \notin {"{", "["} \cup Scalar
       [] expecting = "value_or_end" -> t \notin {"{", "[", "]"} \cup Scalar
       [] expecting = "key_or_end"   -> t \notin String \cup {"}"}
       [] expecting = "key"          -> t \notin String
       [] expecting = "colon"        -> t # ":"
       [] expecting = "separator"    -> t # "," /\ t # (IF Top.kind = "{" THEN "}" ELSE "]")
       [] expecting = "end"          -> t # "end"
  /\ outcome' = IF t = "f" /\ expecting \in {"value", "value_or_end"} THEN "overflow"
                ELSE "syntax_error"
  /\ Silent
  /\ UNCHANGED <<calls, expecting, depth, value>>

ParserNext ==
  /\ outcome = "parsing" /\ Len(tokens) < MaxTokens
  /\ \E t \in Token :
       /\ tokens' = Append(tokens, t)
       /\ \/ ScalarValue(t) \/ StartValue(t) \/ EndValue(t) \/ Key(t)
          \/ Separator(t) \/ End(t) \/ Unexpected(t)
  /\ UNCHANGED callback

ParserSpec == ParserInit /\ [][ParserNext]_parserVars

-----------------------------------------------------------------------------
(* Until it refuses an object or array at its start, the callback is given *)
(* the depth that the documentation promises, at every event: the number   *)
(* of the objects and arrays around the value, or around its key.          *)
CallbackDepth ==
  (\A r \in refused : r.name \notin {"object_start", "array_start"})
    => event.depth = event.nesting
=============================================================================
