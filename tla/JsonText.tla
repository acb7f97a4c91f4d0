------------------------------ MODULE JsonText ------------------------------
(***************************************************************************)
(* The two JSON readers of the engine, token by token: the one of request  *)
(* bodies (server.c: the whole document is validated before a route looks  *)
(* anything up) and the one that skips an unknown value of a SafeTensors   *)
(* header (format_safetensors.c).  Both are recursive in the code, so      *)
(* their call stack is the stack of open containers here.                  *)
(***************************************************************************)
EXTENDS Integers, Sequences, FiniteSets

CONSTANTS Texts,     \* the documents, sequences of tokens
          Literals,  \* null, true, false and numbers
          Integral,  \* the literals that are unsigned 64-bit integers
          Decoded,   \* what each string literal that is legal decodes to
          LongNames, \* string literals too long for a key
          KeyLimit,  \* members of a request (64)
          MaxDepth   \* 32 in a request, 64 in a header

VARIABLES
  dialect,       \* "request" or "header"
  text, cursor,  \* the document, the next token
  stack,         \* the open containers, the innermost first
  expect,        \* what the innermost call reads next
  depth,         \* parser->depth of a header
  keys,          \* the decoded names of the outermost object
  verdict,       \* of the validation
  want, found    \* the key looked up, the place of its value or what stands for it

vars == <<dialect, text, cursor, stack, expect, depth, keys, verdict, want, found>>

Absent == -1   \* nya_json_value returns NULL
Unknown == 0   \* the lookup is not done

Init == /\ dialect \in {"request", "header"}
        /\ text \in Texts
        /\ cursor = 1 /\ stack = <<>> /\ depth = 0
        /\ expect = "value"
        /\ keys = {} /\ verdict = "none"
        /\ want = "" /\ found = Unknown

Strings == DOMAIN Decoded

At(i) == IF i <= Len(text) THEN text[i] ELSE "end of text"
Token == At(cursor)
Inside(container) == stack # <<>> /\ Head(stack) = container

-----------------------------------------------------------------------------
(* nya_json_validate, nya_json_skip_value; nya_json_skip_array and _object. *)

\* A value may begin here, with this token.
ValueDue == \/ expect = "value"
            \/ expect = "first" /\ Inside("[")

\* Every nested value of a request counts, containers and scalars; a header
\* counts the containers that are open.
MayNest == dialect = "request" => Len(stack) <= MaxDepth + 1
MayOpen == /\ MayNest
           /\ dialect = "request" /\ stack = <<>> => Token = "{"
           /\ dialect = "header" => depth < MaxDepth

\* The value that ends here was an element, or the whole text.
After(rest) == IF rest = <<>> THEN "end" ELSE "after"

Advance == /\ verdict = "none"
           /\ cursor' = cursor + 1
           /\ UNCHANGED <<dialect, text, verdict, want, found>>

ScalarHere == /\ ValueDue /\ MayNest
              /\ dialect = "request" => stack # <<>>
              /\ Token \in Literals \union Strings
OpenHere   == ValueDue /\ MayOpen /\ Token \in {"{", "["}
CloseHere  == /\ expect \in {"first", "after"}
              /\ \/ Inside("{") /\ Token = "}"
                 \/ Inside("[") /\ Token = "]"
ColonHere  == expect = "colon" /\ Token = ":"
CommaHere  == expect = "after" /\ Token = ","

\* The names of the request itself are few, short and different.
OuterName == dialect = "request" /\ Len(stack) = 1
NameHere  == /\ expect = "name" \/ (expect = "first" /\ Inside("{"))
             /\ Token \in Strings
             /\ OuterName => /\ Cardinality(keys) < KeyLimit
                             /\ Token \notin LongNames
                             /\ Decoded[Token] \notin keys

Scalar == /\ ScalarHere /\ Advance
          /\ expect' = After(stack)
          /\ UNCHANGED <<stack, depth, keys>>

Open == /\ OpenHere /\ Advance
        /\ stack' = <<Token>> \o stack
        /\ expect' = "first" /\ depth' = depth + 1
        /\ UNCHANGED keys

Close == /\ CloseHere /\ Advance
         /\ stack' = Tail(stack) /\ expect' = After(Tail(stack))
         /\ depth' = depth - 1
         /\ UNCHANGED keys

Name == /\ NameHere /\ Advance
        /\ expect' = "colon"
        /\ keys' = IF OuterName THEN keys \union {Decoded[Token]} ELSE keys
        /\ UNCHANGED <<stack, depth>>

Colon == /\ ColonHere /\ Advance
         /\ expect' = "value"
         /\ UNCHANGED <<stack, depth, keys>>

Comma == /\ CommaHere /\ Advance
         /\ expect' = IF Inside("{") THEN "name" ELSE "value"
         /\ UNCHANGED <<stack, depth, keys>>

Accepted == /\ expect = "end"
            /\ dialect = "request" => cursor = Len(text) + 1

\* A request ends with its text, a skipped value where it ends.
Accept == /\ verdict = "none" /\ Accepted
          /\ verdict' = "ok"
          /\ UNCHANGED <<dialect, text, cursor, stack, expect, depth, keys, want, found>>

\* No call can go on: all of them return -1.
Reject == /\ verdict = "none" /\ ~Accepted
          /\ ~(ScalarHere \/ OpenHere \/ CloseHere \/ NameHere \/ ColonHere \/ CommaHere)
          /\ verdict' = "bad"
          /\ UNCHANGED <<dialect, text, cursor, stack, expect, depth, keys, want, found>>

-----------------------------------------------------------------------------
(* nya_json_value, on a validated request.                                 *)

Opens(i, j)  == Cardinality({k \in i .. j : text[k] \in {"{", "["}})
Closes(i, j) == Cardinality({k \in i .. j : text[k] \in {"}", "]"}})

\* nya_json_skip_value on text that is known to be valid.
Skip(i) == CHOOSE j \in i + 1 .. Len(text) :
             /\ Opens(i, j - 1) = Closes(i, j - 1)
             /\ \A k \in i + 1 .. j - 1 : Opens(i, k - 1) # Closes(i, k - 1)

Lookup(key) == /\ dialect = "request" /\ verdict = "ok" /\ want = ""
               /\ want' = key /\ cursor' = 2
               /\ UNCHANGED <<dialect, text, stack, expect, depth, keys, verdict, found>>

\* Mutant: values are not skipped, the next string may be inside of one.
SeekInside == /\ want # "" /\ found = Unknown
              /\ IF Token \in Strings /\ Decoded[Token] = want /\ At(cursor + 1) = ":"
                 THEN found' = cursor + 2 /\ UNCHANGED cursor
                 ELSE IF cursor < Len(text)
                 THEN cursor' = cursor + 1 /\ UNCHANGED found
                 ELSE found' = Absent /\ UNCHANGED cursor
              /\ UNCHANGED <<dialect, text, stack, expect, depth, keys, verdict, want>>

\* The name matches, or its value is skipped, or there is no other member.
Seek == /\ want # "" /\ found = Unknown
        /\ IF Token \notin Strings
           THEN found' = Absent /\ UNCHANGED cursor
           ELSE IF Decoded[Token] = want
           THEN found' = cursor + 2 /\ UNCHANGED cursor
           ELSE IF At(Skip(cursor + 2)) = ","
           THEN cursor' = Skip(cursor + 2) + 1 /\ UNCHANGED found
           ELSE found' = Absent /\ UNCHANGED cursor
        /\ UNCHANGED <<dialect, text, stack, expect, depth, keys, verdict, want>>

\* nya_json_optional_u64: absent, one, or not an integer.
OptionalU64 == IF found = Absent THEN 0 ELSE IF At(found) \in Integral THEN 1 ELSE -1

Finished == /\ \/ verdict = "bad" \/ found # Unknown
               \/ verdict = "ok" /\ dialect = "header"
            /\ UNCHANGED vars

\* No caller looks for an empty key.
Next == \/ Scalar \/ Open \/ Close \/ Name \/ Colon \/ Comma
        \/ Accept \/ Reject
        \/ \E key \in {Decoded[t] : t \in Strings} \ {""} : Lookup(key)
        \/ Seek \/ Finished

Spec == Init /\ [][Next]_vars

-----------------------------------------------------------------------------
(* Properties                                                              *)

\* JSON's grammar: text[i .. j - 1] is a value, a list of values or of members.
Spans == {"value", "values", "members"} \X (1 .. Len(text) + 1) \X (1 .. Len(text) + 1)

Derives[d \in Spans] ==
  LET i == d[2]
      j == d[3]
      value(k)  == Derives[<<"value", i, k>>]
      member(k) == text[i] \in Strings /\ At(i + 1) = ":" /\ Derives[<<"value", i + 2, k>>]
  IN  CASE d[1] = "value" ->
             \/ j = i + 1 /\ text[i] \in Literals \union Strings
             \/ /\ j >= i + 2 /\ text[i] = "[" /\ text[j - 1] = "]"
                /\ j = i + 2 \/ Derives[<<"values", i + 1, j - 1>>]
             \/ /\ j >= i + 2 /\ text[i] = "{" /\ text[j - 1] = "}"
                /\ j = i + 2 \/ Derives[<<"members", i + 1, j - 1>>]
        [] d[1] = "values" ->
             \/ i < j /\ value(j)
             \/ \E k \in i + 1 .. j - 2 : value(k) /\ text[k] = "," /\ Derives[<<"values", k + 1, j>>]
        [] d[1] = "members" ->
             \/ i + 2 < j /\ member(j)
             \/ \E k \in i + 3 .. j - 2 : member(k) /\ text[k] = "," /\ Derives[<<"members", k + 1, j>>]

Nesting(i) == Opens(1, i - 1) - Closes(1, i - 1)
IsName(i) == text[i] \in Strings /\ At(i + 1) = ":"
Keys == {i \in 1 .. Len(text) : IsName(i) /\ Nesting(i) = 1}

\* The documents each reader is meant to take, up to position j.
Legal(j) ==
  /\ Derives[<<"value", 1, j>>]
  /\ dialect = "header" =>
       \A i \in 1 .. j - 1 : text[i] \in {"{", "["} => Nesting(i) < MaxDepth
  /\ dialect = "request" =>
       /\ text[1] = "{" /\ j = Len(text) + 1
       /\ \A i \in 1 .. j - 1 : Nesting(i) > MaxDepth + 1 => text[i] \in {"}", "]"} \/ IsName(i)
       /\ Cardinality(Keys) <= KeyLimit
       /\ \A i, k \in Keys : text[i] \notin LongNames /\ (i # k => Decoded[text[i]] # Decoded[text[k]])

(* Exactly the documents of JSON's grammar within the limits are accepted, *)
(* with no key of a request twice however it is spelled; and a lookup      *)
(* finds the value of the outermost member of that name, never something   *)
(* that stands inside another value.                                       *)
ReadsWhatIsWritten ==
  /\ verdict = "ok" /\ want = "" => Legal(cursor)
  /\ verdict = "bad" => \A j \in 2 .. Len(text) + 1 : ~Legal(j)
  /\ found # Unknown =>
       IF found = Absent THEN \A i \in Keys : Decoded[text[i]] # want
       ELSE found - 2 \in Keys /\ Decoded[text[found - 2]] = want
  /\ found # Unknown /\ OptionalU64 = 1 => \E i \in Keys : text[i + 2] \in Integral
=============================================================================
