------------------------------ MODULE MCInputs ------------------------------
(***************************************************************************)
(* Everything the program reads from outside: its settings (Settings), the *)
(* directory of a model file (ModelFile), JSON (JsonText) and HTTP         *)
(* (HttpRequest).  The four share no state, so a behaviour drives one of   *)
(* them; the variables of the others are not used and say so.              *)
(***************************************************************************)
EXTENDS Settings, TLC

CONSTANTS Sizes, Metadata, Tensors, Members, Fields, Blocks, HeaderLengths, MaxCount, MaxWord,
          Texts, Literals, Integral, Decoded, LongNames, KeyLimit, MaxDepth,
          Streams, Starts, KeyStarts, Field, Length, HeaderLimit, Capacity, ReplySize

VARIABLES kind, size, position, counts, alignment, dir, ranges, information,
          dialect, text, cursor, stack, expect, depth, keys, verdict, want, found,
          stream, total, head, declared, lost, status, sent, driven

File == INSTANCE ModelFile
Json == INSTANCE JsonText
Http == INSTANCE HttpRequest

\* Streams are sequences, lengths are counted, and each line has a form.
ASSUME InputsAssumption ==
  /\ \A s \in Streams : Len(s) \in Nat
  /\ HeaderLimit \in Nat /\ Capacity \in Nat /\ ReplySize \in Nat
  /\ \A value \in DOMAIN Length : Length[value] \in Nat
  /\ MaxInput \in Nat
  /\ \A line \in Lines : line.form \in {"blank", "broken", "server", "setting"}

\* Sizes and offsets are counted without a sign, and a block has elements.
ASSUME FileAssumption ==
  /\ Sizes \subseteq Nat /\ HeaderLengths \subseteq Nat /\ MaxWord \in Nat /\ MaxCount \in Nat
  /\ Metadata \subseteq [key : STRING, bytes : Nat, value : Nat]
  /\ \A t \in Tensors : t \in [name : Nat, shape : Seq(Nat), type : STRING, offset : Nat, bytes : Nat]
  /\ \A m \in Members : m \in [name : Nat, fields : Seq(Nat), bits : Nat, shape : Seq(Nat),
                                begin : Nat, end : Nat]
  /\ Fields \subseteq [number : Nat, wire : Nat, bytes : Nat, value : Nat]
  /\ \A type \in DOMAIN Blocks : Blocks[type][1] \in Nat \ {0} /\ Blocks[type][2] \in Nat

\* Literals and strings are no marks, and limits are counted.
ASSUME JsonAssumption ==
  /\ \A t \in Texts : Len(t) \in Nat
  /\ (Literals \cup DOMAIN Decoded) \cap {"{", "}", "[", "]", ",", ":", "end of text"} = {}
  /\ KeyLimit \in Nat /\ MaxDepth \in Nat

settings == <<args, index, explicit, verbose, file, section, seen, staged, config, live, exit_code>>
model == <<kind, size, position, counts, alignment, dir, ranges, information>>
json  == <<dialect, text, cursor, stack, expect, depth, keys, verdict, want, found>>
http  == <<stream, total, head, declared, lost, status, sent>>
both  == <<pc, result>>
all   == <<settings, model, json, http, both, driven>>

Unused(variable) == variable = "unused"

NoSettings == /\ Unused(args) /\ Unused(index) /\ Unused(explicit) /\ Unused(verbose)
              /\ Unused(file) /\ Unused(section) /\ Unused(seen) /\ Unused(staged)
              /\ Unused(config) /\ Unused(live) /\ Unused(exit_code)
NoModel == /\ Unused(kind) /\ Unused(size) /\ Unused(position) /\ Unused(counts)
           /\ Unused(alignment) /\ Unused(dir) /\ Unused(ranges) /\ Unused(information)
NoJson  == /\ Unused(dialect) /\ Unused(text) /\ Unused(cursor) /\ Unused(stack)
           /\ Unused(expect) /\ Unused(depth) /\ Unused(keys) /\ Unused(verdict)
           /\ Unused(want) /\ Unused(found)
NoHttp  == /\ Unused(stream) /\ Unused(total) /\ Unused(head) /\ Unused(declared)
           /\ Unused(lost) /\ Unused(status) /\ Unused(sent)

InputsInit ==
  \/ driven = "settings" /\ Init /\ NoModel /\ NoJson /\ NoHttp
  \/ driven = "file" /\ File!Init /\ NoSettings /\ NoJson /\ NoHttp
  \/ driven = "json" /\ Json!Init /\ NoSettings /\ NoModel /\ NoHttp /\ Unused(pc) /\ Unused(result)
  \/ driven = "http" /\ Http!Init /\ NoSettings /\ NoModel /\ NoJson /\ Unused(pc)

InputsNext ==
  \/ driven = "settings" /\ Next /\ UNCHANGED <<model, json, http, driven>>
  \/ driven = "file" /\ File!Next /\ UNCHANGED <<settings, json, http, driven>>
  \/ driven = "json" /\ Json!Next /\ UNCHANGED <<settings, model, http, both, driven>>
  \/ driven = "http" /\ Http!Next /\ UNCHANGED <<settings, model, json, pc, driven>>

InputsSpec == InputsInit /\ [][InputsNext]_all

-----------------------------------------------------------------------------
(* Properties                                                              *)

\* The server runs with what the command line and the whole file say.
RunsAsConfigured == driven = "settings" => StartsAsConfigured

\* An accepted model file lies within its bytes and has no entry twice.
AcceptedIsSound == driven = "file" => File!AcceptedIsSound

\* What a lookup finds is what a text says, and all of the text was read.
ReadsWhatIsWritten == driven = "json" => Json!ReadsWhatIsWritten

\* The pieces in which a request arrives do not matter.
FramingIsExact == driven = "http" => Http!FramingIsExact

-----------------------------------------------------------------------------
(* Command lines and settings                                              *)

Words == {"--help", "--config", "--bind", "--port", "--allow-remote", "--verbose", "0.0.0.0", "80"}
Numerals == ("0" :> 0) @@ ("4" :> 4) @@ ("64" :> 64) @@ ("65" :> 65) @@ ("80" :> 80)
Setting(indent, key, value) == [form |-> "setting", indent |-> indent, key |-> key, value |-> value]
FileLines == {[form |-> "blank"], [form |-> "broken"], [form |-> "server"],
              Setting(2, "bind", "0.0.0.0"), Setting(2, "allow_remote", "true"),
              Setting(2, "allow_remote", "yes"), Setting(2, "port", "80"),
              Setting(4, "port", "80"), Setting(2, "worker_threads", "64"),
              Setting(2, "worker_threads", "65"), Setting(2, "queue_capacity", "4"),
              Setting(2, "queue_capacity", "64"), Setting(2, "auth_token_env", "TOKEN"),
              Setting(2, "allowed_origins", "http://a"), Setting(2, "allowed_origins", "http://a,"),
              Setting(2, "allowed_origins", "ftp://b,http://a")}
Parts == ("" :> <<>>) @@ ("http://a" :> <<"http://a">>) @@ ("http://a," :> <<"http://a", "">>)
         @@ ("ftp://b,http://a" :> <<"ftp://b", "http://a">>)

(* Model files: tensors that touch, overlap, leave gaps, repeat a name, are *)
(* not aligned, or whose size exceeds the word.                            *)
TypeBlocks == ("f32" :> <<1, 4>>) @@ ("q4" :> <<2, 5>>)
Tensor(name, shape, type, offset) ==
  [name |-> name, shape |-> shape, type |-> type, offset |-> offset, bytes |-> 40]
Directory == {Tensor(1, <<2>>, "f32", o) : o \in {0, 4, 32}}
             \cup {Tensor(2, <<2>>, "f32", o) : o \in {0, 8, 24}}
             \cup {Tensor(2, <<2, 2>>, "q4", 24), Tensor(1, <<3, 2>>, "q4", 0),
                   Tensor(3, <<2>>, "f32", 1016), Tensor(3, <<64, 64>>, "f32", 0),
                   Tensor(3, <<2>>, "unknown", 0)}
Entry(key, bytes, value) == [key |-> key, bytes |-> bytes, value |-> value]
Entries == {Entry("alignment", 16, v) : v \in {8, 12, 24}}
           \cup {Entry("architecture", 16, 0), Entry("other", 9, 0)}
Once == <<1, 1, 1>>
Member(name, fields, bits, shape, begin, end) ==
  [name |-> name, fields |-> fields, bits |-> bits, shape |-> shape, begin |-> begin, end |-> end]
Header == {Member(1, Once, 8, <<2>>, 0, 2), Member(2, Once, 8, <<2>>, 2, 4),
           Member(2, Once, 8, <<2>>, 0, 2), Member(2, Once, 8, <<3>>, 1, 4),
           Member(1, Once, 16, <<1, 2>>, 0, 4), Member(3, Once, 4, <<1>>, 4, 4),
           Member(3, Once, 4, <<1>>, 2, 3), Member(3, Once, 8, <<0, 3>>, 2, 2),
           Member(3, Once, 0, <<2>>, 0, 2), Member(3, <<1, 1, 0>>, 8, <<2>>, 0, 2),
           Member(1, <<1, 2, 1>>, 8, <<2>>, 0, 2)}
Wire(number, wire, bytes, value) == [number |-> number, wire |-> wire, bytes |-> bytes, value |-> value]
Protobuf == {Wire(0, 2, 8, 1), Wire(1, 0, 8, 2), Wire(1, 0, 8, 3), Wire(2, 2, 8, 1),
             Wire(5, 3, 8, 1), Wire(7, 2, 8, 0), Wire(7, 2, 8, 6), Wire(7, 2, 16, 14),
             Wire(8, 2, 8, 3), Wire(9, 5, 8, 0)}

(* JSON: values of up to three levels, objects with names that repeat and  *)
(* names that are too long, and every text one token away from those.      *)
Names2 == ("a" :> "a") @@ ("a2" :> "a") @@ ("b" :> "b") @@ ("long" :> "long")
Scalar == {<<"1">>, <<"b">>}
Values[levels \in 0 .. 3] ==
  IF levels = 0 THEN Scalar
  ELSE LET inner == Values[levels - 1]
       IN  Scalar \cup {<<"[", "]">>, <<"{", "}">>}
           \cup {<<"[">> \o v \o <<"]">> : v \in inner}
           \cup {<<"[", "[", "]", ",">> \o v \o <<"]">> : v \in inner}
           \cup {<<"{", "a", ":">> \o v \o <<"}">> : v \in inner}
Documents ==
  Values[3] \cup {<<"{", k, ":">> \o v \o <<"}">> : v \in Values[2], k \in {"a", "long"}}
  \cup {<<"{", k, ":">> \o v \o <<",", "a2", ":", "1", "}">> : v \in Values[1], k \in {"a", "b"}}
  \cup {<<"{", "a", ":", "1", ",", "b", ":", "b", ",", k, ":", "1", "}">> : k \in {"a2", "c"}}
JsonTokens == {"{", "}", "[", "]", ",", ":", "1", "a", "bad"}
JsonTexts ==
  UNION {{t} \cup {[t EXCEPT ![i] = x] : i \in DOMAIN t, x \in JsonTokens}
             \cup {RemoveAt(t, i) : i \in DOMAIN t}
             \cup {t \o <<x>> : x \in {",", "1", "}"}} : t \in Documents}

(* HTTP: up to three header lines, among them two of one name, a body that *)
(* is too short, too long or has NULs and blank lines in it.               *)
Of(name, value) == [name |-> name, value |-> value]
HeaderFields == ("cl0" :> Of("Content-Length", "0")) @@ ("cl2" :> Of("Content-Length", "2"))
                @@ ("cl9" :> Of("Content-Length", "9")) @@ ("clx" :> Of("Content-Length", "x"))
                @@ ("te" :> Of("Transfer-Encoding", "chunked"))
                @@ ("auth" :> Of("Authorization", "token")) @@ ("auth2" :> Of("Authorization", "other"))
                @@ ("key" :> Of("x-api-key", "token")) @@ ("key2" :> Of("x-api-key", "other"))
                @@ ("origin" :> Of("Origin", "allowed")) @@ ("origin2" :> Of("Origin", "other"))
                @@ ("other" :> Of("Accept", "all"))
Lengths == ("0" :> 0) @@ ("2" :> 2) @@ ("9" :> 9)
Symbols == DOMAIN HeaderFields \cup {"junk"}
HeaderParts == {<<>>} \cup {<<h, "nl">> : h \in Symbols} \cup {<<h, "nl", g, "nl">> : h, g \in Symbols}
               \cup {<<"auth", "nl", "cl2", "nl", g, "nl">> : g \in {"other", "cl2", "origin", "nul"}}
Bodies == {<<>>, <<"x">>, <<"x", "x">>, <<"x", "nul", "x">>, <<"x", "x", "x", "nl", "nl", "x">>}
ByteStreams == {<<s, "nl">> \o h \o <<"nl">> \o b : s \in {"GET", "MESSAGES", "OPTIONS", "bad"}, h \in HeaderParts, b \in Bodies}
               \cup {<<"GET", "nl", "nul", "nl", "nl">>, <<"GET", "nl", "auth", "nl">>}
=============================================================================
