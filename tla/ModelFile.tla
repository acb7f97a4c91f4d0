----------------------------- MODULE ModelFile ------------------------------
(***************************************************************************)
(* What the engine believes about a model file before it loads it:         *)
(* nya_format_inspect (format.c) and the directories of GGUF               *)
(* (format_gguf.c), SafeTensors (format_safetensors.c) and ONNX files      *)
(* (format_onnx.c).  A file is a sequence of entries, drawn as they are    *)
(* read; an entry says how many bytes it takes and what it declares.  A    *)
(* name is a number, its place in the order of names; sizes are bytes; the *)
(* 64-bit word is cut down to MaxWord.                                     *)
(***************************************************************************)
EXTENDS Integers, Sequences, FiniteSets, Functions

CONSTANTS Sizes,         \* lengths a file may have
          Metadata,      \* [key, bytes, value]: GGUF metadata
          Tensors,       \* [name, shape, type, offset, bytes]: GGUF directory
          Members,       \* [name, fields, bits, shape, begin, end]: SafeTensors
          Fields,        \* [number, wire, bytes, value]: ONNX
          Blocks,        \* nya_gguf_blocks: type -> <<elements, bytes>>
          HeaderLengths, \* SafeTensors headers
          MaxCount,      \* entries of a file (bound)
          MaxWord        \* UINT64_MAX (bound)

VARIABLES
  pc, kind, size,       \* where the inspection is, the format, file_size
  position,             \* the reader's cursor
  counts,               \* metadata and tensors still to be read
  alignment,            \* of GGUF data; header_length of SafeTensors
  dir,                  \* the entries read
  ranges,               \* ranges, intervals
  result, information   \* what is returned, what is published

vars == <<pc, kind, size, position, counts, alignment, dir, ranges, result, information>>

\* The cleared structure, which the inspection fills in as it goes.
Nothing == [version |-> 0, tensors |-> 0, data_offset |-> 0]

Init == /\ pc = "open" /\ kind = "none" /\ size \in Sizes
        /\ position = 0 /\ counts = <<0, 0>>
        /\ alignment = 32
        /\ dir = <<>> /\ ranges = <<>>
        /\ result = "none" /\ information = Nothing

Give(r) == pc' = "close" /\ result' = r

Product(shape) == LET count[i \in 0 .. Len(shape)] == IF i = 0 THEN 1 ELSE count[i - 1] * shape[i]
                  IN  count[Len(shape)]

\* element_count > UINT64_MAX / extent, at every extent.
Countable(shape) == \A i \in 1 .. Len(shape) : Product(SubSeq(shape, 1, i)) <= MaxWord

-----------------------------------------------------------------------------
(* nya_format_inspect: the file is opened, measured and recognized.         *)

OpenFails == /\ pc = "open"
             /\ pc' = "done" /\ result' = "IO_ERROR"
             /\ UNCHANGED <<kind, size, position, counts, alignment, dir, ranges, information>>

\* The prefix says GGUF; the extension says the others.
Recognize(k) ==
  /\ pc = "open"
  /\ kind' = k
  /\ IF k = "unknown" THEN Give("UNSUPPORTED") ELSE pc' = "header" /\ UNCHANGED result
  /\ UNCHANGED <<size, position, counts, alignment, dir, ranges, information>>

\* Mutant: the size is not looked at again.
CloseUnseen(changed) ==
  /\ pc = "close" /\ pc' = "done"
  /\ size' = IF changed THEN size - 1 ELSE size
  /\ information' = IF result = "OK" THEN information ELSE Nothing
  /\ UNCHANGED <<kind, position, counts, alignment, dir, ranges, result>>

\* The file may have been truncated or extended since it was measured, and a
\* failed inspection clears what it has published so far.
Close(changed) ==
  /\ pc = "close" /\ pc' = "done"
  /\ size' = IF changed THEN size - 1 ELSE size
  /\ result' = IF changed THEN "IO_ERROR" ELSE result
  /\ information' = IF result' = "OK" THEN information ELSE Nothing
  /\ UNCHANGED <<kind, position, counts, alignment, dir, ranges>>

\* nya_reader_read and nya_reader_skip: the cursor never leaves the file.
Available(n) == n <= size - position

\* A read fails, or the bytes are not what the format says: another magic or
\* version, text that is not UTF-8 or JSON, a varint without end; or a count
\* exceeds its limit or the memory.
Unreadable(r) == /\ pc \in {"header", "metadata", "tensors", "members", "fields"}
                 /\ r = "RESOURCE_LIMIT" => kind # "onnx"
                 /\ Give(r)
                 /\ UNCHANGED <<kind, size, position, counts, alignment, dir, ranges, information>>

-----------------------------------------------------------------------------
(* nya_gguf_inspect                                                        *)

\* The number of tensors is published before any of them has been read.
GgufHeader(version, metadata_count, tensor_count) ==
  /\ pc = "header" /\ kind = "gguf"
  /\ IF Available(24)
     THEN /\ position' = position + 24 /\ counts' = <<metadata_count, tensor_count>>
          /\ information' = [information EXCEPT !.version = version, !.tensors = tensor_count]
          /\ pc' = "metadata" /\ UNCHANGED result
     ELSE Give("INVALID") /\ UNCHANGED <<position, counts, information>>
  /\ UNCHANGED <<kind, size, alignment, dir, ranges>>

Seen(key) == \E i \in DOMAIN dir : "key" \in DOMAIN dir[i] /\ dir[i].key = key

\* The two captured keys come at most once; other values are skipped.
ReadMetadata(entry) ==
  /\ pc = "metadata" /\ counts[1] > 0
  /\ dir' = Append(dir, entry)
  /\ IF Available(entry.bytes) /\ (entry.key \in {"architecture", "alignment"} => ~Seen(entry.key))
     THEN /\ position' = position + entry.bytes
          /\ counts' = [counts EXCEPT ![1] = @ - 1]
          /\ alignment' = IF entry.key = "alignment" THEN entry.value ELSE alignment
          /\ UNCHANGED <<pc, result>>
     ELSE Give("INVALID") /\ UNCHANGED <<position, counts, alignment>>
  /\ UNCHANGED <<kind, size, ranges, information>>

\* A directory entry has at least 33 bytes, whatever the header promises.
EndMetadata ==
  /\ pc = "metadata" /\ counts[1] = 0
  /\ IF alignment >= 8 /\ alignment % 8 = 0 /\ counts[2] <= (size - position) \div 33
     THEN pc' = "tensors" /\ UNCHANGED result
     ELSE Give("INVALID")
  /\ UNCHANGED <<kind, size, position, counts, alignment, dir, ranges, information>>

RowsAreWhole(t) == t.shape[1] % Blocks[t.type][1] = 0
ByteCount(t) == (Product(t.shape) \div Blocks[t.type][1]) * Blocks[t.type][2]

\* Neither the length nor the end of the payload leaves the word.
Fits(t) == ByteCount(t) <= MaxWord /\ t.offset <= MaxWord - ByteCount(t)

\* One directory entry becomes a range of the data.
ReadTensor(t) ==
  /\ pc = "tensors" /\ counts[2] > 0
  /\ dir' = Append(dir, t)
  /\ LET shaped == /\ Available(t.bytes)
                   /\ Len(t.shape) \in 1 .. 4
                   /\ \A i \in DOMAIN t.shape : t.shape[i] \in 1 .. MaxWord \div 2
                   /\ Countable(t.shape)
                   /\ t.offset % alignment = 0
     IN  \/ /\ shaped /\ t.type \in DOMAIN Blocks
            /\ RowsAreWhole(t) /\ Fits(t)
            /\ ranges' = Append(ranges, [name |-> t.name, begin |-> t.offset,
                                         end |-> (t.offset + ByteCount(t)) % (MaxWord + 1)])
            /\ position' = position + t.bytes
            /\ counts' = [counts EXCEPT ![2] = @ - 1]
            /\ UNCHANGED <<pc, result>>
         \/ /\ shaped /\ t.type \notin DOMAIN Blocks
            /\ Give("UNSUPPORTED") /\ UNCHANGED <<ranges, position, counts>>
         \/ /\ ~shaped \/ (t.type \in DOMAIN Blocks /\ ~(RowsAreWhole(t) /\ Fits(t)))
            /\ Give("INVALID") /\ UNCHANGED <<ranges, position, counts>>
  /\ UNCHANGED <<kind, size, alignment, information>>

\* Any multiple of eight is an alignment, so the padding is a remainder.
Padding == (alignment - (position % alignment)) % alignment

ByName(l, r) == l.name < r.name
ByBegin(l, r) == l.begin < r.begin

\* qsort: no element comes before a lesser one, and of two that are alike either
\* may come first.
Arranged(s, less(_, _)) ==
  {t \in {[i \in DOMAIN s |-> s[p[i]]] : p \in Bijection(DOMAIN s, DOMAIN s)} :
     \A i, j \in DOMAIN s : i < j => ~less(t[j], t[i])}

\* Two sorts, each followed by a comparison of neighbours.
CheckGguf ==
  /\ pc = "tensors" /\ counts[2] = 0
  /\ \E named \in Arranged(ranges, ByName), ordered \in Arranged(ranges, ByBegin) :
       LET start == position + Padding
       IN  IF /\ start <= size
              /\ \A i \in 2 .. Len(ranges) : named[i - 1].name # named[i].name
              /\ \A i \in 1 .. Len(ranges) : /\ ordered[i].end <= size - start
                                             /\ i > 1 => ordered[i].begin >= ordered[i - 1].end
           THEN /\ Give("OK")
                /\ information' = [information EXCEPT !.data_offset = start]
           ELSE Give("INVALID") /\ UNCHANGED information
  /\ UNCHANGED <<kind, size, position, counts, alignment, dir, ranges>>

-----------------------------------------------------------------------------
(* nya_safetensors_inspect                                                 *)

\* The header is a JSON object of header_length bytes behind its length.
SafeHeader(length) ==
  /\ pc = "header" /\ kind = "safetensors"
  /\ alignment' = length
  /\ IF Available(8) /\ length <= size - 8
     THEN pc' = "members" /\ position' = 8 + length /\ UNCHANGED result
     ELSE Give("INVALID") /\ UNCHANGED position
  /\ UNCHANGED <<kind, size, counts, dir, ranges, information>>

\* dtype, shape and data_offsets are there once each, and the shape fills the
\* range with whole bytes.
Describes(m) == /\ m.fields = <<1, 1, 1>>
                /\ m.bits # 0
                /\ Countable(m.shape) /\ Product(m.shape) <= MaxWord \div m.bits
                /\ m.begin <= m.end
                /\ (Product(m.shape) * m.bits) % 8 = 0
                /\ m.end - m.begin = (Product(m.shape) * m.bits) \div 8

ReadMember(m) ==
  /\ pc = "members" /\ Len(dir) < MaxCount
  /\ dir' = Append(dir, m)
  /\ IF Describes(m)
     THEN /\ ranges' = Append(ranges, [name |-> m.name, begin |-> m.begin, end |-> m.end])
          /\ UNCHANGED <<pc, result>>
     ELSE Give("INVALID") /\ UNCHANGED ranges
  /\ UNCHANGED <<kind, size, position, counts, alignment, information>>

\* __metadata__, at most once.
ReadStrings == /\ pc = "members" /\ Len(dir) < MaxCount
               /\ dir' = Append(dir, [key |-> "__metadata__"])
               /\ IF Seen("__metadata__") THEN Give("INVALID") ELSE UNCHANGED <<pc, result>>
               /\ UNCHANGED <<kind, size, position, counts, alignment, ranges, information>>

ByBeginEnd(l, r) == l.begin < r.begin \/ (l.begin = r.begin /\ l.end < r.end)

\* Sorted by name and then by range: every byte of the data is described.
CheckSafe ==
  /\ pc = "members"
  /\ \E named \in Arranged(ranges, ByName), ordered \in Arranged(ranges, ByBeginEnd) :
       LET data     == size - position
           after(i) == IF i = 0 THEN 0 ELSE ordered[i].end
       IN  IF /\ \A i \in 2 .. Len(ranges) : named[i - 1].name # named[i].name
              /\ \A i \in 1 .. Len(ranges) : /\ ordered[i].begin = after(i - 1)
                                             /\ ordered[i].end <= data
              /\ after(Len(ranges)) = data
           THEN /\ Give("OK")
                /\ information' = [version |-> 1, tensors |-> Len(ranges), data_offset |-> position]
           ELSE Give("INVALID") /\ UNCHANGED information
  /\ UNCHANGED <<kind, size, position, counts, alignment, dir, ranges>>

-----------------------------------------------------------------------------
(* nya_onnx_inspect: the fields of the outermost message.                   *)

FieldsNamed(n) == {i \in DOMAIN dir : dir[i].number = n}

OnnxHeader == /\ pc = "header" /\ kind = "onnx"
              /\ pc' = "fields"
              /\ UNCHANGED <<kind, size, position, counts, alignment, dir, ranges, result, information>>

\* 1 ir_version, 2 producer, 7 graph, 8 operator sets.
FieldOk(f) ==
  /\ Available(f.bytes)
  /\ f.number > 0
  /\ CASE f.number = 1 -> f.wire = 0 /\ FieldsNamed(1) = {} /\ f.value > 0
       [] f.number = 2 -> f.wire = 2
       [] f.number = 7 -> f.wire = 2 /\ FieldsNamed(7) = {} /\ f.value > 0
       [] f.number = 8 -> f.wire = 2
       [] OTHER        -> f.wire \in {0, 1, 2, 5}

ReadField(f) ==
  /\ pc = "fields" /\ position < size
  /\ Len(dir) < MaxCount
  /\ dir' = Append(dir, f)
  /\ IF FieldOk(f)
     THEN /\ position' = position + f.bytes
          /\ information' = IF f.number = 1 THEN [information EXCEPT !.version = f.value]
                            ELSE information
          /\ UNCHANGED <<pc, result>>
     ELSE Give("INVALID") /\ UNCHANGED <<position, information>>
  /\ UNCHANGED <<kind, size, counts, alignment, ranges>>

\* Operator sets are mandatory from version 3 on.
CheckOnnx ==
  /\ pc = "fields" /\ position = size
  /\ IF /\ FieldsNamed(1) # {} /\ FieldsNamed(7) # {}
        /\ information.version >= 3 => FieldsNamed(8) # {}
     THEN Give("OK") ELSE Give("INVALID")
  /\ UNCHANGED <<kind, size, position, counts, alignment, dir, ranges, information>>

-----------------------------------------------------------------------------
Done == pc = "done" /\ UNCHANGED vars

Next == \/ OpenFails
        \/ \E k \in {"gguf", "safetensors", "onnx", "unknown"} : Recognize(k)
        \/ \E r \in {"INVALID", "RESOURCE_LIMIT"} : Unreadable(r)
        \/ \E version \in {2, 3}, m, t \in 0 .. MaxCount :
             m + t <= MaxCount /\ GgufHeader(version, m, t)
        \/ \E entry \in Metadata : ReadMetadata(entry)
        \/ EndMetadata
        \/ \E t \in Tensors : ReadTensor(t)
        \/ CheckGguf
        \/ \E length \in HeaderLengths : SafeHeader(length)
        \/ \E m \in Members : ReadMember(m)
        \/ ReadStrings \/ CheckSafe
        \/ OnnxHeader
        \/ \E f \in Fields : ReadField(f)
        \/ CheckOnnx
        \/ \E changed \in BOOLEAN : Close(changed)
        \/ Done

Spec == Init /\ [][Next]_vars

-----------------------------------------------------------------------------
(* Properties                                                              *)

Entries(field) == {i \in DOMAIN dir : field \in DOMAIN dir[i]}

\* The bytes a reader of the published information takes for tensor i.
Payload(i) == LET first == information.data_offset +
                             (IF kind = "gguf" THEN dir[i].offset ELSE dir[i].begin)
                  bytes == IF kind = "gguf" THEN ByteCount(dir[i]) ELSE dir[i].end - dir[i].begin
              IN  first .. first + bytes - 1

(* Whoever loads an accepted file by the published information reads       *)
(* inside the file as it is now; the published number of tensors is that   *)
(* of the directory, and no two tensors share a byte or a name; a GGUF     *)
(* tensor lies on its alignment in the file, and SafeTensors leave no byte *)
(* out; an ONNX model has a graph and the published version.  A refused    *)
(* file publishes nothing, however far its inspection had come.            *)
AcceptedIsSound ==
  pc = "done" =>
    IF result # "OK" THEN information = Nothing
    ELSE LET tensors == Entries("name")
         IN  /\ kind # "onnx" => information.tensors = Cardinality(tensors)
             /\ \A i \in tensors : Payload(i) \subseteq information.data_offset .. size - 1
             /\ \A i, j \in tensors :
                  i # j => dir[i].name # dir[j].name /\ Payload(i) \cap Payload(j) = {}
             /\ kind = "gguf" =>
                  \A i \in tensors : (information.data_offset + dir[i].offset) % alignment = 0
             /\ kind = "safetensors" =>
                  UNION {Payload(i) : i \in tensors} = information.data_offset .. size - 1
             /\ kind = "onnx" => \E i, j \in Entries("number") :
                                   /\ dir[i].number = 1 /\ dir[i].value = information.version
                                   /\ dir[j].number = 7
=============================================================================
