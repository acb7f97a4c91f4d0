----------------------------- MODULE Execution ------------------------------
(***************************************************************************)
(* Tensor execution (execution.c, multimodal.c): the ONNX Runtime library  *)
(* is loaded on the first need, each ONNX model gets one session, and one  *)
(* request at a time runs through a chain of calls of which each can fail. *)
(* Projectors (GGUF files of architecture clip) are run here instead.      *)
(* held is what the runtime and the allocator have handed out and not got  *)
(* back; misused says that something was used or released while not held,  *)
(* or handed out again while held.                                         *)
(***************************************************************************)
EXTENDS Integers, Sequences, FiniteSets, Functions

CONSTANTS Onnx, Projectors,  \* models, by the container they were found to be
          Requests,    \* [shape, type, size, limit] with size the bytes sent
          Outputs,     \* [rank, type, count]: what the runtime can produce
          Width,       \* nya_tensor_element_size, 0 for a type not supported
          RankLimit,   \* 16
          MaxWord,     \* UINT64_MAX = SIZE_MAX
          Side, Table, \* patch_size and position_count of the projectors
          AudioWidth

Models == Onnx \cup Projectors

VARIABLES
  attempted, library, api, environment,   \* the statics of execution.c
  context,     \* models whose execution_context is set
  supported,   \* models whose inference_supported is 1
  job,         \* what the caller is in: [kind, model, step]
  request, output,
  local,       \* what the pointers of the running function refer to
  response,    \* what output_data holds: -1 none, else output_data_size
  reads,       \* <<input element, token>> read by the projector
  held, misused

statics == <<attempted, library, api, environment>>
records == <<context, supported>>
call    == <<job, request, output, local, response, reads>>
vars    == <<statics, records, call, held, misused>>

None == "none"
Idle == [kind |-> None, model |-> None, step |-> None]

\* Handles of the process, and of a model.
Of(kinds)  == {<<kind, None>> : kind \in kinds}
Session(m) == <<"session", m>>
Box(m)     == <<"context", m>>
Own        == Of({"library", "environment"})

Init == /\ attempted = FALSE /\ library = FALSE /\ api = FALSE /\ environment = FALSE
        /\ context = {} /\ supported = {}
        /\ job = Idle /\ request = None /\ output = None
        /\ local = {} /\ response = -1 /\ reads = {}
        /\ held = {} /\ misused = FALSE

\* Give back and take handles, having used others.
Hold(uses, returned, taken) ==
  /\ held' = (held \ returned) \cup taken
  /\ misused' = (misused \/ ~(uses \cup returned \subseteq held) \/ taken \cap held # {})

At(kind, step) == job.kind = kind /\ job.step = step
Go(step)       == job' = [job EXCEPT !.step = step]
Return         == /\ job' = Idle /\ request' = None /\ output' = None
                  /\ local' = {} /\ response' = -1 /\ reads' = {}
Keep           == UNCHANGED <<request, output, response, reads>>
Environment    == IF environment THEN Of({"environment"}) ELSE {}
Library        == IF library THEN Of({"library"}) ELSE {}

-----------------------------------------------------------------------------
(* Loading the runtime                                                     *)

Ready == api /\ environment

\* nya_ort_initialize: one attempt until the next shutdown, where it failed.
\* What was opened before the failing step stays, to be closed at shutdown.
Initialize(outcome) ==
  /\ At("attach", "initialize") /\ ~Ready
  /\ attempted' = TRUE
  /\ IF attempted
     THEN outcome = "refused" /\ UNCHANGED <<library, api, environment, held, misused>>
     ELSE /\ outcome \in {"no library", "no symbol", "no base", "no version", "no environment", "ready"}
          /\ library' = (outcome \notin {"no library", "no symbol"})
          /\ api' = (outcome = "ready")
          /\ environment' = (outcome = "ready")
          /\ Hold({}, {}, IF outcome \in {"no library", "no symbol"} THEN {}
                          ELSE IF outcome = "ready" THEN Own ELSE Of({"library"}))
  /\ IF outcome = "ready" THEN Go("options") /\ local' = {} /\ Keep ELSE Return
  /\ UNCHANGED records

IsReady == /\ At("attach", "initialize") /\ Ready
           /\ Go("options")
           /\ UNCHANGED <<statics, records, request, output, local, response, reads, held, misused>>

-----------------------------------------------------------------------------
(* Attaching a model                                                       *)

\* Mutant: a model that is attached is attached again.
AttachAgain(m) == job' = [kind |-> "attach", model |-> m,
                          step |-> IF m \in Onnx THEN "initialize" ELSE "projector"]

\* nya_ort_attach and nya_multimodal_attach up to their first outside call.
Attach(m) ==
  IF m \in context THEN job' = job
  ELSE job' = [kind |-> "attach", model |-> m,
               step |-> IF m \in Onnx THEN "initialize" ELSE "projector"]

AttachModel(m) == /\ job = Idle /\ Attach(m)
                  /\ UNCHANGED <<statics, records, request, output, local, response, reads, held, misused>>

\* CreateSessionOptions.
CreateOptions(ok) ==
  /\ At("attach", "options")
  /\ IF ok THEN Go("level") /\ local' = Of({"options"}) /\ Keep ELSE Return
  /\ Hold(Of({"environment"}), {}, IF ok THEN Of({"options"}) ELSE {})
  /\ UNCHANGED <<statics, records>>

\* SetSessionGraphOptimizationLevel; its failure releases the options.
SetLevel(ok) ==
  /\ At("attach", "level")
  /\ IF ok THEN Go("session") /\ local' = local /\ Keep ELSE Return
  /\ Hold(Of({"options"}), IF ok THEN {} ELSE local, {})
  /\ UNCHANGED <<statics, records>>

\* CreateSession; the options are released whatever comes of it.
CreateSession(ok) ==
  /\ At("attach", "session")
  /\ IF ok THEN Go("context") /\ local' = {Session(job.model)} /\ Keep ELSE Return
  /\ Hold(Of({"environment"}), Of({"options"}), IF ok THEN {Session(job.model)} ELSE {})
  /\ UNCHANGED <<statics, records>>

\* The context is allocated, or the session is released again.
AllocateContext(ok) ==
  /\ At("attach", "context")
  /\ IF ok THEN /\ context' = context \cup {job.model}
                /\ supported' = supported \cup {job.model}
                /\ Hold({}, {}, {Box(job.model)})
           ELSE UNCHANGED records /\ Hold({}, {Session(job.model)}, {})
  /\ Return /\ UNCHANGED statics

\* nya_llm_load_projector gives a whole context or none.
LoadProjector(ok) ==
  /\ At("attach", "projector")
  /\ IF ok THEN /\ context' = context \cup {job.model}
                /\ supported' = supported \cup {job.model}
                /\ Hold({}, {}, {Box(job.model)})
           ELSE UNCHANGED <<records, held, misused>>
  /\ Return /\ UNCHANGED statics

\* nya_ort_detach and nya_multimodal_detach.
Owned(m) == IF m \in Onnx THEN {Session(m), Box(m)} ELSE {Box(m)}

Detach(models) == /\ context' = context \ models
                  /\ supported' = supported \ models

\* nya_model_unload.
Unload(m) == /\ job = Idle
             /\ Detach({m})
             /\ Hold({}, IF m \in context THEN Owned(m) ELSE {}, {})
             /\ UNCHANGED <<statics, call>>

\* nya_model_registry_shutdown: every model is detached, then the environment
\* and the library go, and the next attach may try again.
Shutdown == /\ job = Idle
            /\ Detach(Models)
            /\ Hold({}, (UNION {Owned(m) : m \in context}) \cup (IF Ready THEN Environment ELSE {}) \cup Library, {})
            /\ attempted' = FALSE /\ library' = FALSE /\ api' = FALSE /\ environment' = FALSE
            /\ UNCHANGED call

-----------------------------------------------------------------------------
(* One request                                                             *)

\* The product of the dimensions, or 0 where one is not positive or the next
\* product would not fit a word.
Elements(shape) ==
  LET upTo[i \in 0 .. Len(shape)] ==
        IF i = 0 THEN 1
        ELSE IF shape[i] <= 0 \/ upTo[i - 1] = 0 THEN 0
        ELSE IF upTo[i - 1] > MaxWord \div shape[i] THEN 0
        ELSE upTo[i - 1] * shape[i]
  IN  upTo[Len(shape)]

\* The input bytes are exactly those the shape asks for.
InputFits(r, width, ranks) ==
  /\ width # 0 /\ Len(r.shape) \in ranks
  /\ Elements(r.shape) # 0
  /\ Elements(r.shape) <= MaxWord \div width
  /\ Elements(r.shape) * width = r.size

\* nya_execution_run on a model that is supported: the request is checked.
\* For a projector, wanted is what its kind of input asks of the shape.
SoftTokens(r) ==
  CASE r.name = "image_rgb" ->
         (r.shape[1] \div Side) * (r.shape[2] \div Side)
    [] OTHER -> r.shape[1]

Patch     == Side * Side * 3
Prefix(r) == IF r.name = "image_patches" THEN 2 ELSE 0   \* the position
Stride(r) == r.shape[2]

ShapeIsWanted(r) ==
  \/ r.name = "audio_features" /\ Len(r.shape) = 2 /\ r.shape[2] = AudioWidth
  \/ /\ r.name = "image_rgb" /\ Len(r.shape) = 3 /\ r.shape[3] = 3
     /\ \A i \in 1 .. 2 : r.shape[i] % Side = 0 /\ r.shape[i] \div Side <= Table
  \/ r.name = "image_patches" /\ Len(r.shape) = 2 /\ r.shape[2] = Patch + 2

\* One embedding value of four bytes for each token (output_width is 1 here).
ProjectorFits(r) ==
  /\ r.type = "f32" /\ InputFits(r, Width[r.type], 1 .. 3) /\ ShapeIsWanted(r)
  /\ SoftTokens(r) > 0 /\ SoftTokens(r) <= MaxWord \div 4 /\ SoftTokens(r) * 4 <= r.limit

\* A request that is refused has touched nothing.
BeginRun(m, r) ==
  /\ job = Idle
  /\ m \in supported /\ m \in context
  /\ IF m \in Onnx THEN InputFits(r, Width[r.type], 1 .. RankLimit) ELSE ProjectorFits(r)
  /\ job' = [kind |-> "run", model |-> m, step |-> IF m \in Onnx THEN "memory" ELSE "buffers"]
  /\ request' = r
  /\ UNCHANGED <<statics, records, output, local, response, reads, held, misused>>

\* The calls of nya_ort_run in their order, and what each hands out.
Chain == <<"memory", "input", "run", "shape", "type", "rank", "dimensions", "count", "size", "data">>
Gives(step) == CASE step = "memory" -> Of({"memory"})
                 [] step = "input"  -> Of({"input"})
                 [] step = "run"    -> Of({"output"})
                 [] step = "shape"  -> Of({"shape"})
                 [] OTHER           -> {}
Uses(step)  == CASE step = "memory" -> {}
                 [] step = "input"  -> Of({"memory"})
                 [] step = "run"    -> Of({"input"}) \cup {Session(job.model)}
                 [] step \in {"shape", "data"} -> Of({"output"})
                 [] OTHER           -> Of({"shape"})
After(step) == Chain[1 + CHOOSE i \in 1 .. Len(Chain) - 1 : Chain[i] = step]

\* What the label failure releases: every pointer that is not null.
FailureReleases == local

Fail(uses) == Return /\ Hold(uses, FailureReleases, {})

\* One call into the runtime.
RuntimeCall(ok) ==
  /\ job.kind = "run"
  /\ job.step \in Range(Chain) \ {"size", "data"}
  /\ IF ok /\ (job.step = "rank" => output.rank <= RankLimit)
     THEN /\ Go(After(job.step))
          /\ local' = local \cup Gives(job.step)
          /\ Hold(Uses(job.step), {}, Gives(job.step))
          /\ output' \in IF job.step = "run" THEN Outputs ELSE {output}
          /\ UNCHANGED <<request, response, reads>>
     ELSE Fail(Uses(job.step))
  /\ UNCHANGED <<statics, records>>

\* The size of the output is checked, and a copy of that size allocated.
OutputFits == /\ Width[output.type] # 0
              /\ output.count <= MaxWord \div Width[output.type]
              /\ request.limit # 0
              /\ output.count * Width[output.type] <= request.limit

AllocateOutput(ok) ==
  /\ At("run", "size")
  /\ IF ok /\ OutputFits
     THEN /\ Go("data") /\ local' = local \cup Of({"data"}) /\ Hold({}, {}, Of({"data"}))
          /\ Keep
     ELSE Fail({})
  /\ UNCHANGED <<statics, records>>

\* The bytes are copied out, and all but the copy goes back.
CopyOutput(ok) ==
  /\ At("run", "data")
  /\ IF ok THEN /\ Go("answer") /\ local' = Of({"data"})
                /\ response' = output.count * Width[output.type]
                /\ Hold(Of({"output"}), local \ Of({"data"}), {})
                /\ UNCHANGED <<request, output, reads>>
           ELSE Fail(Of({"output"}))
  /\ UNCHANGED <<statics, records>>

\* nya_multimodal_run: values are looked at, the three buffers allocated; where
\* one of them is missing, those that are not are freed.
AllocateBuffers(given) ==
  /\ At("run", "buffers")
  /\ given \subseteq {"scratch", "hidden", "data"}
  /\ IF Cardinality(given) = 3
     THEN Go("token") /\ local' = Of(given) /\ Hold({}, {}, Of(given)) /\ Keep
     ELSE Return /\ UNCHANGED <<held, misused>>
  /\ UNCHANGED <<statics, records>>

\* Where place k of the patch of token t is read from.
Element(r, t, channel, row, col) ==
  LET columns == r.shape[2] \div Side
      x == t % columns
      y == t \div columns
  IN  ((y * Side + row) * r.shape[2] + x * Side + col) * 3 + channel

TokenReads(r, t) ==
  IF r.name = "image_rgb"
  THEN {<<Element(r, t, channel, row, col), t, (channel * Side + row) * Side + col>> :
          channel \in 0 .. 2, row \in 0 .. Side - 1, col \in 0 .. Side - 1}
  ELSE {<<t * Stride(r) + j, t, j - Prefix(r)>> : j \in 0 .. Stride(r) - 1}

Done == Cardinality({read[2] : read \in reads})

\* One token; a position outside the table, or a result that is not finite at
\* the end, frees the three buffers.
ProjectToken(ok) ==
  /\ At("run", "token")
  /\ IF Done = SoftTokens(request)
     THEN IF ok THEN /\ Go("answer") /\ local' = Of({"data"})
                     /\ response' = SoftTokens(request) * 4
                     /\ Hold({}, local \ Of({"data"}), {})
                     /\ UNCHANGED <<request, output, reads>>
                ELSE Fail({})
     ELSE IF ok \/ request.name # "image_patches"
     THEN /\ reads' = reads \cup TokenReads(request, Done)
          /\ Hold(local, {}, {})
          /\ UNCHANGED <<job, request, output, local, response>>
     ELSE Fail({})
  /\ UNCHANGED <<statics, records>>

\* The answer is sent, then nya_execution_response_free.
FreeResponse == /\ At("run", "answer")
                /\ Return /\ Hold({}, local, {})
                /\ UNCHANGED <<statics, records>>

-----------------------------------------------------------------------------

Loading == \/ IsReady
           \/ \E o \in {"refused", "no library", "no symbol", "no base", "no version", "no environment", "ready"} : Initialize(o)

Attaching == \/ \E m \in Models : AttachModel(m) \/ Unload(m)
             \/ \E ok \in BOOLEAN : CreateOptions(ok) \/ SetLevel(ok) \/ CreateSession(ok)
                                    \/ AllocateContext(ok) \/ LoadProjector(ok)
             \/ Shutdown

Running == \/ \E m \in Models, r \in Requests : BeginRun(m, r)
           \/ \E ok \in BOOLEAN : RuntimeCall(ok) \/ AllocateOutput(ok) \/ CopyOutput(ok) \/ ProjectToken(ok)
           \/ \E given \in SUBSET {"scratch", "hidden", "data"} : AllocateBuffers(given)
           \/ FreeResponse

Next == Loading \/ Attaching \/ Running
Spec == Init /\ [][Next]_vars

-----------------------------------------------------------------------------
(* Properties                                                              *)

\* The values of a tensor, however many.
Volume(shape) ==
  LET product[i \in 0 .. Len(shape)] == IF i = 0 THEN 1 ELSE product[i - 1] * shape[i]
  IN  product[Len(shape)]

\* Where each value of an image, rows of pixels of three channels, belongs.
Belongs(r, e) ==
  LET x == (e \div 3) % r.shape[2]
      y == e \div (3 * r.shape[2])
  IN  <<e, ((y \div Side) * (r.shape[2] \div Side)) + (x \div Side),
        (((e % 3) * Side) + (y % Side)) * Side + (x % Side)>>

(* Whichever call fails, nothing is released twice, used after its release *)
(* or lost: between requests only the library, the environment and one     *)
(* session and record for each attached model are held, nothing after a    *)
(* shutdown.  An answer has the bytes its shape means, within the limit,   *)
(* from an input that had the bytes its own shape means; a projector takes *)
(* every value of an image once, into its own place in its own patch.      *)
ExecutionIsExact ==
  /\ ~misused
  /\ job = Idle => held = Library \cup Environment \cup UNION {Owned(m) : m \in context}
  /\ context = supported
  /\ At("run", "answer") =>
       /\ request.size = Volume(request.shape) * Width[request.type]
       /\ response <= request.limit
       /\ IF job.model \in Onnx THEN response = output.count * Width[output.type]
          ELSE /\ response = 4 * SoftTokens(request)
               /\ {read[1] : read \in reads} = 0 .. Volume(request.shape) - 1
               /\ request.name = "image_rgb" =>
                    reads = {Belongs(request, e) : e \in 0 .. Volume(request.shape) - 1}
=============================================================================
