# Fyodor in TLA+

Fyodor is a native engine for language models: a C library that loads GGUF,
safetensors and ONNX files and runs them on the CPU or a device, an HTTP
server around it, a command-line trainer, a benchmark program, and a Tauri
desktop application that starts the server and the trainer. This directory
holds TLA+ models of the parts whose correctness depends on the order of
events, the TLC runs that check them, and machine-checked proofs of the
properties that matter most.

## Inventory

| Part | State it keeps | Operations | Modelled in |
|---|---|---|---|
| HTTP listener and worker pool (`server.c`, `main.c`) | socket ring, one slot per worker, stop flags, kernel descriptor table | accept, queue, refuse, take, receive, reply, close, stop, shutdown | `ServerPool`, abstract `ConnPool` |
| Model registry and handlers (`model.c`, `server.c`, `server_*.inc`) | array of models, `next_id`, contexts, devices, two mutexes | load, unload, list, info, run, generate, tokenize, compat, set compute | `ModelServing` |
| Row pools (`train_executor.c`, `cpu_backend.c`) | epoch, pending count, published job | create, execute, wait, free | `RowPool` |
| Training runs (`train_main.c`, `training.c`, `file.c`, `train_control.h`) | parameters, step, open files, control pipe | resume, evaluate, update, record, checkpoint, export, stop | `TrainRun` |
| Desktop application (`src-tauri/src/lib.rs`) | server process, trainer slot, exit waiter, window | start, status, stop, close, quit, exit | `Desktop` |
| Run state and sessions (`llm_cpu.c`, `resident.inc`) | KV caches on host and device, logits, accepted tokens | forward, prefill, replay, reset, run, read | `RunState`, `LlmSession` |
| Generation (`llm_cpu.c`) | two run states, response, counters | prefill, propose, verify, correct, bonus | `LlmDraft`, abstract `Generation` |
| Configuration and `main` (`config.c`, `main.c`) | settings, the load's own copy, what is initialized | scan options, load a file, validate, start, undo | `Settings` |
| HTTP and JSON parsing (`server.c`, `format_safetensors.c`) | received bytes, cursor, call stack | receive, check, validate, look up, reply | `HttpRequest`, `JsonText` |
| Model formats (`format.c`, `format_gguf.c`, `format_safetensors.c`, `format_onnx.c`) | cursor, entries, ranges | recognize, read entries, check, publish | `ModelFile` |
| Tensor execution (`execution.c`, `multimodal.c`) | process-wide runtime library, a session per model | initialize, attach, run, release, detach, shut down | `Execution` |
| Weight cache and its two backends (`vendor.c`, `rocm.c`, `mlx.c`) | LRU list and bytes, device memory, a shared library | create, probe, reserve, upload, multiply, destroy | `VendorCache`, `Rocm`, `Mlx` |
| Autograd (`training.c`) | tape of nodes, gradients, AdamW state | record, backward, zero, update | `Tape` |
| Chat client (`main.js`, `stream.js`, ...) | busy flags, chats, their store, one request | generate, edit, regenerate, clear, open, load, set compute, reload | `ChatClient`, without the model list |
| Binding of tensors, block decoding (`llm_gguf.c`, `llm_quant.c`) | the model's weights | bind, decode | not modelled |
| Numerics, tokenizers, device drivers | weights, activations | arithmetic | not modelled |

How the parts meet: the desktop application starts `fyodor-backend` (its
`main.c` runs the listener) and, one at a time, `fyodor-train`. It asks the
first to stop with `POST /shutdown` and the second with an `S` on its standard
input. A worker thread of the pool runs one request from receipt to reply; a
handler takes `execution_mutex`, then `model_mutex`, finds its model, lets
`model_mutex` go and computes. A generation request creates one run state for
the target and one for the draft. Inference and training both hand matrix rows
to a row pool, or a matrix product to a backend with a weight cache, which may
refuse it; the CPU then computes. A load inspects the file before anything
attaches to it; a tensor request runs in the ONNX Runtime or in a projector.
Every body of a request goes through one receive loop and one JSON validator.
Trainers of different times meet only in files.

What is hard to test here: descriptor numbers that the kernel recycles between
a close and a shutdown scan; wakeups of a condition variable against a stop; a
model unloaded or moved to another device while a request computes with it; a
counter that wraps; a trainer that exits between two looks at it; a stop, a
failed write or a kill at any step of a training run followed by a resume; a
device failure after a prefix was accepted; speculative decoding, which leaves
rows of refused tokens in two caches; memory released while a device stream may
still use it; a library unloaded under another user; chains of a dozen foreign
calls of which each can fail; sums that wrap in a file's directory; limits that
are tested on whatever one `recv` brought. `PROJECT.json` lists each of these
hazards at its line with the properties that cover it.

## Modules

**ConnPool** is what clients see of the server: connections wait in a bounded
line, are served one per worker, and each ends with exactly one fate.
**ServerPool** models `server.c` from `nya_server_workers_init` to the frees of
`nya_server_workers_shutdown`: `queue`, `head`, `tail`, `count`, `client` and
`shutting_down` are the fields of the same names; `table` is the process's
descriptor table, which other components open and close entries of at any
time; `listener` is the number of the listening socket, which is open when the
threads are created and closed at the shutdown before they are joined (a server
that cannot open or bind it has nothing else to close); `holder` is the owner
of `queue_mutex`. A critical section that touches
only protected state is one action; one that also closes descriptors is
several. A response of several `send` calls is one action. `ServerPool` implements
`ConnPool` (property `PoolSpec`).

**ModelServing** models `model.c` under the two locks of `server.c`. The heap is
explicit: `contexts` and `devices` are the allocated objects, `using` is the
snapshot a handler computes with after it released `model_mutex`. `Find` covers
the three handlers that look a model up and compute, `CompatTemplate` the route
that looks it up twice, `SwapCreate`/`SwapRelease` the change of a compute device.
Ids wrap at `MaxId` (2^64 - 1 in the code).

**RowPool** models the epoch pool shared by training and inference: the caller
publishes a job by advancing `epoch`, computes share 0, and returns when
`pending` is 0. `Prepare` precedes the mutex as in `cpu_matmul`; in the training
executor the fields are written inside it, which is one of its behaviours.

**TrainRun** models executions of `fyodor-train` over a common set of paths, one
action per operation that can fail or that another process can see. `model` is
the sequence of updates applied so far (learning rate, reference policy, batch
of records), so two parameter vectors are equal exactly when the same updates
made them. The identity hash of a run is abstracted to its inputs and
grouping, without collisions. Any operation may fail; a run may be killed at
any step. A file that is given up may stay where it is, as the result of its
removal is ignored (`Leftover`). Files are changed by trainers only.

**Desktop** models `lib.rs`. Commands and window events run one at a time on the
main thread; the waiting thread, the trainers and the server run beside it.
`exit(0)` queues an `ExitRequested` event. Errors of `try_wait` are choices;
poisoned mutexes are left out; exit status 1 stands for every failure.

**RunState** is a module of operators: what one forward pass, a prefill, a device
call or a replay makes of a run state. Cached rows, logits and hidden states
are represented by the token prefix they were computed from; a row computed
over rows that do not belong together is `Corrupt`. So stale data is visible
although no number is modelled. Layers, attention windows and numeric
differences between devices are abstracted. A device call without logits may
fail unseen (`doubt`) until a later call waits for the stream.
**LlmSession** is the session of `fyodor-bench` and of the conformance tests, one
action per call and one per token of the loop in `nya_llm_session_run`.

**Generation** is the promise of a request: tokens are drawn one by one from the
target's distribution for the text so far. **LlmDraft** models
`nya_llm_generate_draft` and `nya_llm_generate` with ordinary drafts, MTP
assistants and soft prompts; `target` and `draft` are two run states of
`RunState`, `phase` is the place in the loop. Sampling is a choice among the
tokens the distribution keeps; at temperature 0 that is one token. A proposal
the target may draw can be accepted, a refused one is replaced by another
choice: this is the support of the acceptance rule, not its probabilities.
Every operation that fails ends the request through `Abort`. `LlmDraft`
implements `Generation` (property `IsGeneration`), fairness included.

**ChatClient** models the event handlers of `main.js` on chats, one action per
handler or part of one between two awaits. `request` is `ui.request` with the
prompt and chat that `generate()` captured, `stored` what the last `save()` wrote.
Stop makes the pending request fail. A message that answers a prompt is
represented by that prompt. Settings, the model list and views are left out.

**Settings** is the life of `main` and of `nya_config_load`: the scan for `--help`
and `--config`, the file line by line into a copy that replaces the
configuration only at the end, the options, validation, the order in which
things are initialized and, one action each, undone. `staged` is the copy, `seen` the bits of
`seen_keys`. Which texts are numerals, addresses or origins is a constant.

**HttpRequest** is one connection seen by its worker. A stream is a sequence of
symbols (request line, CR LF, one symbol per header line, NUL, body bytes) that
arrives in pieces of any size; `Receive` is one turn of the loop of
`nya_http_receive`. What the header lines mean, the origin and token gates and
the pieces of a reply follow. **JsonText** has both JSON readers. They recurse,
so their call stack is the stack of open containers; `depth` and `keys` are the
limits. A whole string or number is one token, and what a string decodes to is
a constant, so two spellings of one name exist.

**ModelFile** models `nya_format_inspect` and the directories of the three formats.
An entry is drawn when it is read: how many bytes it takes and what it declares.
`ranges` is the array that the overlap checks sort; `qsort` leaves open where
equal elements end up, and so does `Arranged`. The 64-bit word is cut down
to `MaxWord`, with each test that guards a sum or a product against it. `information`
is filled in as the code does, in part before the check of what it says; `Close` clears
it if the inspection failed. Value
types of GGUF metadata and wire types of ONNX are one step each.

**Execution** has the statics of `execution.c` and the runs of ONNX sessions and
projectors, one action per call of the runtime, each of which can fail. `held`
is what the runtime and the allocator handed out and did not get back, `misused`
records a use or release of something not held. Provider operations happen under
`execution_mutex`, so one caller is enough.

**VendorCache** is a module of operators: the budget, the size checks of a matrix,
the list with its order of use, and eviction. **Rocm** models `rocm.c` over it:
every driver call can fail, submitted work stays in `pending` until the stream is
waited for, and `leaked` is what the driver refused to free. One assumption: a
stream that was waited for twice has ended, even when the waits failed. **Mlx**
models `mlx.c`: the library counted by its users, of which `Others` come and go
beside the context modelled in full, and the arrays of one product.

**Tape** is the graph of `training.c` for inputs, leaves, sums, products, scaling,
slices, reshapes, linear maps, frozen maps and embeddings, its backward pass
node by node, and AdamW. Numbers are integers, finite up to `Finite`, so
overflow to infinity exists. The gradients are compared with `Tangent`, which
differentiates forward and shares nothing with the backward pass. The
arithmetic of AdamW is a plain descent; which parameters a step reaches, and that
a refused step reaches none, is modelled.

The MC modules give constants their values for TLC. Four of them put components
that share no state side by side, to check them in one run: `MCServing`
(`ModelServing`, `ChatClient`), `MCCalls` (`RowPool`, `ModelServing` with fairness),
`MCEngine` (`LlmSession`, `Execution`, `Rocm`, `Mlx`, `Tape`) and `MCInputs` (`Settings`,
`ModelFile`, `JsonText`, `HttpRequest`). Each behaviour drives one of them and
leaves the others as they started, or unused.

## Runs

| Run | Question | Bounds |
|---|---|---|
| `server_pool` | Safety of the pool and refinement of `ConnPool` | 2 workers, ring of 2, 3 connections, 4 descriptors |
| `server_pool_live` | Queued clients are taken, a stop ends in a join | 2 connections, 3 descriptors, of which others open one |
| `server_pool_finish` | Do active requests finish at shutdown? No | 2 connections, 3 descriptors |
| `model_serving` | Snapshots, ids and registry under all requests; answers stay with their prompts | 2 workers, 2 files, ids that wrap after 3, room for 2 models, 1 swap; or 2 chats, 2 prompts, 4 messages, 2 pending actions |
| `calls` | Each row once, calls return; a listing responds, requests end | 3 threads, 5 rows, 3 jobs, epoch of 2 values; or 2 workers, 1 file, ids to 2, 1 swap |
| `train_run` | Resume, files, metrics, stop, termination | 2 runs, 3 paths, data sets of 3 and 2 records, 3 updates |
| `desktop` | One trainer, saving before leaving | 2 trainings, 2 waiters, 3 closes, 2 polls |
| `desktop_close` | Does a failed save keep the window? Not always | as `desktop` |
| `engine` | What a caller reads is exact, and nothing is used after its release or kept | a session of 3 tokens; 2 ONNX models and 2 projectors, words to 255; caches of several budgets, 7 matrices, 2 other MLX users; graphs of 4 and 2 nodes |
| `inputs` | The program runs with what was written, wherever the flaw is | command lines and files of 5 words and lines; 7 sizes of model files, 3 entries; JSON of 3 levels and every text one token away; streams of up to 3 header lines |
| `chat_regenerate` | Does a chat keep its history? Not while a model loads | as the chats of `model_serving` |
| `llm_draft` | Speculation changes nothing | limits 1 and 4, windows 1 and 3, prompts of 1 and 2, vocabulary of 3 |

Why these are enough. The ring of two wraps and fills with three connections,
and the three descriptors beside the listening socket's, or all four when it is closed,
are reused by connections and by strangers. Two workers
can hold both locks or wait for each other; two files and a wrapped id give a
client a stale id. Three threads with five rows give uneven shares, an epoch of
two values wraps within three jobs. Two runs suffice because runs meet only in
files, of which each complete one keeps its content. Groups of two wrap at the
end of three records. A limit of four lets a round be refused, its rows go
stale, and two more rounds write over them; window 3 is cut by the limit.
Two chats and two prompts tell an answer in the wrong place, four messages are
two exchanges, and two pending actions end one after the other. Five words and
lines hold an option given twice, an option that overrides a file of one line, or a
file of three lines, in which a key repeats or the last line is broken. Three
entries are two neighbours and one that overlaps, repeats or disorders them;
words of 255 and 1023 are small enough for the sums and products of the
directories and shapes to exceed them. Three levels of JSON exceed the depth
limit of the instance, and three keys its limit of keys. A capacity of 11 is
reached by headers, by a body and by what follows it. The budgets of the caches
hold none, one or several of the matrices, so an upload evicts none, one or all
of the others. A second
graph adds to the gradients that the first one left. The end of the
file table or more than two updates after a resume add no
new order of events.

Five runs use a specification with fairness: `server_pool_live`, `calls`,
`train_run`, `desktop` and `llm_draft`. Threads of the
server and of the models are scheduled, and one that asks for a mutex again
and again gets it (strong fairness), since every critical section ends;
clients, signals and spurious wakeups are assumed nothing of. Nothing forces
an inference to end in `ListingResponds`. A trainer process keeps running (weak
fairness on its steps), nobody forces a controller to stop it. The desktop's
event queue is served between commands (strong fairness on `HandleExit`), its
other threads run; a trainer that was not asked to stop may run for ever. A
generation request is one thread that runs to its end.

Each property names the behaviour it guards in the comment above it. A type
invariant keeps the bounds that the code could break (ring indices, ids, the
pending count, positions in buffers); it is a part of `RegistryIsExact`,
`OneTrainer`, `OutcomesAreExact`, `CountsAreExact` and `SessionReadsAreExact` in their
modules, and a property of its own in `server_pool` and `calls`.

## Findings

* `server_pool_finish`: the comment at `server.c:2630` says that workers finish
  active requests. `nya_socket_wait` returns an error as soon as a stop is
  requested, for writes too (`server.c:653`), so the response of a request that
  was received and computed is dropped.
* `desktop_close`: `frontend/README.md:28` says that a failed training save keeps
  the window open with the error log. When the save fails after `CloseRequested`
  looked at the trainer (`lib.rs:601`) and before `ExitRequested` looks again
  (`lib.rs:634`), the application leaves at once.

* `chat_regenerate`: `frontend/README.md:34` says that chat preserves conversation
  history. Regenerate, and Edit & resend, cut the messages after a test of `busy`
  alone (`main.js:313`, `main.js:348`), and `generate()` then returns because
  `actionBusy` is set (`main.js:233`): while a model loads, the click deletes the
  exchange and sends nothing.

## Proofs

TLAPS checks the following for every value of the constants that satisfies
the named assumptions of the module.

**ServerPoolProofs** proves `TypeOK`, `OneOwner`, `NoStrayInterrupt`, `NoLostWakeup`,
`CleanShutdown` and the refinement `PoolSpec` of `ConnPool`. `OneOwner` is not inductive: after `close` the number can be
reused before the slot is cleared. The inductive invariant adds what the mutex
holder implies (who is between two steps of one critical section), which ring
positions are occupied and by which numbers, that a worker before its receipt
owns a live descriptor, and that after the scan no number is queued that was
cut. A part of its own (`ListenInv`) says that the listening socket is in the table under
the server's number, and nowhere else, until it is closed, so no number the pool closes
is the listener's. Each action is one step of `Invariance`, each conjunct it can disturb a step
under it. The refinement needs one more invariant, `OpenInv`: a connection that
waits or is being answered has no fate yet. The line of `ConnPool` is the ring read
from `head`, so the lemmas about ring positions (`PlacesOccupied`, `PlacesMove`) say
that its places are distinct and move up by one when the head is taken
(`LineShrinks`); the connection at the door is the one in the accepting thread's
hand (`DoorIsHand`), and a worker that serves nobody leaves room for one more
(`ServedRoom`). Then every action is one step of `ConnPool` or a stutter (`MapStep`).

**ModelServingProofs** proves `SnapshotsStayValid`, `RunsWhatWasAsked` and
`RegistryIsExact` for any number of workers and files, any limit of the registry
and any width of the id counter. `RegistryIsExact` says nothing while a provider
operation is under way, so the inductive invariant says at each point of a
handler which mutexes its worker holds (`Locks`), what it was asked (`Asked`), and
what may then be out of step: a context made before its record is published
or released before its record is removed, a device replaced and not yet freed
(`Contexts`, `Devices`). What an inference reads stays valid because releasing
needs `execution_mutex`, which it holds (`Snapshot`). An id names one file because
ids are new until the counter has wrapped, and then every load is refused
(`Records`).

The same module proves `ChatsAreOrdered` of the window's side of `MCServing`. Its
invariant (`ChatInv`) asks the order of the chats in memory and of those in the
store, since a reload takes the latter, and that a request's chat ends with its
prompt in both. Sequences with that order keep it when a prompt is appended, when
an answer is appended behind its prompt and when they are cut anywhere
(`OrderedPrompt`, `OrderedAnswer`, `OrderedPrefix`). What lets a captured chat be
written after other user actions is that those need `busy` to be false, or leave
the chat's messages alone.

**TrainingProofs** proves `TrainedInOrder`, `OutcomesAreExact`, `MetricsAreExact`,
`StopIsPrompt` and the action property `CompleteFilesAreKept` for any number of
executions with any command lines over any paths and data sets of any size. The
invariant of a run has where it is in the loop and what it knows there
(`Control`), its parameters, gradients and place in the data (`Trained`), why it
ended and what it applied after a stop (`Ended`), and the files it is writing or
has written (`OwnFiles`). `Sound` says what a file of each kind holds, whoever left
it, which is what a resume relies on: a checkpoint on disk is one that an
uninterrupted run would have written. Runs disturb one another only
through files, and a step writes only a path that is absent or its own
(`Writes`), so each conjunct is proved for the run that moves and carried over
for the rest. `BatchStart` is the one recursion: the loop of `batch_start` adds
with a wrap instead of multiplying. A function that satisfies its equation is
given, and two that do agree because the set of places where they differ has no
least element; so it is (step * accumulate) % count (`BatchStartIs`).

A file that could not be removed tells nothing but which execution left it (`GaveUp`: one
that failed), and a resume refuses it.

The same module proves `OneTrainer`, `OneWaiter` and `NothingLeftBehind` of the
application that starts the trainers (`Desktop`, whose `AppInit`, `AppNext` and `AppSpec`
are named so for that), for any number of trainings, threads and requests to
leave. The invariant (`AppInv`) adds that
trainings start in order and the slot holds none or the last (`Slots`), that the
slot does not change while `S` is being written (`Writing`), and that a thread that
waits beside an empty slot finds an exit status (`Waiting`). That nothing runs
when the application leaves follows since only the process in the slot can run.

**RunStateProofs** has the lemmas on one run state that the next two modules cite:
if the state `Holds` what a pass after the tokens p needs, every pass over further
tokens q, on the host, on a device or replayed after a device fault, either
fails or leaves a state that holds p followed by q and, if asked, has its
logits (`PassHolds`); and a state that holds a text holds each of its prefixes
(`HoldsPrefix`), which is why a refused suffix may be left in the caches.
**EngineProofs** uses them for `SessionReadsAreExact`. A session that failed may hold
anything; one that did not holds its accepted tokens.

It also proves `RocmIsExact` and `MlxIsExact`, from `EngineAssumption`: sizes are
naturals and the probe's matrix can be counted. First come lemmas on the cache
(`CountedFront`, `CountedFound`, `CountedKept`): adding an entry, moving one to the
front and dropping the last ones keep a list without duplicates whose bytes are
counted. `Total` and `Kept` are recursive functions, treated like `BatchStart` with
the least element of a set. The ROCm invariant says which resources exist at each
time of the context's life (`HipLife`), that the room made for the scratch
buffers or a weight is still there when it is used (`HipBudget`), what the product
has got so far (`HipProduct`), and that what is held is owned, being uploaded or
was refused by the driver, with nothing pending while memory may be freed
(`HipMemory`); `RocmIsExact` alone is not inductive, as it speaks of memory only
between products. The MLX invariant counts the context's reference from its
creation to its destruction (`MlxLife`) and says that what is held is in the cache
or in a local variable of the product (`MlxArrays`).

`ExecutionIsExact` is proved there too, for any models, outputs of the runtime and
requests whose dimensions are integers, and any patch size but 0, which loading a
projector refuses (`TensorAssumption`). The invariant (`TensorInv`) gives for each
step of an attach or a run the handles the running function holds (`TensorHandles`:
exactly those that `Names` lists, beside the library's, the environment's and the
attached models', which no step may lose), that a run's model stays attached
(`TensorJob`), and which checks of the request are behind it (`TensorAnswer`). A
request that passed them sent as many bytes as its shape has values, whose product
no step of the loop let wrap (`ElementsAreVolume`). That a projector
reads each value of an image once and into its place is arithmetic: an element's
number is its row of patches, row in the patch, patch, pixel in that row and
channel, packed with the sides as radices, and every number below the volume
unpacks in one way (`Pack`, `Unpack`, `PixelPlace`, `PixelFound`), so the reads of all tokens are the
elements of the image (`ImageReads`).

**TapeProofs** proves `GradientsAreExact`. `TapeAssumption` says that values are integers
and that a tensor has a row and a column, a slice a column and an embedding an
identifier: the code refuses the others (`tr_node`, `nya_train_slice_columns`,
`nya_train_embedding`). Sums are folds over sets in any order, so the first part shows
that `Sum` is a sum: adding, scaling, splitting, renaming and exchanging sums (`PartAdd`,
`PartTimes`, `PartFrom`, `PartMoved`, `PartSwap`). The second is about one operation: what its
backward step gives to the operands is the transpose of its derivative, that
is, the gradient of the result times the derivative of the result is the sum
of what the operands get times theirs (`Flows`; `Adjoint` for linear maps, `Scatter`
for what copies or sums elements; one lemma for each operation, `EveryFlow`). The third is
about the walk. The derivatives of all nodes are a recursion over the graph, given
as a function that satisfies its equation (`TangentsExist`). The `Worth` of a
parameter's element is what its gradient has and what the nodes that were not
visited will still bring to it; a visit moves worth from one node to its operands and
leaves the total alone (`VisitWorth`), the operands being possibly the same node, or
leaves that borrow the same parameter. When the walk begins it is the old gradient
plus the derivative of the loss (`BeganWorth`), and when no node is left it is the
gradient. The invariant (`TapeInv`) also says that nodes refer to earlier ones and
have the shape of their operation, and that nothing has come to a node of a graph
that is being built (`Fresh`).

**LlmDraftProofs** proves `ExactTexts`, `CountsAreExact` and that `LlmDraft` implements
`Generation`, fairness aside. The invariant says for each place of the loop which
text each of the two run states holds (`InRound`, `InPropose`, `InVerify`, ...). The
hard one is `InVerify`: tokens are emitted one by one while the target is still
at the position of the round's start, so the invariant speaks of the text as it
will be when all proposals are accepted (`Whole`), of which the draft holds all
but, perhaps, a stop token. The refinement is one step per action: an action
that emits a token is a `Draw`, a failure is a `Fail`, all others stutter. The
assumption asks `Best`, `Likely` and `Guess` only to return tokens of the vocabulary,
for texts within the buffers.

The same module proves `PoolTypeOK`, `JobIsPinned` and `EveryRowOnce` of the pool that
computes the decoder's rows (`RowPool`, whose `PoolInit`, `PoolNext` and `RowPoolSpec` are
named so for that), for any number of threads and rows and any width of the
epoch counter. The shares of two
threads are disjoint and cover the rows (two lemmas about `ShareBegin`). The
invariant (`PoolInv`) relates `pending` to the workers that have not counted themselves out
of the present epoch, so a worker holds a job only while its caller waits; the
wrapped epoch is harmless because no worker can be two epochs behind.

**InputsProofs** proves `FramingIsExact`, `RunsAsConfigured`, `AcceptedIsSound` and
`ReadsWhatIsWritten`. `InputsAssumption` says that limits and declared lengths are
naturals and that a line
of a file has one of the four forms, `FileAssumption` that sizes, offsets and counts of
a model file and the bound on its entries are naturals and block sizes not zero, `JsonAssumption` that limits are
counted and that no literal or string is a mark such as a bracket. For HTTP, the end of the headers is the first place where
one is, and stays that whatever arrives behind it (`EndStays`), so what the receiver
checks of a prefix is a fact about the stream. The invariant (`HttpHeads`) says that
the end is known as soon as it has arrived and that a request still being
received has passed the checks of its headers; `WholeIs` says that those and the
parser's together are what `Whole` asks, so each of the ways to refuse shows that
the stream does not begin with a whole request. For the settings, `Tracks` says
what the load knows after any lines f: that they are `Legal`, whether the
section is open, which keys were set, and that the copy holds what f `Said`; one
lemma for each kind of line carries it on, and `TracksFault` shows that any line
that is refused makes the file ill-formed. Which arguments are options is a
recursion from left to right (`IsOption`): a function that satisfies its equation
exists, by the least length without one (`OptionsExist`). The second scan keeps the
configuration equal to what the options before its index give (`Results`), which at
the end is `Wanted`. `StartLive` says what is initialized at each
place of `main`, and what is no longer at each step of its cleanup. For model files, `FileInv` says while a directory is read that the
ranges collected so far are `Listed`, each the range of an entry of its own and each named
entry with one, and of an accepted file that it is `Sound`. Sorting is any arrangement
in order (`Arranged`), so equal elements may end up either way: neighbours that
differ or do not overlap after sorting show that all do (`NamesDiffer`, `RangesApart`), and
ranges that each begin where the one before ends leave no byte out
(`RangesCover`). What is published while the file is read is a claim of its header, or the
version last read (`Published`). That the number of tensors is true at the end follows because
the ranges and the tensors still to come add up to it and each range is of one tensor
(`TensorsCounted`). The guarded arithmetic of words is that of the numbers
(`RangeFits`, `Aligned`).

For JSON texts the reader, which has a stack and a cursor, is compared with the
grammar, `Derives`, a recursion over spans of the text. Its equation has a solution
and only one, by the least span without one (`LeastElement`), so the grammar's
clauses can be used as rules. The invariant (`JsonInv`) says of a text being read
that what the reader still expects at the cursor, inside the containers it has
open, completes exactly the texts that the grammar derives from the start
(`Exact`, with `Completes` for what is expected and `Resume` along the stack); that the stack
is as deep as the brackets read are nested (`Nest`); that the part read keeps the
limits of its reader (`HeaderFits`, `RequestFits`, the second with the exception of a reader
at its limit that waits for a value it will refuse); and that the set of keys
is that of the decoded names of the outermost members read so far (`KeysFit`). So a text
is refused only when no legal document begins it. For lookups, what the grammar
derives is balanced and nothing that begins it is (`Balanced`), so skipping a value
by counting brackets ends where the grammar ends it (`SkipsValue`), and the search
has passed just the members before it (`Seeking`).

Only model-checked: liveness and fairness, which the prover does not treat:
`RunsEnd` and the other liveness properties, and that half of `IsGeneration`. Every
safety invariant and action property of the passing runs is a theorem.

## Plan

1. Done: `ServerPool`, `ModelServing`, `RowPool`, `TrainRun`, `Desktop`,
   `RunState`, `LlmSession`, `LlmDraft`, in the order of what a fault would cost,
   the chats of `ChatClient`; then what the program reads from outside (`Settings`,
   `HttpRequest`, `JsonText`, `ModelFile`) and the engines below a request
   (`Execution`, `VendorCache`, `Rocm`, `Mlx`, `Tape`).
2. Next models: the model list of the chat client, a resident device plan of its
   own (captured graphs and split attention), the binding of tensors in
   `llm_gguf.c`, and the arithmetic of the acceptance rule over small rational
   distributions.
3. Next proofs: those of the modules under 2.

## Not modelled

* `llm_gguf.c` and `llm_quant.c`: names, shapes and block layouts of each model
  architecture, one case after another without state in between.
* Floating-point results, the kernels and shaders, tokenizers, and in `training.c`
  normalization, activations, attention, rotary positions and losses: numbers
  and strings that the properties do not tell apart, or derivatives that are not
  integers.
* The drivers behind CUDA and Vulkan and the uploads of `cuda.c` and `vulkan.c`.
  What a run state sees of a device plan is in `RunState`, its inside is not.
* The model list of the chat client, views, the framing of streamed records.
* Texts of logs, response bodies, timing, recorded benchmark data, build files.

Undefined behaviour was not found in the modelled code; data races are excluded
by the mutexes the models show.
