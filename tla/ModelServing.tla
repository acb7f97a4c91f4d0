---------------------------- MODULE ModelServing ----------------------------
(***************************************************************************)
(* The model registry of src/backend/core/model.c under the two locks of   *)
(* server.c.  Worker threads serve requests that load, unload, list and    *)
(* run models and that replace a model's compute device.  model_mutex      *)
(* guards the registry array; execution_mutex pins provider contexts while *)
(* they compute.  One action per step between two points where another     *)
(* worker can run.  An operation's heap objects are explicit: a context    *)
(* (named by its model's id) and the device objects it points to.          *)
(***************************************************************************)
EXTENDS Integers, Sequences, FiniteSets

CONSTANTS Workers,      \* worker threads
          Paths,        \* model files clients name
          MaxId,        \* the last id before next_id wraps to 0 (2^64 - 1)
          ModelLimit,   \* NYA_MODEL_LIMIT
          MaxSwaps,     \* device replacements per context (bound)
          Nobody, NoPath

ASSUME ServingAssumption == /\ MaxId \in Nat \ {0}
                            /\ ModelLimit \in Nat \ {0}
                            /\ MaxSwaps \in Nat
                            /\ Nobody \notin Workers
                            /\ NoPath \notin Paths

Ids == 1 .. MaxId

VARIABLES
  registry,         \* models[0 .. count-1]
  next_id,          \* registry->next_id
  contexts,         \* provider contexts that are allocated
  compute,          \* context->compute: the device object a context points to
  devices,          \* device objects that are allocated
  models,           \* owner of model_mutex
  execution,        \* owner of execution_mutex
  stop_requested,   \* server->stop_requested
  torn_down,        \* nya_model_registry_shutdown has run
  pc, req,          \* where each worker is and what it was asked
  using,            \* the snapshot a worker computes with
  issued            \* the path each id was given out for (what clients know)

store == <<registry, next_id, contexts, compute, devices, issued>>
vars == <<registry, next_id, contexts, compute, devices, models, execution,
          stop_requested, torn_down, pc, req, using, issued>>

\* Requests. "run" stands for the three handlers that find a model and compute
\* with it: /model/run, /generate (with a draft model when draft # 0) and
\* /tokenize.  "compat" first reads the chat template under model_mutex alone.
\* "info" stands for /runtime and /model/info, which read under both locks.
Ops == {"list", "info", "load", "unload", "run", "compat", "compute"}
NoRequest == [op |-> "none", id |-> 0, draft |-> 0, path |-> NoPath]

Entry(i) == {e \in {registry[k] : k \in 1 .. Len(registry)} : e.id = i}
Loaded   == {registry[k].id : k \in 1 .. Len(registry)}
PathOf(i) == (CHOOSE e \in Entry(i) : TRUE).path

Init == /\ registry = << >>
        /\ next_id = 1
        /\ contexts = {}
        /\ compute = [i \in Ids |-> 0]
        /\ devices = {}
        /\ models = Nobody /\ execution = Nobody
        /\ stop_requested = FALSE /\ torn_down = FALSE
        /\ pc = [w \in Workers |-> "idle"]
        /\ req = [w \in Workers |-> NoRequest]
        /\ using = [w \in Workers |-> {}]
        /\ issued = [i \in Ids |-> NoPath]

Goto(w, l) == pc' = [pc EXCEPT ![w] = l]

-----------------------------------------------------------------------------
(* Requests arrive.  A client names an id it was given, which may since    *)
(* have been unloaded; path remembers which file it means by that id.      *)

Known == {i \in Ids : issued[i] # NoPath}

Begin(w, r) == /\ pc[w] = "idle"
               /\ ~ stop_requested
               /\ req' = [req EXCEPT ![w] = r]
               /\ Goto(w, IF r.op \in {"list", "compat"} THEN "models" ELSE "execution")
               /\ UNCHANGED <<store, models, execution, stop_requested, torn_down, using>>

ReadRequests  == {[NoRequest EXCEPT !.op = o] : o \in {"list", "info"}}
LoadRequests  == {[NoRequest EXCEPT !.op = "load", !.path = p] : p \in Paths}
ModelRequests == {[op |-> o, id |-> i, draft |-> 0, path |-> issued[i]] :
                    o \in {"unload", "run", "compat", "compute"}, i \in Known}
DraftRequests == {[op |-> "run", id |-> i, draft |-> d, path |-> issued[i]] :
                    i \in Known, d \in Known}
Requests == ReadRequests \union LoadRequests \union ModelRequests \union DraftRequests

Stop == /\ ~ stop_requested
        /\ stop_requested' = TRUE
        /\ UNCHANGED <<store, models, execution, torn_down, pc, req, using>>

-----------------------------------------------------------------------------
(* The locks.                                                              *)

\* nya_server_execution_lock: after a stop the lock is given back at once.
LockExecution(w) == /\ pc[w] = "execution"
                    /\ execution = Nobody
                    /\ IF stop_requested
                         THEN /\ execution' = execution
                              /\ req' = [req EXCEPT ![w] = NoRequest]
                              /\ Goto(w, "idle")
                         ELSE /\ execution' = w
                              /\ req' = req
                              /\ Goto(w, "models")
                    /\ UNCHANGED <<store, models, stop_requested, torn_down, using>>

LockModels(w) == /\ pc[w] = "models"
                 /\ models = Nobody
                 /\ models' = w
                 /\ Goto(w, "body")
                 /\ UNCHANGED <<store, execution, stop_requested, torn_down, req, using>>

\* The handler gives back every lock it holds and answers.
Answer(w) == /\ models' = IF models = w THEN Nobody ELSE models
             /\ execution' = IF execution = w THEN Nobody ELSE execution
             /\ req' = [req EXCEPT ![w] = NoRequest]
             /\ using' = [using EXCEPT ![w] = {}]
             /\ Goto(w, "idle")
             /\ UNCHANGED <<stop_requested, torn_down>>

\* The section that follows both locks (or model_mutex alone, for a listing).
InBody(w, op) == pc[w] = "body" /\ req[w].op = op

-----------------------------------------------------------------------------
(* nya_handle_models, nya_handle_runtime, nya_handle_model_info: read only. *)

Read(w) == /\ InBody(w, "list") \/ InBody(w, "info")
           /\ Answer(w)
           /\ UNCHANGED store

-----------------------------------------------------------------------------
(* nya_model_load.                                                         *)

\* A path already registered is answered with its record.
LoadKnown(w) == /\ InBody(w, "load")
                /\ \E k \in 1 .. Len(registry) : registry[k].path = req[w].path
                /\ Answer(w)
                /\ UNCHANGED store

NotRegistered(p) == \A k \in 1 .. Len(registry) : registry[k].path # p

\* No free record, no id left, or the file is missing or malformed.
LoadRejected(w) == /\ InBody(w, "load")
                   /\ NotRegistered(req[w].path)
                   /\ Answer(w)
                   /\ UNCHANGED store

HasRoom == Len(registry) < ModelLimit /\ next_id # 0

\* Inspection succeeded.  nya_execution_attach and nya_generation_attach
\* allocate a context with its device, or find no provider for this file.
LoadAttach(w) == /\ InBody(w, "load")
                 /\ NotRegistered(req[w].path)
                 /\ HasRoom
                 /\ \/ /\ contexts' = contexts \union {next_id}
                       /\ devices' = devices \union {<<next_id, 0>>}
                    \/ UNCHANGED <<contexts, devices>>
                 /\ compute' = [compute EXCEPT ![next_id] = 0]
                 /\ Goto(w, "publish")
                 /\ UNCHANGED <<registry, next_id, issued, models, execution,
                                stop_requested, torn_down, req, using>>

\* Mutant: ids are the record's position.
NextIdReused == Len(registry) + 2

\* registry->next_id += 1, an unsigned 64-bit increment.
NextId == (next_id + 1) % (MaxId + 1)

LoadPublish(w) == /\ pc[w] = "publish"
                  /\ registry' = Append(registry, [id |-> next_id, path |-> req[w].path,
                                                   native |-> next_id \in contexts])
                  /\ issued' = [issued EXCEPT ![next_id] = req[w].path]
                  /\ next_id' = NextId
                  /\ Answer(w)
                  /\ UNCHANGED <<contexts, compute, devices>>

-----------------------------------------------------------------------------
(* nya_model_unload.                                                       *)

\* Mutant: the 404 path gives back model_mutex only.
NotLoadedForgets(w) == /\ pc[w] = "body"
                       /\ req[w].op \in {"unload", "run", "compute"}
                       /\ req[w].id \notin Loaded
                       /\ models' = Nobody
                       /\ req' = [req EXCEPT ![w] = NoRequest]
                       /\ Goto(w, "idle")
                       /\ UNCHANGED <<store, execution, stop_requested, torn_down, using>>

\* No record has the requested id, or the draft's: 404.
NotLoaded(w) == /\ pc[w] = "body"
                /\ req[w].op \in {"unload", "run", "compute"}
                /\ \/ req[w].id \notin Loaded
                   \/ req[w].draft # 0 /\ req[w].draft \notin Loaded
                /\ Answer(w)
                /\ UNCHANGED store

\* Mutant: the record is dropped without releasing its provider state.
UnloadForget(w) == /\ InBody(w, "unload")
                   /\ req[w].id \in Loaded
                   /\ Goto(w, "remove")
                   /\ UNCHANGED <<registry, next_id, contexts, compute, devices, issued,
                                  models, execution, stop_requested, torn_down, req, using>>

\* nya_generation_detach and nya_execution_detach.
UnloadDetach(w) == /\ InBody(w, "unload")
                   /\ req[w].id \in Loaded
                   /\ contexts' = contexts \ {req[w].id}
                   /\ devices' = devices \ {<<req[w].id, compute[req[w].id]>>}
                   /\ Goto(w, "remove")
                   /\ UNCHANGED <<registry, next_id, compute, issued, models, execution,
                                  stop_requested, torn_down, req, using>>

\* memmove of the later records over the erased one.
Without(k) == [j \in 1 .. Len(registry) - 1 |-> IF j < k THEN registry[j] ELSE registry[j + 1]]

UnloadRemove(w) == /\ pc[w] = "remove"
                   /\ \E k \in 1 .. Len(registry) :
                        registry[k].id = req[w].id /\ registry' = Without(k)
                   /\ Answer(w)
                   /\ UNCHANGED <<next_id, contexts, compute, devices, issued>>

-----------------------------------------------------------------------------
(* Computing with a model.                                                 *)

\* Copies of the records of a set of ids, those that have a provider.
Snapshots(S) == {[id |-> i, path |-> PathOf(i), device |-> compute[i]] : i \in S \intersect contexts}

\* The record has no provider, or not one of the requested kind: 409.
Unsupported(w) == /\ pc[w] = "body"
                  /\ req[w].op \in {"run", "compute"}
                  /\ req[w].id \in Loaded
                  /\ Answer(w)
                  /\ UNCHANGED store

\* Mutant: inference copies the record and lets go of both locks.
FindUnpinned(w) == /\ InBody(w, "run")
                   /\ req[w].id \in Loaded \intersect contexts
                   /\ req[w].draft = 0 \/ req[w].draft \in Loaded
                   /\ using' = [using EXCEPT ![w] =
                                  Snapshots({req[w].id, req[w].draft})]
                   /\ models' = Nobody
                   /\ execution' = Nobody
                   /\ Goto(w, "run")
                   /\ UNCHANGED <<store, stop_requested, torn_down, req>>

\* Mutant: inference keeps model_mutex.
FindKeepingModels(w) == /\ InBody(w, "run")
                        /\ req[w].id \in Loaded \intersect contexts
                        /\ req[w].draft = 0 \/ req[w].draft \in Loaded
                        /\ using' = [using EXCEPT ![w] =
                                       Snapshots({req[w].id, req[w].draft})]
                        /\ Goto(w, "run")
                        /\ UNCHANGED <<store, models, execution, stop_requested,
                                       torn_down, req>>

\* The record is copied, model_mutex released, execution_mutex kept.
Find(w) == /\ InBody(w, "run")
           /\ req[w].id \in Loaded \intersect contexts
           /\ req[w].draft = 0 \/ req[w].draft \in Loaded
           /\ using' = [using EXCEPT ![w] =
                          Snapshots({req[w].id, req[w].draft})]
           /\ models' = Nobody
           /\ Goto(w, "run")
           /\ UNCHANGED <<store, execution, stop_requested, torn_down, req>>

\* nya_execution_run, nya_generation_run or nya_llm_tokenize returns.
Computed(w) == /\ pc[w] = "run"
               /\ Answer(w)
               /\ UNCHANGED store

\* nya_handle_compat_generate looks the model up for its chat template, lets
\* model_mutex go and continues as /generate, which looks it up again; or it
\* ends there (no such model, invalid messages or options).
CompatTemplate(w) == /\ InBody(w, "compat")
                     /\ models' = Nobody
                     /\ \/ /\ req[w].id \in Loaded
                           /\ req' = [req EXCEPT ![w].op = "run",
                                                 ![w].path = PathOf(req[w].id)]
                           /\ Goto(w, "execution")
                        \/ /\ req' = [req EXCEPT ![w] = NoRequest]
                           /\ Goto(w, "idle")
                     /\ UNCHANGED <<store, execution, stop_requested, torn_down, using>>

-----------------------------------------------------------------------------
(* nya_handle_model_compute: model_mutex only for the lookup.              *)

FindForSwap(w) == /\ InBody(w, "compute")
                  /\ req[w].id \in Loaded \intersect contexts
                  /\ models' = Nobody
                  /\ Goto(w, "create")
                  /\ UNCHANGED <<store, execution, stop_requested, torn_down, req, using>>

\* The provider is already active, or its initialization fails: kept as is.
SwapNone(w) == /\ pc[w] = "create"
               /\ Answer(w)
               /\ UNCHANGED store

\* The new device exists before the context points to it.
SwapCreate(w) == LET i == req[w].id
                 IN /\ pc[w] = "create"
                    /\ compute[i] < MaxSwaps
                    /\ devices' = devices \union {<<i, compute[i] + 1>>}
                    /\ compute' = [compute EXCEPT ![i] = compute[i] + 1]
                    /\ Goto(w, "release")
                    /\ UNCHANGED <<registry, next_id, contexts, issued, models, execution,
                                   stop_requested, torn_down, req, using>>

SwapRelease(w) == /\ pc[w] = "release"
                  /\ devices' = devices \ {<<req[w].id, compute[req[w].id] - 1>>}
                  /\ Answer(w)
                  /\ UNCHANGED <<registry, next_id, contexts, compute, issued>>

-----------------------------------------------------------------------------
\* nya_model_registry_shutdown: main calls it after every worker was joined.
TearDown == /\ stop_requested
            /\ ~ torn_down
            /\ \A w \in Workers : pc[w] = "idle"
            /\ torn_down' = TRUE
            /\ contexts' = contexts \ Loaded
            /\ devices' = devices \ {<<i, compute[i]>> : i \in Loaded}
            /\ registry' = << >>
            /\ next_id' = 1
            /\ UNCHANGED <<compute, issued, models, execution, stop_requested, pc, req, using>>

Terminated == torn_down /\ UNCHANGED vars

\* Steps that end by themselves; Computed is apart, inference may be long.
Brief(w) == \/ Read(w)
            \/ LoadKnown(w) \/ LoadRejected(w) \/ LoadAttach(w) \/ LoadPublish(w)
            \/ NotLoaded(w) \/ UnloadDetach(w) \/ UnloadRemove(w)
            \/ Unsupported(w) \/ Find(w) \/ CompatTemplate(w)
            \/ FindForSwap(w) \/ SwapNone(w) \/ SwapCreate(w) \/ SwapRelease(w)

Next == \/ \E w \in Workers : \/ \E r \in Requests : Begin(w, r)
                              \/ LockExecution(w) \/ LockModels(w)
                              \/ Brief(w) \/ Computed(w)
        \/ Stop \/ TearDown \/ Terminated

Spec == Init /\ [][Next]_vars

(* A thread leaves its critical sections, and a thread that waits for a    *)
(* mutex that is free again and again gets it.  Nothing is assumed of      *)
(* Computed: an inference may take as long as it likes.                    *)
Fairness == \A w \in Workers : /\ SF_vars(LockExecution(w)) /\ SF_vars(LockModels(w))
                               /\ WF_vars(Brief(w))

FairSpec == Spec /\ Fairness

-----------------------------------------------------------------------------
(* Properties                                                              *)

TypeOK ==
  /\ registry \in Seq([id : Ids, path : Paths, native : BOOLEAN]) /\ Len(registry) =< ModelLimit
  /\ next_id \in 0 .. MaxId
  /\ contexts \subseteq Ids
  /\ compute \in [Ids -> 0 .. MaxSwaps]
  /\ devices \subseteq Ids \X (0 .. MaxSwaps)
  /\ models \in Workers \union {Nobody} /\ execution \in Workers \union {Nobody}
  /\ stop_requested \in BOOLEAN /\ torn_down \in BOOLEAN
  /\ pc \in [Workers -> {"idle", "execution", "models", "body", "publish", "remove",
                         "run", "create", "release"}]
  /\ req \in [Workers -> [op : Ops \union {"none"}, id : Ids \union {0},
                          draft : Ids \union {0}, path : Paths \union {NoPath}]]
  /\ using \in [Workers -> SUBSET [id : Ids, path : Paths, device : 0 .. MaxSwaps]]
  /\ issued \in [Ids -> Paths \union {NoPath}]

(* What an inference reads stays allocated and stays the same object until *)
(* it ends: nobody unloads the model or its draft model, and nobody swaps  *)
(* the device under it, although the registry lock is free all that time.  *)
SnapshotsStayValid ==
  \A w \in Workers : \A s \in using[w] :
    /\ s.id \in contexts
    /\ <<s.id, s.device>> \in devices
    /\ compute[s.id] = s.device

(* The model that computes is the file the client meant by its id: an id   *)
(* is never given to another file, however loads and unloads interleave,   *)
(* so the template /v1 rendered its prompt with is this model's.           *)
RunsWhatWasAsked ==
  \A w \in Workers : pc[w] = "run" =>
    \A s \in using[w] : s.id = req[w].id => s.path = req[w].path

(* Between two provider operations every record that got a provider has its *)
(* context, every context one device, and nothing else is allocated: error *)
(* paths and swaps neither leak nor free twice.  No two records share an   *)
(* id or a path, and there are never more of them than the limit.          *)
RegistryIsExact ==
  /\ TypeOK
  /\ execution = Nobody =>
       /\ contexts = {registry[k].id : k \in {j \in 1 .. Len(registry) : registry[j].native}}
       /\ devices = {<<i, compute[i]>> : i \in contexts}
  /\ \A j, k \in 1 .. Len(registry) :
       j # k => registry[j].id # registry[k].id /\ registry[j].path # registry[k].path
  /\ \A k \in 1 .. Len(registry) : registry[k].path = issued[registry[k].id]

(* "/models can therefore respond during inference" (backend/README.md):   *)
(* a listing ends although an inference never does.                        *)
ListingResponds ==
  \A w \in Workers : (pc[w] # "idle" /\ req[w].op = "list") ~> (pc[w] = "idle")

(* If no inference computes for ever, every request ends: no handler leaves *)
(* a lock behind and no two of them wait for each other's lock.            *)
RequestsEnd ==
  (\A v \in Workers : []<>(pc[v] # "run"))
    => \A w \in Workers : (pc[w] # "idle") ~> (pc[w] = "idle")
=============================================================================
