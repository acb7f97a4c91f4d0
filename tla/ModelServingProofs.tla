------------------------- MODULE ModelServingProofs -------------------------
(***************************************************************************)
(* Theorems about ModelServing for every number of workers, every set of   *)
(* files, any registry limit and any width of the id counter, and about    *)
(* ChatClient for every set of chats and texts.                            *)
(***************************************************************************)
EXTENDS MCServing, SequenceTheorems, TLAPS

-----------------------------------------------------------------------------
(* The inductive invariant.                                                *)

\* Where a handler holds execution_mutex, and where model_mutex.
Exclusive == {"publish", "remove", "run", "create", "release"}
Guarded   == {"body", "publish", "remove"}

\* "list" and "compat" begin under model_mutex alone.
Listing(w) == req[w].op \in {"list", "compat"}

\* Who owns a mutex is told by where it is, and the other way round.
Locks ==
  \A w \in Workers :
    /\ pc[w] \in Exclusive => execution = w
    /\ pc[w] \in {"models", "body"} /\ ~Listing(w) => execution = w
    /\ pc[w] \in Guarded => models = w
    /\ execution = w => pc[w] \in Exclusive \cup {"models", "body"} /\ ~Listing(w)

\* What a worker was asked fits the place it is at, and a request that names a
\* model still means the file the id was given out for.
Asked ==
  \A w \in Workers :
    /\ pc[w] \in {"execution"} \cup Exclusive => ~Listing(w)
    /\ pc[w] = "publish" => req[w].op = "load"
    /\ pc[w] = "remove" => req[w].op = "unload"
    /\ pc[w] = "run" => req[w].op = "run"
    /\ pc[w] \in {"create", "release"} => req[w].op = "compute"
    /\ pc[w] # "idle" /\ req[w].op = "load" => req[w].path \in Paths
    /\ pc[w] # "idle" /\ req[w].op \in {"unload", "run", "compat", "compute"} =>
         req[w].id \in Ids /\ req[w].path \in Paths /\ req[w].path = issued[req[w].id]
    /\ pc[w] # "run" => using[w] = {}

\* Ids and paths of records are unique, an id stands for the file it was given
\* out for, and ids still to come are new until the counter has wrapped.
Records ==
  /\ \A j, k \in 1 .. Len(registry) :
       j # k => registry[j].id # registry[k].id /\ registry[j].path # registry[k].path
  /\ \A k \in 1 .. Len(registry) : registry[k].path = issued[registry[k].id]
  /\ ~torn_down /\ next_id # 0 => \A i \in Ids : issued[i] # NoPath => i < next_id
  /\ torn_down => stop_requested /\ registry = << >> /\ \A w \in Workers : pc[w] = "idle"
  /\ \A w \in Workers : pc[w] = "publish" => NotRegistered(req[w].path) /\ HasRoom

\* A record of the model that got a provider.
Native(i) == \E k \in 1 .. Len(registry) : registry[k].id = i /\ registry[k].native

\* A context belongs to a record, or is about to; a record that got a provider
\* has its context unless it is being removed.
Contexts ==
  /\ \A i \in contexts : Native(i) \/ (i = next_id /\ \E w \in Workers : pc[w] = "publish")
  /\ \A i \in Ids : Native(i) =>
       i \in contexts \/ \E w \in Workers : pc[w] = "remove" /\ req[w].id = i
  /\ \A w \in Workers : pc[w] = "remove" => req[w].id \notin contexts /\ req[w].id \in Loaded
  /\ \A w \in Workers : pc[w] \in {"create", "release"} => req[w].id \in contexts

\* A context has the device it points to, ...
HasDevice == \A i \in contexts : <<i, compute[i]>> \in devices

\* ... and besides it only the one that a swap is about to release.
NoOtherDevice ==
  \A i \in Ids, d \in 0 .. MaxSwaps : <<i, d>> \in devices =>
    i \in contexts /\ \/ d = compute[i]
                      \/ d = compute[i] - 1 /\ \E w \in Workers : pc[w] = "release" /\ req[w].id = i

Swapped == \A w \in Workers : pc[w] = "release" => compute[req[w].id] > 0

Devices == HasDevice /\ NoOtherDevice /\ Swapped

\* What a handler computes with is what the registry says.
Snapshot ==
  \A w \in Workers : \A s \in using[w] :
    s.id \in contexts /\ s.device = compute[s.id] /\ s.path = issued[s.id]

IInv == TypeOK /\ Locks /\ Asked /\ Records /\ Contexts /\ Devices /\ Snapshot

RequestType == [op : Ops \cup {"none"}, id : Ids \cup {0}, draft : Ids \cup {0},
                path : Paths \cup {NoPath}]

EntryType == [id : Ids, path : Paths, native : BOOLEAN]

-----------------------------------------------------------------------------
(* One lemma per step of a handler.                                        *)

\* A client names files, and ids it was given.
LEMMA RequestsAreAsked ==
  ASSUME TypeOK, NEW r \in Requests
  PROVE  /\ r \in RequestType
         /\ r.op = "load" => r.path \in Paths
         /\ r.op \in {"unload", "run", "compat", "compute"} =>
              r.id \in Ids /\ r.path \in Paths /\ r.path = issued[r.id]
<1> DEFINE Fits(q) == /\ q \in RequestType
                      /\ q.op = "load" => q.path \in Paths
                      /\ q.op \in {"unload", "run", "compat", "compute"} =>
                           q.id \in Ids /\ q.path \in Paths /\ q.path = issued[q.id]
<1>1. ASSUME NEW i \in Known
      PROVE  i \in Ids /\ issued[i] \in Paths
  BY DEF Known, TypeOK
<1>2. \A o \in {"list", "info"} : Fits([NoRequest EXCEPT !.op = o])
  BY DEF RequestType, Ops, NoRequest
<1>3. \A p \in Paths : Fits([NoRequest EXCEPT !.op = "load", !.path = p])
  BY DEF RequestType, Ops, NoRequest
<1>4. \A o \in {"unload", "run", "compat", "compute"}, i \in Known :
        Fits([op |-> o, id |-> i, draft |-> 0, path |-> issued[i]])
  BY <1>1 DEF RequestType, Ops
<1>5. \A i \in Known, d \in Known : Fits([op |-> "run", id |-> i, draft |-> d, path |-> issued[i]])
  BY <1>1 DEF RequestType, Ops
<1> HIDE DEF Fits
<1>6. Fits(r)
  <2>1. r \in ReadRequests => Fits(r)
    BY <1>2 DEF ReadRequests
  <2>2. r \in LoadRequests => Fits(r)
    BY <1>3 DEF LoadRequests
  <2>3. r \in ModelRequests => Fits(r)
    BY <1>4 DEF ModelRequests
  <2>4. r \in DraftRequests => Fits(r)
    BY <1>5 DEF DraftRequests
  <2> QED
    BY <2>1, <2>2, <2>3, <2>4 DEF Requests
<1> QED
  BY <1>6 DEF Fits

\* A request arrives: it names what its client knows.
LEMMA BeginKeeps ==
  ASSUME IInv, NEW w \in Workers, NEW r \in Requests, Begin(w, r)
  PROVE  IInv'
<1> USE DEF IInv, Goto, store
<1>0. /\ r \in RequestType
      /\ r.op = "load" => r.path \in Paths
      /\ r.op \in {"unload", "run", "compat", "compute"} =>
           r.id \in Ids /\ r.path \in Paths /\ r.path = issued[r.id]
  BY RequestsAreAsked
<1>1. TypeOK'
  BY <1>0, ServingAssumption DEF RequestType, TypeOK, Begin
<1>2. Locks'
  BY <1>0, ServingAssumption DEF TypeOK, Locks, Asked, Listing, Exclusive, Guarded, Begin
<1>3. Asked'
  BY <1>0, ServingAssumption DEF TypeOK, Locks, Asked, Listing, Exclusive, Guarded, Begin
<1>4. Records'
  BY ServingAssumption DEF TypeOK, Locks, Asked, Records, Listing, Exclusive, Guarded, NotRegistered, HasRoom, Begin
<1>5. Contexts'
  <2>1. \A i : Native(i)' <=> Native(i)
    BY DEF Native, Begin
  <2>2. \A i \in contexts' : Native(i)' \/ (i = next_id' /\ \E v \in Workers : pc'[v] = "publish")
    BY <1>0, <2>1 DEF TypeOK, Contexts, Begin
  <2>3. \A i \in Ids : Native(i)' => i \in contexts' \/ \E v \in Workers : pc'[v] = "remove" /\ req'[v].id = i
    BY <1>0, <2>1 DEF TypeOK, Contexts, Begin
  <2>4. \A v \in Workers : pc'[v] = "remove" => req'[v].id \notin contexts' /\ req'[v].id \in Loaded'
    BY <1>0, ServingAssumption DEF TypeOK, Contexts, Locks, Loaded, Exclusive, Guarded, Begin
  <2>5. \A v \in Workers : pc'[v] \in {"create", "release"} => req'[v].id \in contexts'
    BY <1>0, ServingAssumption DEF TypeOK, Contexts, Locks, Exclusive, Guarded, Begin
  <2> QED
    BY <2>2, <2>3, <2>4, <2>5 DEF Contexts
<1>6. Devices'
  BY ServingAssumption DEF TypeOK, Locks, Asked, Devices, HasDevice, NoOtherDevice, Swapped, Contexts, Listing, Exclusive, Guarded, Begin
<1>7. Snapshot'
  BY ServingAssumption DEF TypeOK, Locks, Asked, Snapshot, Listing, Exclusive, Guarded, Begin
<1> QED
  BY <1>1, <1>2, <1>3, <1>4, <1>5, <1>6, <1>7

\* A handler takes execution_mutex, or gives up after a stop.
LEMMA LockExecutionKeeps ==
  ASSUME IInv, NEW w \in Workers, LockExecution(w)
  PROVE  IInv'
<1> USE DEF IInv, Goto, store
<1>1. TypeOK'
  <2>1. CASE stop_requested
    <3>1. NoRequest \in RequestType
      BY DEF NoRequest, RequestType, Ops
    <3>2. req' \in [Workers -> RequestType]
      BY <2>1, <3>1 DEF TypeOK, LockExecution, RequestType
    <3> QED
      BY <2>1, <3>2 DEF TypeOK, LockExecution, RequestType
  <2>2. CASE ~stop_requested
    BY <2>2 DEF TypeOK, LockExecution
  <2> QED
    BY <2>1, <2>2
<1>2. Locks'
  BY ServingAssumption DEF TypeOK, Locks, Asked, Listing, Exclusive, Guarded, LockExecution, NoRequest
<1>3. Asked'
  BY ServingAssumption, SMTT(30) DEF TypeOK, Locks, Asked, Listing, Exclusive, Guarded, LockExecution, NoRequest
<1>4. Records'
  BY ServingAssumption DEF TypeOK, Locks, Asked, Records, Listing, Exclusive, Guarded, NotRegistered, HasRoom, LockExecution, NoRequest
<1>5. Contexts'
  <2>1. \A i : Native(i)' <=> Native(i)
    BY DEF Native, LockExecution, NoRequest
  <2>2. \A i \in contexts' : Native(i)' \/ (i = next_id' /\ \E v \in Workers : pc'[v] = "publish")
    BY <2>1 DEF TypeOK, Contexts, LockExecution, NoRequest
  <2>3. \A i \in Ids : Native(i)' => i \in contexts' \/ \E v \in Workers : pc'[v] = "remove" /\ req'[v].id = i
    BY <2>1 DEF TypeOK, Contexts, LockExecution, NoRequest
  <2>4. \A v \in Workers : pc'[v] = "remove" => req'[v].id \notin contexts' /\ req'[v].id \in Loaded'
    BY ServingAssumption DEF TypeOK, Contexts, Locks, Loaded, Exclusive, Guarded, LockExecution, NoRequest
  <2>5. \A v \in Workers : pc'[v] \in {"create", "release"} => req'[v].id \in contexts'
    BY ServingAssumption DEF TypeOK, Contexts, Locks, Exclusive, Guarded, LockExecution, NoRequest
  <2> QED
    BY <2>2, <2>3, <2>4, <2>5 DEF Contexts
<1>6. Devices'
  <2>1. UNCHANGED <<contexts, compute, devices>>
    BY DEF LockExecution
  <2>2. \A v \in Workers : pc[v] = "release" <=> pc'[v] = "release"
    BY DEF TypeOK, LockExecution
  <2>3. \A v \in Workers : pc[v] = "release" => req'[v] = req[v]
    BY DEF TypeOK, LockExecution
  <2>4. HasDevice'
    BY <2>1 DEF Devices, HasDevice
  <2>5. NoOtherDevice'
    BY <2>1, <2>2, <2>3 DEF Devices, NoOtherDevice
  <2>6. Swapped'
    BY <2>1, <2>2, <2>3 DEF Devices, Swapped
  <2> QED
    BY <2>4, <2>5, <2>6 DEF Devices
<1>7. Snapshot'
  BY ServingAssumption DEF TypeOK, Locks, Asked, Snapshot, Listing, Exclusive, Guarded, LockExecution, NoRequest
<1> QED
  BY <1>1, <1>2, <1>3, <1>4, <1>5, <1>6, <1>7

\* A handler takes model_mutex.
LEMMA LockModelsKeeps ==
  ASSUME IInv, NEW w \in Workers, LockModels(w)
  PROVE  IInv'
<1> USE DEF IInv, Goto, store
<1>1. TypeOK'
  BY ServingAssumption DEF RequestType, TypeOK, LockModels
<1>2. Locks'
  BY ServingAssumption DEF TypeOK, Locks, Asked, Listing, Exclusive, Guarded, LockModels
<1>3. Asked'
  BY ServingAssumption DEF TypeOK, Locks, Asked, Listing, Exclusive, Guarded, LockModels
<1>4. Records'
  BY ServingAssumption DEF TypeOK, Locks, Asked, Records, Listing, Exclusive, Guarded, NotRegistered, HasRoom, LockModels
<1>5. Contexts'
  <2>1. \A i : Native(i)' <=> Native(i)
    BY DEF Native, LockModels
  <2>2. \A i \in contexts' : Native(i)' \/ (i = next_id' /\ \E v \in Workers : pc'[v] = "publish")
    BY <2>1 DEF TypeOK, Contexts, LockModels
  <2>3. \A i \in Ids : Native(i)' => i \in contexts' \/ \E v \in Workers : pc'[v] = "remove" /\ req'[v].id = i
    BY <2>1 DEF TypeOK, Contexts, LockModels
  <2>4. \A v \in Workers : pc'[v] = "remove" => req'[v].id \notin contexts' /\ req'[v].id \in Loaded'
    BY ServingAssumption DEF TypeOK, Contexts, Locks, Loaded, Exclusive, Guarded, LockModels
  <2>5. \A v \in Workers : pc'[v] \in {"create", "release"} => req'[v].id \in contexts'
    BY ServingAssumption DEF TypeOK, Contexts, Locks, Exclusive, Guarded, LockModels
  <2> QED
    BY <2>2, <2>3, <2>4, <2>5 DEF Contexts
<1>6. Devices'
  BY ServingAssumption DEF TypeOK, Locks, Asked, Devices, HasDevice, NoOtherDevice, Swapped, Contexts, Listing, Exclusive, Guarded, LockModels
<1>7. Snapshot'
  BY ServingAssumption DEF TypeOK, Locks, Asked, Snapshot, Listing, Exclusive, Guarded, LockModels
<1> QED
  BY <1>1, <1>2, <1>3, <1>4, <1>5, <1>6, <1>7

\* A handler that changed nothing gives back its locks and answers.
LEMMA AnswerKeeps ==
  ASSUME IInv, NEW w \in Workers, pc[w] \in {"body", "run", "create"}, Answer(w), UNCHANGED store
  PROVE  IInv'
<1> USE DEF IInv, Goto, store
<1>1. TypeOK'
  BY ServingAssumption DEF RequestType, TypeOK, Answer, NoRequest
<1>2. Locks'
  BY ServingAssumption DEF TypeOK, Locks, Asked, Listing, Exclusive, Guarded, Answer, NoRequest
<1>3. Asked'
  BY ServingAssumption DEF TypeOK, Locks, Asked, Listing, Exclusive, Guarded, Answer, NoRequest
<1>4. Records'
  BY ServingAssumption DEF TypeOK, Locks, Asked, Records, Listing, Exclusive, Guarded, NotRegistered, HasRoom, Answer, NoRequest
<1>5. Contexts'
  <2>1. \A i : Native(i)' <=> Native(i)
    BY DEF Native, Answer, NoRequest
  <2>2. \A i \in contexts' : Native(i)' \/ (i = next_id' /\ \E v \in Workers : pc'[v] = "publish")
    BY <2>1 DEF TypeOK, Contexts, Answer, NoRequest
  <2>3. \A i \in Ids : Native(i)' => i \in contexts' \/ \E v \in Workers : pc'[v] = "remove" /\ req'[v].id = i
    BY <2>1 DEF TypeOK, Contexts, Answer, NoRequest
  <2>4. \A v \in Workers : pc'[v] = "remove" => req'[v].id \notin contexts' /\ req'[v].id \in Loaded'
    BY ServingAssumption DEF TypeOK, Contexts, Locks, Loaded, Exclusive, Guarded, Answer, NoRequest
  <2>5. \A v \in Workers : pc'[v] \in {"create", "release"} => req'[v].id \in contexts'
    BY ServingAssumption DEF TypeOK, Contexts, Locks, Exclusive, Guarded, Answer, NoRequest
  <2> QED
    BY <2>2, <2>3, <2>4, <2>5 DEF Contexts
<1>6. Devices'
  BY ServingAssumption DEF TypeOK, Locks, Asked, Devices, HasDevice, NoOtherDevice, Swapped, Contexts, Listing, Exclusive, Guarded, Answer, NoRequest
<1>7. Snapshot'
  BY ServingAssumption DEF TypeOK, Locks, Asked, Snapshot, Listing, Exclusive, Guarded, Answer, NoRequest
<1> QED
  BY <1>1, <1>2, <1>3, <1>4, <1>5, <1>6, <1>7

\* Every position of the registry holds a record.
LEMMA EntriesAreRecords ==
  ASSUME TypeOK, NEW k \in 1 .. Len(registry)
  PROVE  registry[k] \in EntryType
<1>1. registry \in Seq(EntryType)
  BY DEF TypeOK, EntryType
<1> QED
  BY <1>1, ElementOfSeq

\* An id that load is about to give out names no record, context or device.
LEMMA NextIdIsFresh ==
  ASSUME IInv, NEW w \in Workers, pc[w] \in {"body", "publish"}, next_id # 0
  PROVE  /\ next_id \in Ids /\ next_id \notin Loaded
         /\ pc[w] = "body" => next_id \notin contexts
         /\ pc[w] = "body" => \A d \in 0 .. MaxSwaps : <<next_id, d>> \notin devices
<1> USE DEF IInv
<1>1. next_id \in Ids
  BY ServingAssumption DEF TypeOK, Ids
<1>2. ~torn_down
  BY DEF Records
<1>3. ASSUME NEW k \in 1 .. Len(registry)
      PROVE  registry[k].id # next_id
  <2>1. registry[k] \in EntryType
    BY EntriesAreRecords
  <2>2. issued[registry[k].id] # NoPath
    BY <2>1, ServingAssumption DEF Records, EntryType
  <2> QED
    BY <1>2, <2>1, <2>2 DEF Records, Ids, EntryType
<1>4. next_id \notin Loaded
  BY <1>3 DEF Loaded
<1>5. pc[w] = "body" => next_id \notin contexts
  BY <1>3, ServingAssumption DEF Contexts, Native, Locks, Guarded
<1> QED
  BY <1>1, <1>4, <1>5 DEF Devices, NoOtherDevice

\* A load attaches a provider to the id it is about to give out.
LEMMA LoadAttachKeeps ==
  ASSUME IInv, NEW w \in Workers, LoadAttach(w)
  PROVE  IInv'
<1> USE DEF IInv, Goto, store
<1>1. TypeOK'
  <2>1. next_id \in Ids /\ 0 \in 0 .. MaxSwaps
    BY ServingAssumption DEF TypeOK, LoadAttach, HasRoom, Ids
  <2>2. contexts' \subseteq Ids /\ devices' \subseteq Ids \X (0 .. MaxSwaps)
    <3>1. <<next_id, 0>> \in Ids \X (0 .. MaxSwaps)
      BY <2>1
    <3> QED
      BY <2>1, <3>1, Zenon DEF TypeOK, LoadAttach
  <2>3. compute' \in [Ids -> 0 .. MaxSwaps]
    BY <2>1 DEF TypeOK, LoadAttach
  <2> QED
    BY <2>2, <2>3 DEF TypeOK, LoadAttach
<1>2. Locks'
  BY ServingAssumption DEF TypeOK, Locks, Asked, Listing, Exclusive, Guarded, LoadAttach, InBody
<1>3. Asked'
  BY ServingAssumption DEF TypeOK, Locks, Asked, Listing, Exclusive, Guarded, LoadAttach, InBody
<1>4. Records'
  <2>1. UNCHANGED <<registry, issued, next_id, torn_down, stop_requested>> /\ ~torn_down
    BY DEF Records, LoadAttach, InBody
  <2>2. NotRegistered(req[w].path)' /\ HasRoom' /\ UNCHANGED req
    BY <2>1 DEF NotRegistered, HasRoom, LoadAttach, InBody
  <2>3. \A v \in Workers : pc'[v] = "publish" => v = w
    BY DEF TypeOK, Locks, Listing, Exclusive, LoadAttach, InBody
  <2> QED
    BY <2>1, <2>2, <2>3 DEF Records, NotRegistered, LoadAttach
<1>5. Contexts'
  <2>1. \A i : Native(i)' <=> Native(i)
    BY DEF Native, LoadAttach, InBody
  <2>2. \A i \in contexts' : Native(i)' \/ (i = next_id' /\ \E v \in Workers : pc'[v] = "publish")
    BY <2>1 DEF TypeOK, Contexts, LoadAttach, InBody
  <2>3. \A i \in Ids : Native(i)' => i \in contexts' \/ \E v \in Workers : pc'[v] = "remove" /\ req'[v].id = i
    BY <2>1 DEF TypeOK, Contexts, LoadAttach, InBody
  <2>4. \A v \in Workers : pc'[v] = "remove" => req'[v].id \notin contexts' /\ req'[v].id \in Loaded'
    BY ServingAssumption DEF TypeOK, Contexts, Locks, Loaded, Exclusive, Guarded, LoadAttach, InBody
  <2>5. \A v \in Workers : pc'[v] \in {"create", "release"} => req'[v].id \in contexts'
    BY ServingAssumption DEF TypeOK, Contexts, Locks, Exclusive, Guarded, LoadAttach, InBody
  <2> QED
    BY <2>2, <2>3, <2>4, <2>5 DEF Contexts
<1>6. Devices'
  <2>0. /\ next_id \in Ids \ contexts
        /\ \A d \in 0 .. MaxSwaps : <<next_id, d>> \notin devices
    BY NextIdIsFresh DEF LoadAttach, InBody, HasRoom
  <2>1. /\ compute'[next_id] = 0
        /\ \A i \in Ids : i # next_id => compute'[i] = compute[i]
    BY <2>0 DEF TypeOK, LoadAttach
  <2>2. HasDevice'
    <3> SUFFICES ASSUME NEW i \in contexts'
                 PROVE  <<i, compute'[i]>> \in devices'
      BY DEF HasDevice
    <3>1. CASE i \in contexts
      <4>1. <<i, compute[i]>> \in devices /\ i \in Ids /\ i # next_id
        BY <3>1, <2>0 DEF Devices, HasDevice, TypeOK
      <4> QED
        BY <4>1, <2>1 DEF LoadAttach
    <3>2. CASE i \notin contexts
      BY <3>2, <2>1 DEF LoadAttach
    <3> QED
      BY <3>1, <3>2
  <2>3. NoOtherDevice'
    <3> SUFFICES ASSUME NEW i \in Ids, NEW d \in 0 .. MaxSwaps, <<i, d>> \in devices'
                 PROVE  i \in contexts' /\ \/ d = compute'[i]
                                           \/ /\ d = compute'[i] - 1
                                              /\ \E v \in Workers : pc'[v] = "release" /\ req'[v].id = i
      BY DEF NoOtherDevice
    <3>1. CASE <<i, d>> \in devices
      <4>1. i # next_id
        BY <3>1, <2>0
      <4>2. i \in contexts /\ \/ d = compute[i]
                              \/ d = compute[i] - 1 /\ \E v \in Workers : pc[v] = "release" /\ req[v].id = i
        BY <3>1 DEF Devices, NoOtherDevice
      <4>3. \A v \in Workers : pc[v] = "release" => pc'[v] = "release" /\ req'[v] = req[v]
        BY DEF LoadAttach, InBody, TypeOK
      <4> QED
        BY <4>1, <4>2, <4>3, <2>1 DEF LoadAttach
    <3>2. CASE <<i, d>> \notin devices
      <4>1. <<i, d>> = <<next_id, 0>> /\ contexts' = contexts \cup {next_id}
        BY <3>2 DEF LoadAttach
      <4> QED
        BY <4>1, <2>1
    <3> QED
      BY <3>1, <3>2
  <2>4. Swapped'
    <3>1. \A v \in Workers : pc'[v] # "release"
      BY DEF TypeOK, Locks, Exclusive, Listing, LoadAttach, InBody
    <3> QED
      BY <3>1 DEF Swapped
  <2> QED
    BY <2>2, <2>3, <2>4 DEF Devices
<1>7. Snapshot'
  <2>1. \A v \in Workers : using'[v] = {}
    BY DEF TypeOK, Locks, Asked, Listing, Exclusive, LoadAttach, InBody
  <2> QED
    BY <2>1 DEF Snapshot
<1> QED
  BY <1>1, <1>2, <1>3, <1>4, <1>5, <1>6, <1>7

\* An unload frees the context and the device of its model.
LEMMA UnloadDetachKeeps ==
  ASSUME IInv, NEW w \in Workers, UnloadDetach(w)
  PROVE  IInv'
<1> USE DEF IInv, Goto, store
<1>1. TypeOK'
  BY ServingAssumption DEF RequestType, TypeOK, UnloadDetach, InBody
<1>2. Locks'
  BY ServingAssumption DEF TypeOK, Locks, Asked, Listing, Exclusive, Guarded, UnloadDetach, InBody
<1>3. Asked'
  BY ServingAssumption DEF TypeOK, Locks, Asked, Listing, Exclusive, Guarded, UnloadDetach, InBody
<1>4. Records'
  BY ServingAssumption DEF TypeOK, Locks, Asked, Records, Listing, Exclusive, Guarded, NotRegistered, HasRoom, UnloadDetach, InBody
<1>5. Contexts'
  <2>1. \A i : Native(i)' <=> Native(i)
    BY DEF Native, UnloadDetach, InBody
  <2>2. \A i \in contexts' : Native(i)' \/ (i = next_id' /\ \E v \in Workers : pc'[v] = "publish")
    BY <2>1 DEF TypeOK, Contexts, UnloadDetach, InBody
  <2>3. \A i \in Ids : Native(i)' => i \in contexts' \/ \E v \in Workers : pc'[v] = "remove" /\ req'[v].id = i
    BY <2>1 DEF TypeOK, Contexts, UnloadDetach, InBody
  <2>4. \A v \in Workers : pc'[v] = "remove" => req'[v].id \notin contexts' /\ req'[v].id \in Loaded'
    BY ServingAssumption DEF TypeOK, Contexts, Locks, Loaded, Exclusive, Guarded, UnloadDetach, InBody
  <2>5. \A v \in Workers : pc'[v] \in {"create", "release"} => req'[v].id \in contexts'
    BY ServingAssumption DEF TypeOK, Contexts, Locks, Listing, Exclusive, Guarded, UnloadDetach, InBody
  <2> QED
    BY <2>2, <2>3, <2>4, <2>5 DEF Contexts
<1>6. Devices'
  <2>1. HasDevice'
    BY ServingAssumption DEF TypeOK, Locks, Asked, Devices, HasDevice, NoOtherDevice, Swapped, Contexts, Listing, Exclusive, Guarded, UnloadDetach, InBody
  <2>2. NoOtherDevice'
    <3> SUFFICES ASSUME NEW i \in Ids, NEW d \in 0 .. MaxSwaps, <<i, d>> \in devices'
                 PROVE  i \in contexts' /\ d = compute'[i]
      BY DEF NoOtherDevice
    <3>1. <<i, d>> \in devices /\ <<i, d>> # <<req[w].id, compute[req[w].id]>>
      BY DEF UnloadDetach
    <3>2. \A v \in Workers : pc[v] # "release"
      BY DEF Locks, Asked, Exclusive, Listing, UnloadDetach, InBody
    <3>3. i \in contexts /\ d = compute[i]
      BY <3>1, <3>2 DEF Devices, NoOtherDevice
    <3>4. i # req[w].id
      BY <3>1, <3>3
    <3> QED
      BY <3>3, <3>4 DEF UnloadDetach
  <2>3. Swapped'
    BY ServingAssumption DEF TypeOK, Locks, Asked, Devices, HasDevice, NoOtherDevice, Swapped, Contexts, Listing, Exclusive, Guarded, UnloadDetach, InBody
  <2> QED
    BY <2>1, <2>2, <2>3 DEF Devices
<1>7. Snapshot'
  <2>1. \A v \in Workers : using'[v] = {}
    BY DEF TypeOK, Locks, Asked, Listing, Exclusive, UnloadDetach, InBody
  <2> QED
    BY <2>1 DEF Snapshot
<1> QED
  BY <1>1, <1>2, <1>3, <1>4, <1>5, <1>6, <1>7

\* A device change looks its model up.
LEMMA FindForSwapKeeps ==
  ASSUME IInv, NEW w \in Workers, FindForSwap(w)
  PROVE  IInv'
<1> USE DEF IInv, Goto, store
<1>1. TypeOK'
  BY ServingAssumption DEF RequestType, TypeOK, FindForSwap, InBody
<1>2. Locks'
  BY ServingAssumption DEF TypeOK, Locks, Asked, Listing, Exclusive, Guarded, FindForSwap, InBody
<1>3. Asked'
  BY ServingAssumption DEF TypeOK, Locks, Asked, Listing, Exclusive, Guarded, FindForSwap, InBody
<1>4. Records'
  BY ServingAssumption DEF TypeOK, Locks, Asked, Records, Listing, Exclusive, Guarded, NotRegistered, HasRoom, FindForSwap, InBody
<1>5. Contexts'
  <2>1. \A i : Native(i)' <=> Native(i)
    BY DEF Native, FindForSwap, InBody
  <2>2. \A i \in contexts' : Native(i)' \/ (i = next_id' /\ \E v \in Workers : pc'[v] = "publish")
    BY <2>1 DEF TypeOK, Contexts, FindForSwap, InBody
  <2>3. \A i \in Ids : Native(i)' => i \in contexts' \/ \E v \in Workers : pc'[v] = "remove" /\ req'[v].id = i
    BY <2>1 DEF TypeOK, Contexts, FindForSwap, InBody
  <2>4. \A v \in Workers : pc'[v] = "remove" => req'[v].id \notin contexts' /\ req'[v].id \in Loaded'
    BY ServingAssumption DEF TypeOK, Contexts, Locks, Loaded, Exclusive, Guarded, FindForSwap, InBody
  <2>5. \A v \in Workers : pc'[v] \in {"create", "release"} => req'[v].id \in contexts'
    BY ServingAssumption DEF TypeOK, Contexts, Locks, Exclusive, Guarded, FindForSwap, InBody
  <2> QED
    BY <2>2, <2>3, <2>4, <2>5 DEF Contexts
<1>6. Devices'
  BY ServingAssumption DEF TypeOK, Locks, Asked, Devices, HasDevice, NoOtherDevice, Swapped, Contexts, Listing, Exclusive, Guarded, FindForSwap, InBody
<1>7. Snapshot'
  BY ServingAssumption DEF TypeOK, Locks, Asked, Snapshot, Listing, Exclusive, Guarded, FindForSwap, InBody
<1> QED
  BY <1>1, <1>2, <1>3, <1>4, <1>5, <1>6, <1>7

\* A device change points the context to the new device.
LEMMA SwapCreateKeeps ==
  ASSUME IInv, NEW w \in Workers, SwapCreate(w)
  PROVE  IInv'
<1> USE DEF IInv, Goto, store
<1>1. TypeOK'
  <2> DEFINE i == req[w].id
  <2>1. i \in Ids /\ compute[i] + 1 \in 0 .. MaxSwaps
    BY ServingAssumption DEF TypeOK, Asked, SwapCreate
  <2>2. compute' \in [Ids -> 0 .. MaxSwaps] /\ devices' \subseteq Ids \X (0 .. MaxSwaps)
    BY <2>1 DEF TypeOK, SwapCreate
  <2> QED
    BY <2>2 DEF TypeOK, SwapCreate
<1>2. Locks'
  BY ServingAssumption DEF TypeOK, Locks, Asked, Listing, Exclusive, Guarded, SwapCreate
<1>3. Asked'
  BY ServingAssumption DEF TypeOK, Locks, Asked, Listing, Exclusive, Guarded, SwapCreate
<1>4. Records'
  BY ServingAssumption DEF TypeOK, Locks, Asked, Records, Listing, Exclusive, Guarded, NotRegistered, HasRoom, SwapCreate
<1>5. Contexts'
  <2>1. \A i : Native(i)' <=> Native(i)
    BY DEF Native, SwapCreate
  <2>2. \A i \in contexts' : Native(i)' \/ (i = next_id' /\ \E v \in Workers : pc'[v] = "publish")
    BY <2>1 DEF TypeOK, Contexts, SwapCreate
  <2>3. \A i \in Ids : Native(i)' => i \in contexts' \/ \E v \in Workers : pc'[v] = "remove" /\ req'[v].id = i
    BY <2>1 DEF TypeOK, Contexts, SwapCreate
  <2>4. \A v \in Workers : pc'[v] = "remove" => req'[v].id \notin contexts' /\ req'[v].id \in Loaded'
    BY ServingAssumption DEF TypeOK, Contexts, Locks, Loaded, Exclusive, Guarded, SwapCreate
  <2>5. \A v \in Workers : pc'[v] \in {"create", "release"} => req'[v].id \in contexts'
    BY ServingAssumption DEF TypeOK, Contexts, Locks, Exclusive, Guarded, SwapCreate
  <2> QED
    BY <2>2, <2>3, <2>4, <2>5 DEF Contexts
<1>6. Devices'
  BY ServingAssumption DEF TypeOK, Locks, Asked, Devices, HasDevice, NoOtherDevice, Swapped, Contexts, Listing, Exclusive, Guarded, SwapCreate
<1>7. Snapshot'
  BY ServingAssumption DEF TypeOK, Locks, Asked, Snapshot, Listing, Exclusive, Guarded, SwapCreate
<1> QED
  BY <1>1, <1>2, <1>3, <1>4, <1>5, <1>6, <1>7

\* A device change releases the old device.
LEMMA SwapReleaseKeeps ==
  ASSUME IInv, NEW w \in Workers, SwapRelease(w)
  PROVE  IInv'
<1> USE DEF IInv, Goto, store
<1>1. TypeOK'
  BY ServingAssumption DEF RequestType, TypeOK, SwapRelease, Answer, NoRequest
<1>2. Locks'
  BY ServingAssumption DEF TypeOK, Locks, Asked, Listing, Exclusive, Guarded, SwapRelease, Answer, NoRequest
<1>3. Asked'
  BY ServingAssumption DEF TypeOK, Locks, Asked, Listing, Exclusive, Guarded, SwapRelease, Answer, NoRequest
<1>4. Records'
  BY ServingAssumption DEF TypeOK, Locks, Asked, Records, Listing, Exclusive, Guarded, NotRegistered, HasRoom, SwapRelease, Answer, NoRequest
<1>5. Contexts'
  <2>1. \A i : Native(i)' <=> Native(i)
    BY DEF Native, SwapRelease, Answer, NoRequest
  <2>2. \A i \in contexts' : Native(i)' \/ (i = next_id' /\ \E v \in Workers : pc'[v] = "publish")
    BY <2>1 DEF TypeOK, Contexts, SwapRelease, Answer, NoRequest
  <2>3. \A i \in Ids : Native(i)' => i \in contexts' \/ \E v \in Workers : pc'[v] = "remove" /\ req'[v].id = i
    BY <2>1 DEF TypeOK, Contexts, SwapRelease, Answer, NoRequest
  <2>4. \A v \in Workers : pc'[v] = "remove" => req'[v].id \notin contexts' /\ req'[v].id \in Loaded'
    BY ServingAssumption DEF TypeOK, Contexts, Locks, Loaded, Exclusive, Guarded, SwapRelease, Answer, NoRequest
  <2>5. \A v \in Workers : pc'[v] \in {"create", "release"} => req'[v].id \in contexts'
    BY ServingAssumption DEF TypeOK, Contexts, Locks, Exclusive, Guarded, SwapRelease, Answer, NoRequest
  <2> QED
    BY <2>2, <2>3, <2>4, <2>5 DEF Contexts
<1>6. Devices'
  BY ServingAssumption DEF TypeOK, Locks, Asked, Devices, HasDevice, NoOtherDevice, Swapped, Contexts, Listing, Exclusive, Guarded, SwapRelease, Answer, NoRequest
<1>7. Snapshot'
  BY ServingAssumption DEF TypeOK, Locks, Asked, Snapshot, Listing, Exclusive, Guarded, SwapRelease, Answer, NoRequest
<1> QED
  BY <1>1, <1>2, <1>3, <1>4, <1>5, <1>6, <1>7

\* The counter wraps from the last id to 0.
LEMMA NextIdWraps ==
  ASSUME next_id \in Ids
  PROVE  NextId = IF next_id = MaxId THEN 0 ELSE next_id + 1
<1>1. MaxId \in Nat /\ MaxId > 0 /\ next_id \in 1 .. MaxId
  BY ServingAssumption DEF Ids
<1>2. CASE next_id = MaxId
  BY <1>1, <1>2 DEF NextId
<1>3. CASE next_id # MaxId
  <2>1. next_id + 1 \in 0 .. MaxId
    BY <1>1, <1>3
  <2> QED
    BY <1>1, <1>3, <2>1 DEF NextId
<1> QED
  BY <1>2, <1>3

\* A load writes its record and moves the counter on.
LEMMA LoadPublishKeeps ==
  ASSUME IInv, NEW w \in Workers, LoadPublish(w)
  PROVE  IInv'
<1> USE DEF IInv
<1> DEFINE e == [id |-> next_id, path |-> req[w].path, native |-> next_id \in contexts]
<1>1. /\ pc[w] = "publish" /\ req[w].op = "load" /\ req[w].path \in Paths
      /\ execution = w /\ models = w
      /\ next_id # 0 /\ Len(registry) < ModelLimit /\ NotRegistered(req[w].path)
      /\ ~torn_down
  BY DEF LoadPublish, Asked, Locks, Exclusive, Guarded, Records, HasRoom
<1>2. next_id \in Ids /\ next_id \notin Loaded
  BY <1>1, NextIdIsFresh
<1>3. e \in EntryType
  BY <1>1, <1>2 DEF EntryType
<1>4. /\ registry \in Seq(EntryType) /\ Len(registry) \in Nat
      /\ registry' \in Seq(EntryType)
      /\ Len(registry') = Len(registry) + 1
      /\ \A k \in 1 .. Len(registry) : registry'[k] = registry[k]
      /\ registry'[Len(registry) + 1] = e
  <2>1. registry \in Seq(EntryType) /\ registry' = Append(registry, e)
    BY DEF TypeOK, EntryType, LoadPublish
  <2> HIDE DEF e
  <2> QED
    BY <2>1, <1>3, AppendProperties, LenProperties
<1>5. next_id' = (IF next_id = MaxId THEN 0 ELSE next_id + 1) /\ next_id' \in 0 .. MaxId
  BY <1>2, NextIdWraps, ServingAssumption DEF LoadPublish, Ids
<1>6. /\ issued'[next_id] = req[w].path
      /\ \A i \in Ids : i # next_id => issued'[i] = issued[i]
      /\ issued' \in [Ids -> Paths \cup {NoPath}]
  BY <1>1, <1>2 DEF TypeOK, LoadPublish
<1>7. /\ pc' = [pc EXCEPT ![w] = "idle"] /\ req' = [req EXCEPT ![w] = NoRequest]
      /\ using' = [using EXCEPT ![w] = {}]
      /\ models' = Nobody /\ execution' = Nobody
      /\ UNCHANGED <<contexts, compute, devices, stop_requested, torn_down>>
  BY <1>1 DEF LoadPublish, Answer, Goto
<1>8. \A v \in Workers : v # w => pc[v] \in {"idle", "execution", "models", "body"} /\ using[v] = {}
  BY <1>1 DEF Locks, Asked, TypeOK, Exclusive
<1>9. \A k \in 1 .. Len(registry) : registry[k] \in EntryType /\ registry[k].id # next_id
                                     /\ registry[k].path # req[w].path
  BY <1>1, <1>2, EntriesAreRecords DEF Loaded, NotRegistered
<1>10. TypeOK'
  <2>1. NoRequest \in RequestType
    BY DEF NoRequest, RequestType, Ops
  <2>2. req' \in [Workers -> RequestType]
    BY <1>7, <2>1 DEF TypeOK, RequestType
  <2>3. Len(registry') =< ModelLimit
    BY <1>1, <1>4, ServingAssumption
  <2> QED
    BY <1>4, <1>5, <1>6, <1>7, <2>2, <2>3 DEF TypeOK, RequestType, EntryType
<1>11. Locks'
  BY <1>1, <1>7, <1>8, ServingAssumption DEF TypeOK, Locks, Listing, Exclusive, Guarded
<1>12. Asked'
  <2>1. \A i \in Ids : issued[i] # NoPath => i # next_id
    BY <1>1, <1>2 DEF Records, Ids
  <2> QED
    BY <1>1, <1>6, <1>7, <1>8, <2>1, ServingAssumption DEF TypeOK, Asked, Listing, Exclusive
<1>13. Records'
  <2>1. \A j, k \in 1 .. Len(registry') :
          j # k => registry'[j].id # registry'[k].id /\ registry'[j].path # registry'[k].path
    BY <1>4, <1>9 DEF Records
  <2>2. \A k \in 1 .. Len(registry') : registry'[k].path = issued'[registry'[k].id]
    BY <1>4, <1>6, <1>9 DEF Records, EntryType
  <2>3. next_id' # 0 => \A i \in Ids : issued'[i] # NoPath => i < next_id'
    BY <1>1, <1>2, <1>5, <1>6 DEF Records, Ids
  <2>4. \A v \in Workers : pc'[v] # "publish"
    BY <1>7, <1>8 DEF TypeOK
  <2> QED
    BY <1>1, <1>7, <2>1, <2>2, <2>3, <2>4 DEF Records
<1>14. \A i : Native(i)' <=> Native(i) \/ (i = next_id /\ next_id \in contexts)
  <2> SUFFICES ASSUME NEW i
               PROVE  Native(i)' <=> Native(i) \/ (i = next_id /\ next_id \in contexts)
    OBVIOUS
  <2>1. ASSUME NEW k \in 1 .. Len(registry'), registry'[k].id = i, registry'[k].native
        PROVE  Native(i) \/ (i = next_id /\ next_id \in contexts)
    <3>1. CASE k \in 1 .. Len(registry)
      BY <1>4, <2>1, <3>1 DEF Native
    <3>2. CASE k = Len(registry) + 1
      <4>1. e.id = i /\ e.native
        BY <1>4, <2>1, <3>2
      <4> QED
        BY <4>1, Zenon
    <3> QED
      BY <1>4, <2>1, <3>1, <3>2
  <2>2. ASSUME NEW k \in 1 .. Len(registry), registry[k].id = i, registry[k].native
        PROVE  Native(i)'
    <3>1. k \in 1 .. Len(registry') /\ registry'[k] = registry[k]
      BY <1>4
    <3> QED
      BY <2>2, <3>1 DEF Native
  <2>3. ASSUME i = next_id, next_id \in contexts
        PROVE  Native(i)'
    <3>1. e.id = i /\ e.native
      BY <2>3, Zenon
    <3>2. /\ Len(registry) + 1 \in 1 .. Len(registry')
          /\ registry'[Len(registry) + 1] = e
      BY <1>4
    <3> HIDE DEF e
    <3> QED
      BY <3>1, <3>2 DEF Native
  <2> QED
    BY <2>1, <2>2, <2>3 DEF Native
<1>15. Contexts'
  <2>1. \A i \in contexts' : Native(i)'
    BY <1>7, <1>14 DEF Contexts
  <2>2. \A v \in Workers : pc'[v] \notin {"remove", "create", "release"}
    BY <1>7, <1>8 DEF TypeOK
  <2>3. \A i \in Ids : Native(i)' => i \in contexts'
    BY <1>1, <1>7, <1>8, <1>14 DEF Contexts
  <2> QED
    BY <2>1, <2>2, <2>3 DEF Contexts
<1>16. Devices'
  BY <1>1, <1>7, <1>8 DEF TypeOK, Devices, HasDevice, NoOtherDevice, Swapped
<1>17. Snapshot'
  BY <1>7, <1>8 DEF TypeOK, Snapshot
<1> QED
  BY <1>10, <1>11, <1>12, <1>13, <1>15, <1>16, <1>17

\* An unload closes the gap its record leaves.
LEMMA UnloadRemoveKeeps ==
  ASSUME IInv, NEW w \in Workers, UnloadRemove(w)
  PROVE  IInv'
<1> USE DEF IInv
<1>1. PICK k \in 1 .. Len(registry) : registry[k].id = req[w].id /\ registry' = Without(k)
  BY DEF UnloadRemove
<1>2. /\ pc[w] = "remove" /\ req[w].op = "unload" /\ execution = w /\ models = w
      /\ ~torn_down /\ req[w].id \notin contexts
  BY DEF UnloadRemove, Asked, Locks, Exclusive, Guarded, Records, Contexts
<1>3. /\ registry \in Seq(EntryType) /\ Len(registry) \in Nat
      /\ registry' \in Seq(EntryType)
      /\ Len(registry') = Len(registry) - 1
      /\ \A j \in 1 .. Len(registry') :
           registry'[j] = IF j < k THEN registry[j] ELSE registry[j + 1]
  <2>1. registry \in Seq(EntryType) /\ Len(registry) \in Nat
    BY LenProperties DEF TypeOK, EntryType
  <2>2. \A j \in 1 .. Len(registry) - 1 :
          (IF j < k THEN registry[j] ELSE registry[j + 1]) \in EntryType
    BY <2>1, EntriesAreRecords
  <2>3. registry' = [j \in 1 .. Len(registry) - 1 |->
                       IF j < k THEN registry[j] ELSE registry[j + 1]]
    BY <1>1 DEF Without
  <2>4. Len(registry) - 1 \in Nat
    BY <2>1
  <2> QED
    BY <2>1, <2>2, <2>3, <2>4, IsASeq
<1>4. /\ pc' = [pc EXCEPT ![w] = "idle"] /\ req' = [req EXCEPT ![w] = NoRequest]
      /\ using' = [using EXCEPT ![w] = {}]
      /\ models' = Nobody /\ execution' = Nobody
      /\ UNCHANGED <<next_id, issued, contexts, compute, devices, stop_requested, torn_down>>
  BY <1>2 DEF UnloadRemove, Answer, Goto
<1>5. \A v \in Workers : v # w => pc[v] \in {"idle", "execution", "models", "body"} /\ using[v] = {}
  BY <1>2 DEF Locks, Asked, TypeOK, Exclusive
<1>6. TypeOK'
  <2>1. NoRequest \in RequestType
    BY DEF NoRequest, RequestType, Ops
  <2>2. req' \in [Workers -> RequestType]
    BY <1>4, <2>1 DEF TypeOK, RequestType
  <2>3. Len(registry') =< ModelLimit
    BY <1>3, ServingAssumption DEF TypeOK
  <2> QED
    BY <1>3, <1>4, <2>2, <2>3 DEF TypeOK, RequestType, EntryType
<1>7. Locks'
  BY <1>2, <1>4, <1>5, ServingAssumption DEF TypeOK, Locks, Listing, Exclusive, Guarded
<1>8. Asked'
  BY <1>4, <1>5, ServingAssumption DEF TypeOK, Asked, Listing, Exclusive
<1>9. Records'
  <2> DEFINE Was(l) == IF l < k THEN l ELSE l + 1
  <2>1. \A j \in 1 .. Len(registry') :
          Was(j) \in 1 .. Len(registry) /\ registry'[j] = registry[Was(j)]
    BY <1>1, <1>3
  <2>2. \A i, j \in 1 .. Len(registry') : i # j => Was(i) # Was(j)
    BY <1>1, <1>3
  <2> HIDE DEF Was
  <2>3. \A i, j \in 1 .. Len(registry') :
          i # j => registry'[i].id # registry'[j].id /\ registry'[i].path # registry'[j].path
    <3>1. \A i, j \in 1 .. Len(registry) :
            i # j => registry[i].id # registry[j].id /\ registry[i].path # registry[j].path
      BY DEF Records
    <3> QED
      BY <2>1, <2>2, <3>1
  <2>4. \A j \in 1 .. Len(registry') : registry'[j].path = issued'[registry'[j].id]
    <3>1. \A j \in 1 .. Len(registry) : registry[j].path = issued[registry[j].id]
      BY DEF Records
    <3> QED
      BY <1>4, <2>1, <3>1
  <2>5. \A v \in Workers : pc'[v] # "publish"
    BY <1>4, <1>5 DEF TypeOK
  <2> QED
    BY <1>2, <1>4, <2>3, <2>4, <2>5 DEF Records
<1>10. \A i : Native(i)' <=> Native(i) /\ i # req[w].id
  <2> SUFFICES ASSUME NEW i
               PROVE  Native(i)' <=> Native(i) /\ i # req[w].id
    OBVIOUS
  <2>1. ASSUME NEW j \in 1 .. Len(registry'), registry'[j].id = i, registry'[j].native
        PROVE  Native(i) /\ i # req[w].id
    <3>1. CASE j < k
      BY <1>1, <1>3, <2>1, <3>1 DEF Native, Records
    <3>2. CASE ~(j < k)
      <4>1. j + 1 \in 1 .. Len(registry) /\ j + 1 # k /\ registry'[j] = registry[j + 1]
        BY <1>1, <1>3, <3>2
      <4> QED
        BY <1>1, <2>1, <4>1 DEF Native, Records
    <3> QED
      BY <3>1, <3>2
  <2>2. ASSUME NEW j \in 1 .. Len(registry), registry[j].id = i, registry[j].native, i # req[w].id
        PROVE  Native(i)'
    <3>1. CASE j < k
      <4>1. j \in 1 .. Len(registry') /\ registry'[j] = registry[j]
        BY <1>1, <1>3, <3>1
      <4> QED
        BY <2>2, <4>1 DEF Native
    <3>2. CASE j > k
      <4>1. j - 1 \in 1 .. Len(registry') /\ registry'[j - 1] = registry[j]
        BY <1>1, <1>3, <3>2
      <4> QED
        BY <2>2, <4>1 DEF Native
    <3> QED
      BY <1>1, <1>3, <2>2, <3>1, <3>2
  <2> QED
    BY <2>1, <2>2 DEF Native
<1>11. Contexts'
  <2>1. \A i \in contexts' : Native(i)'
    BY <1>2, <1>4, <1>5, <1>10 DEF Contexts
  <2>2. \A v \in Workers : pc'[v] \notin {"remove", "create", "release"}
    BY <1>4, <1>5 DEF TypeOK
  <2>3. \A i \in Ids : Native(i)' => i \in contexts'
    BY <1>2, <1>4, <1>5, <1>10 DEF Contexts
  <2> QED
    BY <2>1, <2>2, <2>3 DEF Contexts
<1>12. Devices'
  BY <1>2, <1>4, <1>5 DEF TypeOK, Devices, HasDevice, NoOtherDevice, Swapped
<1>13. Snapshot'
  BY <1>4, <1>5 DEF TypeOK, Snapshot
<1> QED
  BY <1>6, <1>7, <1>8, <1>9, <1>11, <1>12, <1>13

\* The path of a loaded model is the file its id was given out for.
LEMMA PathsAreIssued ==
  ASSUME TypeOK, Records, NEW i \in Loaded
  PROVE  i \in Ids /\ PathOf(i) = issued[i] /\ PathOf(i) \in Paths
<1>1. PICK k \in 1 .. Len(registry) : registry[k].id = i
  BY DEF Loaded
<1>2. registry[k] \in Entry(i)
  BY <1>1 DEF Entry
<1>3. \A e \in Entry(i) : e = registry[k]
  BY <1>1 DEF Entry, Records
<1>4. PathOf(i) = registry[k].path
  BY <1>2, <1>3 DEF PathOf
<1>5. registry[k] \in EntryType
  BY EntriesAreRecords
<1> QED
  BY <1>1, <1>4, <1>5 DEF Records, EntryType

\* While no load is about to publish, every context is a record's.
LEMMA ContextsAreLoaded ==
  ASSUME Contexts, \A v \in Workers : pc[v] # "publish"
  PROVE  contexts \subseteq Loaded
BY DEF Contexts, Native, Loaded

\* An inference copies the records it will read.
LEMMA FindKeeps ==
  ASSUME IInv, NEW w \in Workers, Find(w)
  PROVE  IInv'
<1> USE DEF IInv
<1>1. /\ pc[w] = "body" /\ req[w].op = "run" /\ execution = w /\ models = w
      /\ UNCHANGED <<store, execution, stop_requested, torn_down, req>>
      /\ models' = Nobody /\ pc' = [pc EXCEPT ![w] = "run"]
      /\ using' = [using EXCEPT ![w] = Snapshots({req[w].id, req[w].draft})]
  BY DEF Find, InBody, Locks, Listing, Guarded, Goto
<1>2. \A v \in Workers : v # w => pc[v] \in {"idle", "execution", "models", "body"} /\ using[v] = {}
  BY <1>1 DEF Locks, Asked, TypeOK, Exclusive
<1>3. contexts \subseteq Loaded
  BY <1>1, <1>2, ContextsAreLoaded
<1>4. \A s \in Snapshots({req[w].id, req[w].draft}) :
        /\ s \in [id : Ids, path : Paths, device : 0 .. MaxSwaps]
        /\ s.id \in contexts /\ s.device = compute[s.id] /\ s.path = issued[s.id]
  <2>1. ASSUME NEW i \in contexts
        PROVE  i \in Ids /\ PathOf(i) = issued[i] /\ PathOf(i) \in Paths /\ compute[i] \in 0 .. MaxSwaps
    BY <1>3, PathsAreIssued DEF TypeOK
  <2> QED
    BY <2>1 DEF Snapshots
<1>5. TypeOK'
  <2>1. using' \in [Workers -> SUBSET [id : Ids, path : Paths, device : 0 .. MaxSwaps]]
    <3>1. Snapshots({req[w].id, req[w].draft}) \in SUBSET [id : Ids, path : Paths, device : 0 .. MaxSwaps]
      BY <1>4
    <3>2. using \in [Workers -> SUBSET [id : Ids, path : Paths, device : 0 .. MaxSwaps]]
      BY DEF TypeOK
    <3> HIDE DEF IInv
    <3> QED
      BY <1>1, <3>1, <3>2
  <2>2. pc' \in [Workers -> {"idle", "execution", "models", "body", "publish", "remove",
                             "run", "create", "release"}]
    BY <1>1 DEF TypeOK
  <2> QED
    BY <1>1, <2>1, <2>2 DEF TypeOK, store
<1>6. Locks'
  BY <1>1, <1>2, ServingAssumption DEF TypeOK, Locks, Listing, Exclusive, Guarded
<1>7. Asked'
  BY <1>1, <1>2 DEF TypeOK, Asked, Listing, Exclusive, store
<1>8. Records'
  BY <1>1, <1>2 DEF TypeOK, Records, NotRegistered, HasRoom, store
<1>9. Contexts'
  <2>1. \A i : Native(i)' <=> Native(i)
    BY <1>1 DEF Native, store
  <2>2. \A v \in Workers : pc'[v] \notin {"remove", "create", "release", "publish"}
    BY <1>1, <1>2 DEF TypeOK
  <2>3. \A i \in Ids : Native(i)' => i \in contexts'
    BY <1>1, <1>2, <2>1 DEF Contexts, store
  <2>4. \A i \in contexts' : Native(i)'
    BY <1>1, <1>2, <2>1 DEF Contexts, store
  <2> QED
    BY <2>2, <2>3, <2>4 DEF Contexts
<1>10. Devices'
  BY <1>1, <1>2 DEF TypeOK, Devices, HasDevice, NoOtherDevice, Swapped, store
<1>11. Snapshot'
  BY <1>1, <1>2, <1>4 DEF TypeOK, Snapshot, store
<1> QED
  BY <1>5, <1>6, <1>7, <1>8, <1>9, <1>10, <1>11

\* /v1 reads the template and continues as /generate.
LEMMA CompatTemplateKeeps ==
  ASSUME IInv, NEW w \in Workers, CompatTemplate(w)
  PROVE  IInv'
<1> USE DEF IInv
<1>1. /\ pc[w] = "body" /\ req[w].op = "compat" /\ models = w /\ execution # w
      /\ UNCHANGED <<store, execution, stop_requested, torn_down, using>>
      /\ models' = Nobody
      /\ req[w].id \in Ids /\ req[w].path \in Paths /\ req[w].path = issued[req[w].id]
  BY DEF CompatTemplate, InBody, Locks, Listing, Guarded, Asked
<1>2. \/ /\ pc' = [pc EXCEPT ![w] = "execution"]
         /\ req' = [req EXCEPT ![w].op = "run", ![w].path = issued[req[w].id]]
      \/ /\ pc' = [pc EXCEPT ![w] = "idle"]
         /\ req' = [req EXCEPT ![w] = NoRequest]
  BY PathsAreIssued DEF CompatTemplate, Goto
<1>3. req' \in [Workers -> RequestType] /\ \A v \in Workers : v # w => req'[v] = req[v]
  <2>1. CASE req' = [req EXCEPT ![w] = NoRequest]
    <3>1. NoRequest \in RequestType
      BY DEF NoRequest, RequestType, Ops
    <3> QED
      BY <2>1, <3>1 DEF TypeOK, RequestType
  <2>2. CASE req' = [req EXCEPT ![w].op = "run", ![w].path = issued[req[w].id]]
    <3> DEFINE q == [req[w] EXCEPT !.op = "run", !.path = issued[req[w].id]]
    <3>1. req \in [Workers -> RequestType]
      BY DEF TypeOK, RequestType
    <3>2. q \in RequestType
      BY <1>1, <3>1 DEF RequestType, Ops
    <3>3. req' = [req EXCEPT ![w] = q]
      BY <2>2, <3>1
    <3> HIDE DEF q
    <3> QED
      BY <3>1, <3>2, <3>3
  <2> QED
    BY <1>2, <2>1, <2>2
<1>4. /\ pc'[w] \in {"execution", "idle"}
      /\ \A v \in Workers : v # w => pc'[v] = pc[v]
      /\ pc'[w] = "execution" => /\ req'[w].op = "run" /\ req'[w].id = req[w].id
                                 /\ req'[w].path = issued[req[w].id]
  BY <1>2 DEF TypeOK
<1>5. TypeOK'
  <2>1. pc' \in [Workers -> {"idle", "execution", "models", "body", "publish", "remove",
                             "run", "create", "release"}]
    BY <1>2 DEF TypeOK
  <2> QED
    BY <1>1, <1>3, <2>1 DEF TypeOK, store, RequestType
<1>6. Locks'
  BY <1>1, <1>3, <1>4, ServingAssumption DEF TypeOK, Locks, Listing, Exclusive, Guarded
<1>7. Asked'
  BY <1>1, <1>3, <1>4 DEF TypeOK, Asked, Listing, Exclusive, store
<1>8. Records'
  BY <1>1, <1>3, <1>4 DEF TypeOK, Records, NotRegistered, HasRoom, store
<1>9. Contexts'
  <2>1. \A i : Native(i)' <=> Native(i)
    BY <1>1 DEF Native, store
  <2>2. \A i \in contexts' : Native(i)' \/ (i = next_id' /\ \E v \in Workers : pc'[v] = "publish")
    BY <1>1, <1>4, <2>1 DEF Contexts, store
  <2>3. \A i \in Ids : Native(i)' => i \in contexts' \/ \E v \in Workers : pc'[v] = "remove" /\ req'[v].id = i
    BY <1>1, <1>3, <1>4, <2>1 DEF Contexts, store
  <2>4. \A v \in Workers : pc'[v] = "remove" => req'[v].id \notin contexts' /\ req'[v].id \in Loaded'
    BY <1>1, <1>3, <1>4 DEF Contexts, Loaded, store
  <2>5. \A v \in Workers : pc'[v] \in {"create", "release"} => req'[v].id \in contexts'
    BY <1>1, <1>3, <1>4 DEF Contexts, store
  <2> QED
    BY <2>2, <2>3, <2>4, <2>5 DEF Contexts
<1>10. Devices'
  <2>1. \A v \in Workers : pc'[v] = "release" <=> pc[v] = "release"
    BY <1>1, <1>4
  <2>2. \A v \in Workers : pc[v] = "release" => req'[v] = req[v]
    BY <1>1, <1>3
  <2>3. HasDevice' /\ Swapped'
    BY <1>1, <2>1, <2>2 DEF Devices, HasDevice, Swapped, store
  <2>4. NoOtherDevice'
    BY <1>1, <2>1, <2>2 DEF Devices, NoOtherDevice, store
  <2> QED
    BY <2>3, <2>4 DEF Devices
<1>11. Snapshot'
  BY <1>1 DEF Snapshot, store
<1> QED
  BY <1>5, <1>6, <1>7, <1>8, <1>9, <1>10, <1>11

\* The teardown frees what the records hold, which is everything.
LEMMA TearDownKeeps ==
  ASSUME IInv, TearDown
  PROVE  IInv'
<1> USE DEF IInv
<1>1. /\ \A v \in Workers : pc[v] = "idle"
      /\ UNCHANGED <<compute, issued, models, execution, stop_requested, pc, req, using>>
      /\ registry' = << >> /\ next_id' = 1 /\ torn_down' = TRUE /\ stop_requested
      /\ contexts' = contexts \ Loaded
      /\ devices' = devices \ {<<i, compute[i]>> : i \in Loaded}
  BY DEF TearDown
<1>2. contexts \subseteq Loaded
  BY <1>1, ContextsAreLoaded
<1>3. contexts' = {}
  BY <1>1, <1>2
<1>4. \A i \in Ids, d \in 0 .. MaxSwaps : <<i, d>> \notin devices'
  BY <1>1, <1>2 DEF Devices, NoOtherDevice
<1>5. TypeOK'
  BY <1>1, <1>3, ServingAssumption DEF TypeOK
<1>6. Locks'
  BY <1>1 DEF Locks, Listing, Exclusive, Guarded
<1>7. Asked'
  BY <1>1 DEF Asked, Listing, Exclusive
<1>8. Records'
  BY <1>1 DEF Records
<1>9. Contexts'
  BY <1>1, <1>3 DEF Contexts, Native
<1>10. Devices'
  BY <1>1, <1>3, <1>4 DEF Devices, HasDevice, NoOtherDevice, Swapped
<1>11. Snapshot'
  BY <1>1 DEF Snapshot, Asked
<1> QED
  BY <1>5, <1>6, <1>7, <1>8, <1>9, <1>10, <1>11

\* Stop and a step in which nothing changes.
LEMMA IdleKeeps ==
  ASSUME IInv, Stop \/ UNCHANGED vars
  PROVE  IInv'
<1> USE DEF IInv
<1>1. /\ UNCHANGED <<store, models, execution, torn_down, pc, req, using>>
      /\ stop_requested' = stop_requested \/ stop_requested' = TRUE
  BY DEF Stop, vars, store
<1>2. TypeOK'
  BY <1>1 DEF TypeOK, store
<1>3. Locks' /\ Asked' /\ Snapshot'
  BY <1>1 DEF Locks, Asked, Snapshot, Listing, store
<1>4. Records'
  BY <1>1 DEF Records, NotRegistered, HasRoom, store
<1>5. Contexts'
  BY <1>1 DEF Contexts, Native, Loaded, store
<1>6. Devices'
  BY <1>1 DEF Devices, HasDevice, NoOtherDevice, Swapped, store
<1> QED
  BY <1>2, <1>3, <1>4, <1>5, <1>6

-----------------------------------------------------------------------------
(* The theorems.                                                           *)

\* Every handler, in every interleaving with the others, a stop and the
\* teardown, keeps the invariant.
THEOREM Invariance == Spec => []IInv
<1>1. Init => IInv
  <2> SUFFICES ASSUME Init
               PROVE  IInv
    OBVIOUS
  <2>1. NoRequest \in RequestType
    BY DEF NoRequest, RequestType, Ops
  <2>2. TypeOK
    <3>1. registry \in Seq(EntryType) /\ Len(registry) =< ModelLimit
      BY ServingAssumption DEF Init
    <3>2. next_id \in 0 .. MaxId /\ compute \in [Ids -> 0 .. MaxSwaps]
      BY ServingAssumption DEF Init
    <3>3. req \in [Workers -> RequestType]
      BY <2>1 DEF Init
    <3>4. /\ using \in [Workers -> SUBSET [id : Ids, path : Paths, device : 0 .. MaxSwaps]]
          /\ issued \in [Ids -> Paths \cup {NoPath}]
      BY DEF Init
    <3> QED
      BY <3>1, <3>2, <3>3, <3>4 DEF Init, TypeOK, RequestType, EntryType
  <2>3. Locks /\ Asked /\ Snapshot
    BY ServingAssumption DEF Init, Locks, Asked, Snapshot, Exclusive, Guarded
  <2>4. Records /\ Contexts
    BY DEF Init, Records, Contexts, Native
  <2>5. Devices
    BY DEF Init, Devices, HasDevice, NoOtherDevice, Swapped
  <2> QED
    BY <2>2, <2>3, <2>4, <2>5 DEF IInv
<1>2. IInv /\ [Next]_vars => IInv'
  <2> SUFFICES ASSUME IInv, [Next]_vars
               PROVE  IInv'
    OBVIOUS
  <2>1. ASSUME NEW w \in Workers, NEW r \in Requests, Begin(w, r)
        PROVE  IInv'
    BY <2>1, BeginKeeps
  <2>2. ASSUME NEW w \in Workers, LockExecution(w)
        PROVE  IInv'
    BY <2>2, LockExecutionKeeps
  <2>3. ASSUME NEW w \in Workers, LockModels(w)
        PROVE  IInv'
    BY <2>3, LockModelsKeeps
  <2>4. ASSUME NEW w \in Workers, Computed(w)
        PROVE  IInv'
    BY <2>4, AnswerKeeps DEF Computed
  <2>5. ASSUME NEW w \in Workers, Brief(w)
        PROVE  IInv'
    <3>1. CASE \/ Read(w) \/ LoadKnown(w) \/ LoadRejected(w) \/ NotLoaded(w)
               \/ Unsupported(w) \/ SwapNone(w)
      BY <3>1, AnswerKeeps
      DEF Read, LoadKnown, LoadRejected, NotLoaded, Unsupported, SwapNone, InBody
    <3>2. CASE LoadAttach(w)
      BY <3>2, LoadAttachKeeps
    <3>3. CASE LoadPublish(w)
      BY <3>3, LoadPublishKeeps
    <3>4. CASE UnloadDetach(w)
      BY <3>4, UnloadDetachKeeps
    <3>5. CASE UnloadRemove(w)
      BY <3>5, UnloadRemoveKeeps
    <3>6. CASE Find(w)
      BY <3>6, FindKeeps
    <3>7. CASE CompatTemplate(w)
      BY <3>7, CompatTemplateKeeps
    <3>8. CASE FindForSwap(w)
      BY <3>8, FindForSwapKeeps
    <3>9. CASE SwapCreate(w)
      BY <3>9, SwapCreateKeeps
    <3>10. CASE SwapRelease(w)
      BY <3>10, SwapReleaseKeeps
    <3> QED
      BY <2>5, <3>1, <3>2, <3>3, <3>4, <3>5, <3>6, <3>7, <3>8, <3>9, <3>10 DEF Brief
  <2>6. CASE TearDown
    BY <2>6, TearDownKeeps
  <2>7. CASE Stop \/ Terminated \/ UNCHANGED vars
    BY <2>7, IdleKeeps DEF Terminated
  <2> QED
    BY <2>1, <2>2, <2>3, <2>4, <2>5, <2>6, <2>7 DEF Next
<1> QED
  BY <1>1, <1>2, PTL DEF Spec

\* What an inference reads stays allocated and stays the same object until it
\* ends, for any number of clients: unload and a device swap wait for it.
THEOREM SnapshotsValid == Spec => []SnapshotsStayValid
<1>1. IInv => SnapshotsStayValid
  BY DEF IInv, Snapshot, Devices, HasDevice, SnapshotsStayValid
<1> QED
  BY <1>1, Invariance, PTL

\* The model that computes is the file the client meant by its id, also when
\* the counter has wrapped: nya_model_load then refuses.
THEOREM RunsTheAsked == Spec => []RunsWhatWasAsked
<1>1. IInv => RunsWhatWasAsked
  <2> SUFFICES ASSUME IInv, NEW w \in Workers, pc[w] = "run", NEW s \in using[w], s.id = req[w].id
               PROVE  s.path = req[w].path
    BY DEF RunsWhatWasAsked
  <2>1. s.path = issued[s.id]
    BY DEF IInv, Snapshot
  <2>2. req[w].path = issued[req[w].id]
    BY DEF IInv, Asked
  <2> QED
    BY <2>1, <2>2
<1> QED
  BY <1>1, Invariance, PTL

\* Whenever no provider operation is under way, every record that got a
\* provider has its context and its one device, and nothing else is allocated.
THEOREM RegistryExact == Spec => []RegistryIsExact
<1>1. IInv => RegistryIsExact
  <2> SUFFICES ASSUME IInv
               PROVE  RegistryIsExact
    OBVIOUS
  <2> USE DEF IInv
  <2>1. ASSUME execution = Nobody
        PROVE  \A v \in Workers : pc[v] \notin Exclusive
    BY <2>1, ServingAssumption DEF Locks
  <2>2. ASSUME execution = Nobody
        PROVE  contexts = {registry[k].id : k \in {j \in 1 .. Len(registry) : registry[j].native}}
    <3>1. \A i \in contexts : Native(i)
      BY <2>1, <2>2 DEF Contexts, Exclusive
    <3>2. \A k \in 1 .. Len(registry) : registry[k].id \in Ids
      BY EntriesAreRecords DEF EntryType
    <3>3. \A k \in 1 .. Len(registry) : registry[k].native => registry[k].id \in contexts
      BY <2>1, <2>2, <3>2 DEF Contexts, Native, Exclusive
    <3> QED
      BY <3>1, <3>3 DEF Native
  <2>3. ASSUME execution = Nobody
        PROVE  devices = {<<i, compute[i]>> : i \in contexts}
    <3>1. \A i \in contexts : <<i, compute[i]>> \in devices
      BY DEF Devices, HasDevice
    <3>2. ASSUME NEW p \in devices
          PROVE  \E i \in contexts : p = <<i, compute[i]>>
      <4>1. PICK i \in Ids, d \in 0 .. MaxSwaps : p = <<i, d>>
        BY DEF TypeOK
      <4>2. i \in contexts /\ d = compute[i]
        BY <2>1, <2>3, <4>1 DEF Devices, NoOtherDevice, Exclusive
      <4> QED
        BY <4>1, <4>2
    <3> QED
      BY <3>1, <3>2
  <2> QED
    BY <2>2, <2>3 DEF RegistryIsExact, Records
<1> QED
  BY <1>1, Invariance, PTL

-----------------------------------------------------------------------------
(* The chats of the window (Client is ChatClient).                         *)

\* Every answer of a chat stands behind its prompt.
Ordered(ms) == \A i \in DOMAIN ms : ms[i].role = "assistant" =>
                 i > 1 /\ ms[i - 1] = Client!User(ms[i].text)

\* Chats a window may hold, or a store.
Orderly(cs) == \A c \in DOMAIN cs : cs[c] \in Client!Chats /\ Ordered(cs[c].messages)

\* The chat that waits for an answer ends with the prompt.
Pending(cs) == /\ request.chat \in DOMAIN cs
               /\ LET ms == cs[request.chat].messages
                  IN ms # << >> /\ ms[Len(ms)] = Client!User(request.prompt)

ChatInv == /\ Orderly(chats) /\ active \in DOMAIN chats
           /\ Orderly(stored.chats) /\ stored.active \in DOMAIN stored.chats
           /\ ~ busy => request = Client!NoRequest
           /\ {"chat", "prompt"} \subseteq DOMAIN request
           /\ request.chat # Nowhere =>
                request.prompt \in Prompts /\ Pending(chats) /\ Pending(stored.chats)
           /\ edit.index \in Nat

\* The chats that the operations of the window make of orderly ones.
LEMMA OrderedEmpty == << >> \in Seq(Client!Messages) /\ Ordered(<< >>)
  BY EmptySeq DEF Ordered

LEMMA OrderedPrompt ==
  ASSUME NEW ms \in Seq(Client!Messages), Ordered(ms), NEW p \in Prompts
  PROVE  /\ Append(ms, Client!User(p)) \in Seq(Client!Messages)
         /\ Ordered(Append(ms, Client!User(p)))
         /\ Append(ms, Client!User(p)) # << >>
         /\ Append(ms, Client!User(p))[Len(Append(ms, Client!User(p)))] = Client!User(p)
<1> DEFINE m == Client!User(p)
           longer == Append(ms, m)
<1>1. m \in Client!Messages /\ m.role # "assistant"
  BY DEF Client!User, Client!Messages
<1> HIDE DEF m
<1>2. /\ longer \in Seq(Client!Messages) /\ Len(longer) = Len(ms) + 1
      /\ \A i \in 1 .. Len(ms) : longer[i] = ms[i]
      /\ longer[Len(ms) + 1] = m /\ longer # << >>
  BY <1>1, AppendProperties
<1>3. Len(ms) \in Nat /\ DOMAIN ms = 1 .. Len(ms) /\ DOMAIN longer = 1 .. Len(ms) + 1
  BY <1>2, LenProperties
<1> HIDE DEF longer
<1>4. Ordered(longer)
  <2>1. ASSUME NEW i \in 1 .. Len(ms) + 1, longer[i].role = "assistant"
        PROVE  i > 1 /\ longer[i - 1] = Client!User(longer[i].text)
    <3>1. i \in 1 .. Len(ms)
      BY <1>1, <1>2, <1>3, <2>1
    <3>2. i > 1 /\ ms[i - 1] = Client!User(ms[i].text)
      BY <1>2, <1>3, <2>1, <3>1 DEF Ordered
    <3> QED
      BY <1>2, <1>3, <3>1, <3>2
  <2> QED
    BY <1>3, <2>1 DEF Ordered
<1> QED
  BY <1>2, <1>4 DEF longer, m

LEMMA OrderedAnswer ==
  ASSUME NEW ms \in Seq(Client!Messages), Ordered(ms), NEW p \in Prompts,
         ms # << >>, ms[Len(ms)] = Client!User(p)
  PROVE  /\ Append(ms, Client!Answer(p)) \in Seq(Client!Messages)
         /\ Ordered(Append(ms, Client!Answer(p)))
<1> DEFINE m == Client!Answer(p)
           longer == Append(ms, m)
<1>1. m \in Client!Messages /\ m.text = p
  BY DEF Client!Answer, Client!Messages
<1> HIDE DEF m
<1>2. /\ longer \in Seq(Client!Messages) /\ Len(longer) = Len(ms) + 1
      /\ \A i \in 1 .. Len(ms) : longer[i] = ms[i]
      /\ longer[Len(ms) + 1] = m
  BY <1>1, AppendProperties
<1>3. /\ Len(ms) \in Nat \ {0} /\ DOMAIN ms = 1 .. Len(ms)
      /\ DOMAIN longer = 1 .. Len(ms) + 1
  BY <1>2, LenProperties, EmptySeq
<1> HIDE DEF longer
<1>4. Ordered(longer)
  <2>1. ASSUME NEW i \in 1 .. Len(ms) + 1, longer[i].role = "assistant"
        PROVE  i > 1 /\ longer[i - 1] = Client!User(longer[i].text)
    <3>1. CASE i \in 1 .. Len(ms)
      <4>1. i > 1 /\ ms[i - 1] = Client!User(ms[i].text)
        BY <1>2, <1>3, <2>1, <3>1 DEF Ordered
      <4> QED
        BY <1>2, <1>3, <3>1, <4>1
    <3>2. CASE i = Len(ms) + 1
      <4>1. i > 1 /\ longer[i - 1] = ms[Len(ms)]
        BY <1>2, <1>3, <3>2
      <4> QED
        BY <1>1, <1>2, <3>2, <4>1
    <3> QED
      BY <1>3, <3>1, <3>2
  <2> QED
    BY <1>3, <2>1 DEF Ordered
<1> QED
  BY <1>2, <1>4 DEF longer, m

LEMMA OrderedPrefix ==
  ASSUME NEW ms \in Seq(Client!Messages), Ordered(ms), NEW k \in Nat, k =< Len(ms)
  PROVE  /\ SubSeq(ms, 1, k) \in Seq(Client!Messages)
         /\ Ordered(SubSeq(ms, 1, k))
<1> DEFINE shorter == SubSeq(ms, 1, k)
<1>1. Len(ms) \in Nat /\ DOMAIN ms = 1 .. Len(ms)
  BY LenProperties
<1>2. /\ shorter \in Seq(Client!Messages) /\ Len(shorter) = k
      /\ \A i \in 1 .. k : shorter[i] = ms[i]
  <2>1. 1 \in 1 .. Len(ms) + 1 /\ k \in 1 - 1 .. Len(ms)
    BY <1>1
  <2>2. /\ shorter \in Seq(Client!Messages)
        /\ Len(shorter) = k - 1 + 1
        /\ \A i \in 1 .. k - 1 + 1 : shorter[i] = ms[1 + i - 1]
    BY <2>1, SubSeqProperties
  <2> HIDE DEF shorter
  <2>3. k - 1 + 1 = k /\ \A i \in 1 .. k : 1 + i - 1 = i
    OBVIOUS
  <2> QED
    BY <2>2, <2>3
<1>3. DOMAIN shorter = 1 .. k
  BY <1>2, LenProperties
<1> HIDE DEF shorter
<1>4. Ordered(shorter)
  <2>1. ASSUME NEW i \in 1 .. k, shorter[i].role = "assistant"
        PROVE  i > 1 /\ shorter[i - 1] = Client!User(shorter[i].text)
    <3>1. i > 1 /\ ms[i - 1] = Client!User(ms[i].text)
      BY <1>1, <1>2, <2>1, SMTT(30) DEF Ordered
    <3> QED
      BY <1>2, <3>1
  <2> QED
    BY <1>3, <2>1 DEF Ordered
<1> QED
  BY <1>2, <1>4 DEF shorter

LEMMA OrderlyOne ==
  ASSUME NEW cs, Orderly(cs), NEW c \in DOMAIN cs,
         NEW ms \in Seq(Client!Messages), Ordered(ms), NEW d \in Client!Drafts
  PROVE  /\ Orderly([cs EXCEPT ![c] = [messages |-> ms, draft |-> d]])
         /\ Orderly([cs EXCEPT ![c].messages = ms])
         /\ Orderly([cs EXCEPT ![c].draft = d])
<1>1. cs[c] \in Client!Chats /\ Ordered(cs[c].messages)
  BY DEF Orderly
<1>2. /\ [cs[c] EXCEPT !.messages = ms] = [messages |-> ms, draft |-> cs[c].draft]
      /\ [cs[c] EXCEPT !.draft = d] = [messages |-> cs[c].messages, draft |-> d]
      /\ cs[c].draft \in Client!Drafts /\ cs[c].messages \in Seq(Client!Messages)
  BY <1>1 DEF Client!Chats
<1>3. ASSUME NEW n \in Seq(Client!Messages), Ordered(n), NEW e \in Client!Drafts
      PROVE  Orderly([cs EXCEPT ![c] = [messages |-> n, draft |-> e]])
  <2> DEFINE chat == [messages |-> n, draft |-> e]
             next == [cs EXCEPT ![c] = chat]
  <2>1. chat \in Client!Chats /\ chat.messages = n
    BY DEF Client!Chats
  <2> HIDE DEF chat
  <2>2. DOMAIN next = DOMAIN cs /\ next[c] = chat /\ \A x \in DOMAIN cs : x # c => next[x] = cs[x]
    OBVIOUS
  <2> HIDE DEF next
  <2>3. ASSUME NEW x \in DOMAIN next PROVE next[x] \in Client!Chats /\ Ordered(next[x].messages)
    BY <1>3, <2>1, <2>2 DEF Orderly
  <2>4. Orderly(next)
    BY <2>3 DEF Orderly
  <2> QED
    BY <2>4 DEF next, chat
<1>4. Orderly([cs EXCEPT ![c] = [messages |-> ms, draft |-> d]])
  BY <1>3
<1>5. Orderly([cs EXCEPT ![c] = [messages |-> ms, draft |-> cs[c].draft]])
  BY <1>2, <1>3
<1>6. Orderly([cs EXCEPT ![c] = [messages |-> cs[c].messages, draft |-> d]])
  BY <1>1, <1>2, <1>3
<1>7. [cs EXCEPT ![c].messages = ms] = [cs EXCEPT ![c] = [messages |-> ms, draft |-> cs[c].draft]]
  BY <1>2
<1>8. [cs EXCEPT ![c].draft = d] = [cs EXCEPT ![c] = [messages |-> cs[c].messages, draft |-> d]]
  BY <1>2
<1> QED
  BY <1>4, <1>5, <1>6, <1>7, <1>8

\* The chat's messages from the k-th on are cut off.
LEMMA OrderlyCut ==
  ASSUME Orderly(chats), active \in DOMAIN chats, NEW k \in Nat \ {0}
  PROVE  Orderly(Client!Cut(chats, k)) /\ DOMAIN Client!Cut(chats, k) = DOMAIN chats
<1> DEFINE ms == chats[active].messages
           left == IF k > Len(ms) THEN ms ELSE SubSeq(ms, 1, k - 1)
<1>1. ms \in Seq(Client!Messages) /\ Ordered(ms) /\ chats[active].draft \in Client!Drafts
  BY DEF Orderly, Client!Chats
<1>2. Len(ms) \in Nat
  BY <1>1, LenProperties
<1>3. left \in Seq(Client!Messages) /\ Ordered(left)
  <2>1. ~ (k > Len(ms)) => k - 1 \in Nat /\ k - 1 =< Len(ms)
    BY <1>2
  <2> QED
    BY <1>1, <2>1, OrderedPrefix
<1>4. Client!Cut(chats, k) = [chats EXCEPT ![active].messages = left]
  BY DEF Client!Cut
<1> HIDE DEF left, ms
<1>5. Orderly([chats EXCEPT ![active].messages = left])
  BY <1>1, <1>3, OrderlyOne
<1> QED
  BY <1>4, <1>5

\* What is saved is in memory and in the store.
LEMMA SavedSame ==
  ASSUME NEW cs, NEW a \in DOMAIN cs, Orderly(cs), Client!Save(cs, a),
         ~ busy' => request' = Client!NoRequest, edit'.index \in Nat,
         {"chat", "prompt"} \subseteq DOMAIN request',
         request'.chat # Nowhere =>
           /\ request'.prompt \in Prompts /\ request'.chat \in DOMAIN cs
           /\ cs[request'.chat].messages # << >>
           /\ cs[request'.chat].messages[Len(cs[request'.chat].messages)]
                = Client!User(request'.prompt)
  PROVE  ChatInv'
<1>1. /\ chats' = cs /\ active' = a /\ stored'.chats = cs /\ stored'.active = a
  BY DEF Client!Save
<1> QED
  BY <1>1 DEF ChatInv, Pending, Orderly

\* generate() sends a prompt of the user, or only leaves the chats cut.
LEMMA ChatGenerate ==
  ASSUME ChatInv, ~ busy, NEW cs, Orderly(cs), DOMAIN cs = DOMAIN chats,
         NEW p \in Prompts, Client!Generate(cs, p), edit'.index \in Nat
  PROVE  ChatInv'
<1>1. CASE busy \/ actionBusy
  <2>1. chats' = cs /\ UNCHANGED <<active, stored, busy, request>>
    BY <1>1 DEF Client!Generate
  <2>2. request = Client!NoRequest /\ request.chat = Nowhere
    BY DEF ChatInv, Client!NoRequest
  <2> QED
    BY <2>1, <2>2 DEF ChatInv, Orderly
<1>2. CASE ~ (busy \/ actionBusy)
  <2> DEFINE ms == Append(cs[active].messages, Client!User(p))
             after == [cs EXCEPT ![active] = [messages |-> ms, draft |-> NoText]]
  <2>1. active \in DOMAIN cs
    BY DEF ChatInv
  <2>2. cs[active].messages \in Seq(Client!Messages) /\ Ordered(cs[active].messages)
    BY <2>1 DEF Orderly, Client!Chats
  <2>3. /\ ms \in Seq(Client!Messages) /\ Ordered(ms)
        /\ ms # << >> /\ ms[Len(ms)] = Client!User(p)
    BY <2>2, OrderedPrompt
  <2>4. /\ Client!Save(after, active) /\ busy' = TRUE
        /\ request'.chat = active /\ request'.prompt = p
        /\ {"chat", "prompt"} \subseteq DOMAIN request'
    BY <1>2 DEF Client!Generate
  <2> HIDE DEF ms
  <2>5. Orderly(after)
    BY <2>1, <2>3, OrderlyOne DEF Client!Drafts
  <2>6. after[active].messages = ms /\ active \in DOMAIN after
    BY <2>1
  <2> HIDE DEF after
  <2> QED
    BY <2>3, <2>4, <2>5, <2>6, SavedSame
<1> QED
  BY <1>1, <1>2

LEMMA ChatStep == ASSUME ChatInv, Client!Next PROVE ChatInv'
<1> DEFINE Same == UNCHANGED <<chats, active, stored>>
<1>1. ASSUME Same, UNCHANGED edit, UNCHANGED request \/ request' = Client!NoRequest,
             ~ busy' => request' = Client!NoRequest
      PROVE  ChatInv'
  BY <1>1 DEF ChatInv, Pending, Orderly, Client!NoRequest
<1>2. /\ Orderly(chats) /\ active \in DOMAIN chats /\ edit.index \in Nat
      /\ {"chat", "prompt"} \subseteq DOMAIN request
      /\ {"chat", "prompt"} \subseteq DOMAIN Client!NoRequest
      /\ request.chat # Nowhere =>
           /\ request.prompt \in Prompts /\ request.chat \in DOMAIN chats
           /\ chats[request.chat].messages # << >>
           /\ chats[request.chat].messages[Len(chats[request.chat].messages)]
                = Client!User(request.prompt)
  BY DEF ChatInv, Pending, Client!NoRequest
<1>3. ASSUME NEW a \in DOMAIN chats, Client!Save(chats, a), UNCHANGED <<busy, request, edit>>
      PROVE  ChatInv'
  BY <1>2, <1>3, SavedSame DEF ChatInv
<1>4. \A c \in DOMAIN chats :
        /\ chats[c].messages \in Seq(Client!Messages) /\ Ordered(chats[c].messages)
        /\ chats[c].draft \in Client!Drafts
  BY <1>2 DEF Orderly, Client!Chats
<1>5. ~ busy => request = Client!NoRequest /\ request.chat = Nowhere
  BY DEF ChatInv, Client!NoRequest
<1>6. CASE Client!Submit
  <2> DEFINE p == chats[active].draft
             cs == IF edit.index # 0 /\ edit.chat = active
                     THEN Client!Cut(chats, edit.index) ELSE chats
  <2>1. p \in Prompts /\ ~ busy /\ Client!Generate(cs, p) /\ edit'.index \in Nat
    <3>1. p # NoText /\ ~ busy /\ Client!Generate(cs, p) /\ edit' = Client!NoEdit
      BY <1>6 DEF Client!Submit
    <3>2. p \in Client!Drafts
      BY <1>2, <1>4
    <3>3. Client!NoEdit.index = 0
      BY DEF Client!NoEdit
    <3> QED
      BY <3>1, <3>2, <3>3 DEF Client!Drafts
  <2>2. Orderly(cs) /\ DOMAIN cs = DOMAIN chats
    BY <1>2, OrderlyCut
  <2> HIDE DEF cs, p
  <2> QED
    BY <2>1, <2>2, ChatGenerate
<1>7. CASE Client!Regenerate
  <2> PICK i \in DOMAIN chats[active].messages :
        /\ ~ busy /\ edit' = edit
        /\ \E k \in 1 .. i - 1 :
             Client!Generate(Client!Cut(chats, k), chats[active].messages[k].text)
    BY <1>7 DEF Client!Regenerate, Client!Here
  <2>1. PICK k \in 1 .. i - 1 :
          Client!Generate(Client!Cut(chats, k), chats[active].messages[k].text)
    OBVIOUS
  <2>2. /\ k \in Nat \ {0} /\ k \in 1 .. Len(chats[active].messages)
    <3>1. DOMAIN chats[active].messages = 1 .. Len(chats[active].messages)
          /\ Len(chats[active].messages) \in Nat
      BY <1>2, <1>4, LenProperties
    <3> QED
      BY <2>1, <3>1
  <2>3. chats[active].messages[k].text \in Prompts
    <3>1. chats[active].messages[k] \in Client!Messages
      BY <1>2, <1>4, <2>2, ElementOfSeq
    <3> QED
      BY <3>1 DEF Client!Messages
  <2>4. Orderly(Client!Cut(chats, k)) /\ DOMAIN Client!Cut(chats, k) = DOMAIN chats
    BY <1>2, <2>2, OrderlyCut
  <2>5. edit'.index \in Nat
    BY <1>2, <2>1
  <2> QED
    BY <2>1, <2>3, <2>4, <2>5, ChatGenerate
<1>8. CASE Client!Lab
  <2>1. /\ busy' = TRUE /\ request'.chat = Nowhere /\ Client!Save(chats, active) /\ edit' = edit
        /\ {"chat", "prompt"} \subseteq DOMAIN request'
    BY <1>8 DEF Client!Lab, Client!NoRequest
  <2> QED
    BY <1>2, <2>1, SavedSame
<1>9. CASE Client!Update
  <2>1. /\ busy /\ UNCHANGED <<chats, active, stored, busy, edit>>
        /\ request'.chat = request.chat /\ request'.prompt = request.prompt
        /\ {"chat", "prompt"} \subseteq DOMAIN request'
    BY <1>9 DEF Client!Update, ChatInv
  <2> QED
    BY <2>1 DEF ChatInv, Pending, Orderly
<1>10. ASSUME NEW cs, Orderly(cs), DOMAIN cs = DOMAIN chats, Client!Settle(cs)
       PROVE  ChatInv'
  <2>1. /\ request' = Client!NoRequest /\ request'.chat = Nowhere /\ edit' = edit
        /\ Client!Save(cs, active)
    BY <1>10 DEF Client!Settle, Client!NoRequest
  <2> QED
    BY <1>2, <1>10, <2>1, SavedSame
<1>11. Orderly(Client!Push) /\ DOMAIN Client!Push = DOMAIN chats
  <2> DEFINE c == request.chat
             ms == chats[c].messages
             more == Append(ms, Client!Answer(request.prompt))
  <2>1. CASE c = Nowhere
    BY <1>2, <2>1 DEF Client!Push
  <2>2. CASE c # Nowhere
    <3>1. /\ c \in DOMAIN chats /\ more \in Seq(Client!Messages) /\ Ordered(more)
          /\ chats[c].draft \in Client!Drafts
      BY <1>2, <1>4, <2>2, OrderedAnswer
    <3>2. Client!Push = [chats EXCEPT ![c].messages = more]
      BY <2>2 DEF Client!Push
    <3> HIDE DEF more, c
    <3>3. Orderly([chats EXCEPT ![c].messages = more])
      BY <1>2, <3>1, OrderlyOne
    <3> QED
      BY <3>2, <3>3
  <2> QED
    BY <2>1, <2>2
<1>12. Orderly(Client!Withdraw) /\ DOMAIN Client!Withdraw = DOMAIN chats
  <2> DEFINE c == request.chat
             ms == chats[c].messages
             less == SubSeq(ms, 1, Len(ms) - 1)
             d == request.prompt
  <2>1. CASE c = Nowhere
    BY <1>2, <2>1 DEF Client!Withdraw
  <2>2. CASE c # Nowhere
    <3>1. /\ c \in DOMAIN chats /\ ms \in Seq(Client!Messages) /\ Ordered(ms) /\ ms # << >>
          /\ d \in Client!Drafts
      BY <1>2, <1>4, <2>2 DEF Client!Drafts
    <3>2. Len(ms) - 1 \in Nat /\ Len(ms) - 1 =< Len(ms)
      BY <3>1, EmptySeq
    <3>3. less \in Seq(Client!Messages) /\ Ordered(less)
      BY <3>1, <3>2, OrderedPrefix
    <3>4. Client!Withdraw = [chats EXCEPT ![c] = [messages |-> less, draft |-> d]]
      BY <2>2 DEF Client!Withdraw
    <3> HIDE DEF less, c, d
    <3>5. Orderly([chats EXCEPT ![c] = [messages |-> less, draft |-> d]])
      BY <1>2, <3>1, <3>3, OrderlyOne
    <3> QED
      BY <3>4, <3>5
  <2> QED
    BY <2>1, <2>2
<1>13. CASE Client!Answered \/ Client!Failed
  BY <1>10, <1>11, <1>12, <1>13 DEF Client!Answered, Client!Failed
<1>14. CASE Client!Type
  <2>1. PICK p \in Prompts : Client!Save([chats EXCEPT ![active].draft = p], active)
    BY <1>14 DEF Client!Type
  <2>2. /\ UNCHANGED <<busy, request, edit>> /\ request.chat = Nowhere /\ ~ busy
    BY <1>5, <1>14 DEF Client!Type, Client!flags
  <2> DEFINE cs == [chats EXCEPT ![active].draft = p]
  <2>3. Orderly(cs) /\ DOMAIN cs = DOMAIN chats
    BY <1>2, <1>4, OrderlyOne DEF Client!Drafts
  <2> HIDE DEF cs
  <2> QED
    BY <1>2, <1>5, <2>1, <2>2, <2>3, SavedSame DEF cs
<1>15. CASE Client!Edit
  <2>1. PICK i \in DOMAIN chats[active].messages :
          /\ ~ busy /\ chats' = [chats EXCEPT ![active].draft = chats[active].messages[i].text]
          /\ edit' = [chat |-> active, index |-> i]
          /\ UNCHANGED <<active, stored, busy, request>>
    BY <1>15 DEF Client!Edit, Client!Here, Client!flags
  <2>2. i \in Nat /\ chats[active].messages[i].text \in Client!Drafts
    <3>1. DOMAIN chats[active].messages = 1 .. Len(chats[active].messages)
          /\ Len(chats[active].messages) \in Nat
      BY <1>2, <1>4, LenProperties
    <3>2. chats[active].messages[i] \in Client!Messages
      BY <1>2, <1>4, <2>1, <3>1, ElementOfSeq
    <3> QED
      BY <2>1, <3>1, <3>2 DEF Client!Messages, Client!Drafts
  <2> DEFINE d == chats[active].messages[i].text
  <2>3. Orderly(chats') /\ active' \in DOMAIN chats'
    <3>1. chats' = [chats EXCEPT ![active].draft = d] /\ active' = active
      BY <2>1
    <3> HIDE DEF d
    <3>2. Orderly([chats EXCEPT ![active].draft = d])
      BY <1>2, <1>4, <2>2, OrderlyOne DEF d
    <3> QED
      BY <1>2, <3>1, <3>2
  <2> QED
    BY <1>5, <2>1, <2>2, <2>3 DEF ChatInv, Orderly
<1>16. CASE Client!Clear
  <2> DEFINE cs == [chats EXCEPT ![active].messages = << >>]
  <2>1. /\ UNCHANGED <<busy, request, edit>> /\ request.chat = Nowhere /\ ~ busy
        /\ Client!Save(cs, active)
    BY <1>5, <1>16 DEF Client!Clear, Client!flags
  <2>2. Orderly(cs) /\ DOMAIN cs = DOMAIN chats
    BY <1>2, <1>4, OrderedEmpty, OrderlyOne
  <2> HIDE DEF cs
  <2> QED
    BY <1>2, <1>5, <2>1, <2>2, SavedSame
<1>17. CASE Client!Open
  <2> PICK c \in ChatNames \ DOMAIN chats, p \in Prompts :
        /\ \E ms \in {<< >>, <<Client!User(p), Client!Answer(p)>>} :
             Client!Save(Client!With(chats, c, [messages |-> ms, draft |-> NoText]), c)
        /\ UNCHANGED <<busy, request, edit>>
    BY <1>17 DEF Client!Open, Client!flags
  <2>1. PICK ms \in {<< >>, <<Client!User(p), Client!Answer(p)>>} :
          Client!Save(Client!With(chats, c, [messages |-> ms, draft |-> NoText]), c)
    OBVIOUS
  <2> DEFINE chat == [messages |-> ms, draft |-> NoText]
             cs == Client!With(chats, c, chat)
  <2>2. ms \in Seq(Client!Messages) /\ Ordered(ms)
    <3>1. CASE ms = << >>
      BY <3>1, OrderedEmpty
    <3>2. CASE ms = <<Client!User(p), Client!Answer(p)>>
      <4>1. << >> \in Seq(Client!Messages) /\ Ordered(<< >>)
        BY OrderedEmpty
      <4> DEFINE one == Append(<< >>, Client!User(p))
      <4>2. /\ one \in Seq(Client!Messages) /\ Ordered(one)
            /\ one # << >> /\ one[Len(one)] = Client!User(p)
        BY <4>1, OrderedPrompt
      <4> HIDE DEF one
      <4>3. Append(one, Client!Answer(p)) \in Seq(Client!Messages)
            /\ Ordered(Append(one, Client!Answer(p)))
        BY <4>2, OrderedAnswer
      <4>4. ms = Append(one, Client!Answer(p))
        BY <3>2 DEF one
      <4> QED
        BY <4>3, <4>4
    <3> QED
      BY <2>1, <3>1, <3>2
  <2>3. chat \in Client!Chats /\ chat.messages = ms
    BY <2>2 DEF Client!Chats, Client!Drafts
  <2> HIDE DEF chat
  <2>4. /\ DOMAIN cs = DOMAIN chats \union {c} /\ cs[c] = chat
        /\ \A x \in DOMAIN chats : cs[x] = chats[x]
    BY <2>1 DEF Client!With
  <2> HIDE DEF cs
  <2>5. Orderly(cs)
    BY <1>2, <2>2, <2>3, <2>4 DEF Orderly
  <2>6. Client!Save(cs, c) /\ c \in DOMAIN cs /\ UNCHANGED <<busy, request, edit>>
    BY <2>1, <2>4 DEF cs, chat
  <2>7. ~ busy' => request' = Client!NoRequest
    BY <1>5, <2>6
  <2>8. request'.chat # Nowhere =>
           /\ request'.prompt \in Prompts /\ request'.chat \in DOMAIN cs
           /\ cs[request'.chat].messages # << >>
           /\ cs[request'.chat].messages[Len(cs[request'.chat].messages)]
                = Client!User(request'.prompt)
    BY <1>2, <2>4, <2>6
  <2> QED
    BY <1>2, <2>5, <2>6, <2>7, <2>8, SavedSame
<1>18. CASE Client!Select
  BY <1>3, <1>18 DEF Client!Select, Client!flags
<1>19. CASE Client!Chosen
  <2>1. UNCHANGED <<busy, request, edit>> /\ (Same \/ Client!Save(chats, active))
    BY <1>19 DEF Client!Chosen
  <2> QED
    BY <1>1, <1>2, <1>3, <1>5, <2>1
<1>20. CASE Client!SetCompute \/ Client!Render
  <2>1. UNCHANGED <<busy, request, edit>> /\ Client!Save(chats, active)
    BY <1>20 DEF Client!SetCompute, Client!Render, Client!flags
  <2> QED
    BY <1>2, <1>3, <2>1
<1>21. CASE Client!Load \/ Client!ActionEnds
  <2>1. UNCHANGED <<busy, request, edit>> /\ Same
    BY <1>21 DEF Client!Load, Client!ActionEnds
  <2> QED
    BY <1>1, <1>5, <2>1
<1>22. CASE Client!Reload
  <2>1. /\ chats' = stored.chats /\ active' = stored.active /\ stored' = stored
        /\ request' = Client!NoRequest /\ request'.chat = Nowhere
        /\ edit' = Client!NoEdit /\ edit'.index = 0
    BY <1>22 DEF Client!Reload, Client!NoRequest, Client!NoEdit
  <2> QED
    BY <1>2, <2>1 DEF ChatInv, Orderly
<1> QED
  BY <1>6, <1>7, <1>8, <1>9, <1>13, <1>14, <1>15, <1>16, <1>17, <1>18, <1>19, <1>20,
     <1>21, <1>22 DEF Client!Next

LEMMA ChatInit == Client!Init => ChatInv
<1> SUFFICES ASSUME Client!Init PROVE ChatInv
  OBVIOUS
<1>1. PICK c \in ChatNames : chats = [i \in {c} |-> Client!EmptyChat] /\ active = c
  BY DEF Client!Init
<1>2. /\ stored.chats = chats /\ stored.active = active
      /\ request = Client!NoRequest /\ request.chat = Nowhere /\ edit.index = 0
      /\ {"chat", "prompt"} \subseteq DOMAIN request
  BY DEF Client!Init, Client!NoRequest, Client!NoEdit
<1>3. Client!EmptyChat \in Client!Chats /\ Ordered(Client!EmptyChat.messages)
  BY OrderedEmpty DEF Client!EmptyChat, Client!Chats, Client!Drafts
<1>4. Orderly(chats)
  BY <1>1, <1>3 DEF Orderly
<1> QED
  BY <1>1, <1>2, <1>4 DEF ChatInv

(* However chats are switched, cleared, edited, regenerated, imported or    *)
(* reloaded while a request is in progress, an answer stands behind the     *)
(* prompt it answers, and a prompt that is being answered is the last       *)
(* message of its chat, in memory and in the store.                         *)
THEOREM ChatsStayOrdered == ServingSpec => []ChatsAreOrdered
<1>1. ServingInit => ChatInv
  BY ChatInit DEF ServingInit
<1>2. ChatInv /\ [ServingNext]_<<server, client, driven>> => ChatInv'
  <2> SUFFICES ASSUME ChatInv, [ServingNext]_<<server, client, driven>> PROVE ChatInv'
    OBVIOUS
  <2>1. CASE UNCHANGED client
    BY <2>1 DEF client, ChatInv, Pending, Orderly
  <2>2. CASE Client!Next
    BY <2>2, ChatStep
  <2> QED
    BY <2>1, <2>2 DEF ServingNext, ServerStep, ClientStep
<1>3. ChatInv => ChatsAreOrdered
  <2> SUFFICES ASSUME ChatInv PROVE ChatsAreOrdered
    OBVIOUS
  <2>1. Client!AnswersFollowPrompts
    BY DEF ChatInv, Orderly, Ordered, Client!AnswersFollowPrompts
  <2>2. Client!PromptIsKept
    BY DEF ChatInv, Pending, Client!PromptIsKept
  <2> QED
    BY <2>1, <2>2 DEF ChatsAreOrdered
<1> QED
  BY <1>1, <1>2, <1>3, PTL DEF ServingSpec
=============================================================================
