-------------------------------- MODULE Rocm --------------------------------
(***************************************************************************)
(* Matrix products on a ROCm device (rocm.c).  Every call of the driver    *)
(* can fail; the first failure makes the backend refuse all later work,    *)
(* and its callers compute on the CPU instead.  Work is submitted to a     *)
(* stream and runs later: what a copy or a product reads or writes must    *)
(* stay until the stream was synchronized.                                 *)
(***************************************************************************)
EXTENDS VendorCache

CONSTANTS Matrices,   \* [source, rows, columns, type, batch] callers ask for
          Probe,      \* the product that create tries
          Memory,     \* bytes the device can have free
          Wanted      \* what NYA_ROCM_CACHE_MIB can say

VARIABLES
  life,           \* "none", "making", "ready", "gone"
  stream,         \* it was created
  list, bytes, limit,      \* nya_vendor_cache
  scratch,        \* "input" and "output": [set: the pointer is not null, bytes]
  failed,
  at, matrix, result,      \* where the running product is, its arguments and outcome
  device,         \* the thread's current device
  held, pending,  \* memory handed out, memory that submitted work uses
  leaked,         \* memory that the driver once refused to free
  misused

cache  == <<list, bytes, limit>>
memory == <<held, pending, leaked, misused>>
rest   == <<life, stream, device, limit, matrix>>
vars   == <<life, stream, cache, scratch, failed, at, matrix, result, device, memory>>

Null    == [set |-> FALSE, bytes |-> 0]
Buffers == {"input", "output"}
Buffer(name) == <<name>>
Host    == <<"expanded">>     \* the decoded weights of an upload
Weight  == Key(matrix)

Init == /\ life = "none" /\ stream = FALSE
        /\ list = <<>> /\ bytes = 0 /\ limit = 0
        /\ scratch = [name \in Buffers |-> Null]
        /\ failed = FALSE /\ at = "idle" /\ matrix = Probe /\ result = -1
        /\ device = "caller"
        /\ held = {} /\ pending = {} /\ leaked = {} /\ misused = FALSE

\* checked(): a status that is not zero is remembered for ever.
Checked(ok) == failed' = (failed \/ ~ok)
Go(stage)   == at' = stage
Scratch     == scratch["input"].bytes + scratch["output"].bytes

\* hipFree of each of gone, of which the driver refuses those in bad.
Free(gone, bad) ==
  /\ bad \subseteq gone
  /\ held' = held \ (gone \ bad)
  /\ leaked' = leaked \cup bad
  /\ misused' = (misused \/ ~(gone \subseteq held) \/ gone \cap pending # {})
  /\ Checked(bad = {})

\* nya_vendor_reserve.
Evict(wanted, beside, bad) ==
  LET kept == Kept(list, bytes, Room(limit, wanted, beside))
  IN  /\ Free(Keys(list) \ Keys(kept.list), bad)
      /\ list' = kept.list /\ bytes' = kept.bytes
      /\ UNCHANGED pending

-----------------------------------------------------------------------------
(* Creation and destruction                                                *)

\* The libraries, their symbols and the device are there and it is selected, or
\* nothing was made.
Open(ok) == /\ life = "none"
            /\ life' = IF ok THEN "making" ELSE "gone"
            /\ at' = IF ok THEN "setup" ELSE "idle"
            /\ UNCHANGED <<stream, cache, scratch, failed, matrix, result, device, memory>>

\* The budget is found, stream and BLAS are made and bound: done counts those of
\* the four that succeed.  The device is given back.
Setup(done, available, wanted, restored) ==
  /\ at = "setup"
  /\ done > 0 => Budget(available, wanted) > 0
  /\ stream' = (done >= 2)
  /\ limit' = Budget(available, wanted)
  /\ Checked(done = 4 /\ restored)
  /\ device' = IF restored THEN "caller" ELSE "ours"
  /\ IF done = 4 /\ restored THEN Go("enter") ELSE Go("destroy")
  /\ UNCHANGED <<life, list, bytes, scratch, matrix, result, memory>>

\* The probe's product came back, and its two values are right or not.
Probed(right) ==
  /\ life = "making" /\ at = "returned"
  /\ IF result = 0 /\ right THEN life' = "ready" /\ Go("idle")
                            ELSE UNCHANGED life /\ Go("destroy")
  /\ UNCHANGED <<stream, cache, scratch, failed, matrix, result, device, memory>>

Owned == Keys(list) \cup {Buffer(name) : name \in {n \in Buffers : scratch[n].set}}

\* destroy: where there is a stream it is drained, and every resource is tried
\* whether or not the device could be selected.
Destroy(bad) ==
  /\ at = "destroy" \/ (life = "ready" /\ at = "idle")
  /\ IF stream THEN /\ bad \subseteq Owned
                    /\ held' = held \ (Owned \ bad) /\ leaked' = leaked \cup bad
                    /\ misused' = (misused \/ ~(Owned \subseteq held))
                    /\ pending' = {}
                    /\ Checked(bad = {})
               ELSE bad = {} /\ UNCHANGED <<memory, failed>>
  /\ life' = "gone" /\ Go("idle") /\ stream' = FALSE
  /\ list' = <<>> /\ bytes' = 0 /\ scratch' = [name \in Buffers |-> Null]
  /\ UNCHANGED <<device, limit, matrix, result>>

-----------------------------------------------------------------------------
(* One product                                                             *)

Begin(m) == /\ life = "ready" /\ at = "idle"
            /\ ~failed /\ MatrixFits(m)
            /\ matrix' = m /\ Go("enter")
            /\ UNCHANGED <<life, stream, cache, scratch, failed, result, device, memory>>

\* enter: the current device is asked for, then ours selected.
Enter(ok) == /\ at = "enter"
             /\ Checked(ok) /\ result' = -1
             /\ device' = IF ok THEN "ours" ELSE device
             /\ IF ok THEN Go("buffers") ELSE Go("returned")
             /\ UNCHANGED <<life, stream, cache, scratch, matrix, memory>>

\* buffers: the bytes wanted of each, for which weights make room.
Needed(name) == IF name = "input" THEN InputBytes(matrix) ELSE OutputBytes(matrix)
Want(name)   == IF Needed(name) > scratch[name].bytes THEN Needed(name) ELSE scratch[name].bytes
Fits         == \A name \in Buffers : scratch[name].bytes >= Needed(name)

ReserveScratch(bad) ==
  /\ at = "buffers"
  /\ LET want == Want("input") + Want("output")
     IN  IF Fits THEN bad = {} /\ Go("weight") /\ UNCHANGED <<list, bytes, memory, failed>>
         ELSE IF want > MaxSize \/ ~MayReserve(limit, 0, want)
         THEN bad = {} /\ Go("done") /\ Checked(FALSE) /\ UNCHANGED <<list, bytes, memory>>
         ELSE Evict(0, want, bad) /\ Go("input")
  /\ UNCHANGED <<rest, scratch, result>>

\* A buffer that grows is freed, then allocated anew.  A failure leaves its
\* pointer null or, where the free failed, as it was.
Grow(freed, given) ==
  /\ at \in Buffers
  /\ LET old == scratch[at]
         b   == Buffer(at)
     IN  IF Want(at) = old.bytes
         THEN /\ freed /\ given
              /\ UNCHANGED <<scratch, held, leaked, misused, failed>>
         ELSE /\ (old.set \/ freed) /\ (given => freed)
              /\ scratch' = [scratch EXCEPT ![at] = IF ~freed THEN old
                               ELSE IF given THEN [set |-> TRUE, bytes |-> Want(at)] ELSE Null]
              /\ held' = IF ~freed THEN held ELSE IF given THEN held \cup {b} ELSE held \ {b}
              /\ leaked' = IF freed THEN leaked ELSE leaked \cup {b}
              /\ misused' = (misused \/ (old.set # (b \in held)) \/ b \in pending)
              /\ Checked(freed /\ given)
  /\ IF ~(freed /\ given) THEN Go("done")
     ELSE IF at = "input" THEN Go("output")
     ELSE IF failed THEN Go("done") ELSE Go("weight")
  /\ UNCHANGED <<rest, list, bytes, result, pending>>

\* weight: it is in the cache, or others make room for it.
FindWeight(bad) ==
  /\ at = "weight"
  /\ IF Cached(list, Weight)
     THEN bad = {} /\ list' = Found(list, Weight) /\ Go("upload") /\ UNCHANGED <<bytes, memory, failed>>
     ELSE IF ~MayReserve(limit, WeightBytes(matrix), Scratch)
     THEN bad = {} /\ Go("done") /\ Checked(FALSE) /\ UNCHANGED <<list, bytes, memory>>
     ELSE Evict(WeightBytes(matrix), Scratch, bad) /\ Go("allocate")
  /\ UNCHANGED <<rest, scratch, result>>

\* Host memory, for a type that has to be decoded, then device memory.
Staging == IF matrix.type # 0 THEN {Host} ELSE {}

AllocateWeight(given) ==
  /\ at = "allocate"
  /\ Checked(given)
  /\ held' = IF given THEN held \cup {Weight} \cup Staging ELSE held
  /\ misused' = (misused \/ Weight \in held)
  /\ IF given THEN Go("copy") ELSE Go("done")
  /\ UNCHANGED <<rest, list, bytes, scratch, result, pending, leaked>>

\* What is submitted to the stream: the copy of a weight, the copy of the input,
\* the product, the copy of the output; what it uses, and what follows.
Uses == CASE at = "copy"     -> {Weight} \cup Staging
          [] at = "upload"   -> {Buffer("input")}
          [] at = "multiply" -> {Buffer("input"), Buffer("output"), Weight}
          [] at = "download" -> {Buffer("output")}
Following == CASE at = "copy"     -> "finish"
               [] at = "upload"   -> "multiply"
               [] at = "multiply" -> "download"
               [] at = "download" -> "done"

Submit(ok) ==
  /\ at \in {"copy", "upload", "multiply", "download"}
  /\ Checked(ok)
  /\ misused' = (misused \/ ~(Uses \subseteq held))
  /\ pending' = IF ok THEN pending \cup Uses ELSE pending
  /\ result' = IF ok /\ at = "download" THEN 0 ELSE result
  /\ IF ok THEN Go(Following) ELSE IF at = "copy" THEN Go("drop") ELSE Go("done")
  /\ UNCHANGED <<rest, list, bytes, scratch, held, leaked>>

\* The upload has ended, the decoded weights go, and the matrix is cached; when
\* waiting for it failed, it may still run.
FinishWeight(ok) ==
  /\ at = "finish"
  /\ Checked(ok)
  /\ pending' = IF ok THEN {} ELSE pending
  /\ IF ok THEN /\ list' = <<[key |-> Weight, bytes |-> WeightBytes(matrix)]>> \o list
                /\ bytes' = bytes + WeightBytes(matrix)
                /\ held' = held \ {Host}
                /\ IF failed THEN Go("done") ELSE Go("upload")
           ELSE Go("drop") /\ UNCHANGED <<list, bytes, held>>
  /\ UNCHANGED <<rest, scratch, result, leaked, misused>>

\* Mutant: the weight is released while its copy may still run.
DropUndrained(ok) ==
  /\ at = "drop"
  /\ Checked(FALSE)
  /\ held' = held \ {Weight, Host}
  /\ misused' = (misused \/ Weight \in pending)
  /\ Go("done")
  /\ UNCHANGED <<rest, list, bytes, scratch, result, pending, leaked>>

\* The label failure: the stream is drained, then the weight is released.  A
\* stream that was waited for twice is taken to have ended.
DropWeight(ok) ==
  /\ at = "drop"
  /\ Checked(FALSE)
  /\ pending' = {}
  /\ held' = held \ (IF ok THEN {Weight, Host} ELSE {Host})
  /\ leaked' = IF ok THEN leaked ELSE leaked \cup {Weight}
  /\ misused' = (misused \/ Weight \notin held)
  /\ Go("done")
  /\ UNCHANGED <<rest, list, bytes, scratch, result>>

\* The label done: the stream is synchronized and the device given back.
Done(finished, restored) ==
  /\ at = "done"
  /\ Checked(finished /\ restored)
  /\ result' = IF finished /\ restored THEN result ELSE -1
  /\ device' = IF restored THEN "caller" ELSE device
  /\ pending' = IF finished THEN {} ELSE pending
  /\ Go("returned")
  /\ UNCHANGED <<life, stream, cache, scratch, matrix, held, leaked, misused>>

Returned == /\ life = "ready" /\ at = "returned"
            /\ Go("idle")
            /\ UNCHANGED <<life, stream, cache, scratch, failed, matrix, result, device, memory>>

Creating == \/ \E ok \in BOOLEAN : Open(ok) \/ Probed(ok)
            \/ \E done \in 0 .. 4, available \in Memory, wanted \in Wanted, restored \in BOOLEAN :
                 Setup(done, available, wanted, restored)

Multiplying ==
  \/ \E m \in Matrices : Begin(m)
  \/ \E ok \in BOOLEAN : \/ Enter(ok) \/ AllocateWeight(ok) \/ Submit(ok)
                         \/ FinishWeight(ok) \/ DropWeight(ok)
  \/ \E bad \in SUBSET held : ReserveScratch(bad) \/ FindWeight(bad) \/ Destroy(bad)
  \/ \E first, second \in BOOLEAN : Grow(first, second) \/ Done(first, second)
  \/ Returned

Next == Creating \/ Multiplying
Spec == Init /\ [][Next]_vars

-----------------------------------------------------------------------------
(* Properties                                                              *)

(* Whatever call of the driver fails: no memory is freed twice or while    *)
(* submitted work may use it, none is used that is not held, and none is   *)
(* lost but what the driver refused to free; the budget holds with the     *)
(* scratch buffers counted; a product that is reported as computed had no  *)
(* failure, and left the caller's device selected.                         *)
RocmIsExact ==
  /\ ~misused
  /\ CacheIsExact(list, bytes, limit, Scratch)
  /\ at = "idle" => held \ leaked = Owned \ leaked
  /\ at = "idle" /\ (~failed \/ life = "gone") => pending = {}
  /\ leaked # {} => failed
  /\ at = "returned" /\ result = 0 =>
       /\ ~failed /\ device = "caller"
       /\ Fits /\ Cached(list, Weight)
=============================================================================
