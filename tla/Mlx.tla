--------------------------------- MODULE Mlx --------------------------------
(***************************************************************************)
(* Matrix products through the MLX library (mlx.c).  The library is one    *)
(* per process and counted: the contexts of other threads come and go      *)
(* beside the one modelled in full here.  An MLX call reports a failure by *)
(* its status or through the error handler, which sets a flag of the       *)
(* thread that the next checked() sees; both are "not ok" here.            *)
(***************************************************************************)
EXTENDS VendorCache, Functions

CONSTANTS Matrices, Probe,
          Paths,     \* what NYA_MLX_LIBRARY can be set to
          Memory,    \* bytes that the device's limit leaves
          Wanted,    \* what NYA_MLX_CACHE_MIB can say
          Others     \* contexts of other threads (bound)

VARIABLES
  references, path, library,   \* module: users, path, whether it is loaded
  others,         \* the references that other contexts hold
  acquired, life, failed,      \* the context
  devices,        \* the MLX devices and streams that it has
  list, bytes, limit,
  at, matrix, result,
  arrays,         \* the local array variables that are not null
  held,           \* arrays the library has handed out
  misused

module  == <<references, path, library, others>>
context == <<acquired, life, failed, devices>>
cache   == <<list, bytes, limit>>
run     == <<at, matrix, result>>
vars    == <<module, context, cache, run, arrays, held, misused>>

Init == /\ references = 0 /\ path = "none" /\ library = FALSE /\ others = 0
        /\ acquired = FALSE /\ life = "none" /\ failed = FALSE /\ devices = {}
        /\ list = <<>> /\ bytes = 0 /\ limit = 0
        /\ at = "idle" /\ matrix = Probe /\ result = -1
        /\ arrays = {} /\ held = {} /\ misused = FALSE

Weight     == Key(matrix)
Scratch    == InputBytes(matrix) + 2 * OutputBytes(matrix)
Local(set) == {<<name>> : name \in set}
Go(stage)  == at' = stage
Checked(ok) == failed' = (failed \/ ~ok)

-----------------------------------------------------------------------------
(* The module and its spin lock: each of the two is one step of all others *)

\* Mutant: a second user with the same path is not counted.
AcquireUncounted(p) ==
  /\ references' = 1
  /\ path' = p /\ library' = TRUE

Acquire(p) ==
  /\ references' = references + 1
  /\ path' = p /\ library' = TRUE

\* A loaded module is shared by those who name the same path; a load can fail.
MayAcquire(p, ok) == IF references > 0 THEN path = p ELSE ok

Relinquish == /\ references' = references - 1
              /\ library' = (references > 1)
              /\ path' = IF references > 1 THEN path ELSE "none"

OtherCreates(p, ok) == /\ others < Others /\ MayAcquire(p, ok)
                       /\ Acquire(p)
                       /\ others' = others + 1
                       /\ UNCHANGED <<context, cache, run, arrays, held, misused>>

OtherDestroys == /\ others > 0
                 /\ Relinquish
                 /\ others' = others - 1
                 /\ misused' = (misused \/ ~library)
                 /\ UNCHANGED <<context, cache, run, arrays, held>>

-----------------------------------------------------------------------------
(* The context                                                             *)

Create(p, ok) == /\ life = "none"
                 /\ life' = "making"
                 /\ IF MayAcquire(p, ok)
                    THEN Acquire(p) /\ acquired' = TRUE /\ Go("setup")
                    ELSE UNCHANGED <<references, path, library, acquired>> /\ Go("destroy")
                 /\ UNCHANGED <<others, failed, devices, cache, matrix, result, arrays, held, misused>>

\* Devices and streams are made, the budget is found, and the probe runs.
Setup(made, available, wanted, ok) ==
  /\ at = "setup"
  /\ devices' = made
  /\ LET whole == made = {"gpu", "cpu", "stream", "host stream"} /\ ok
         budget == Budget(available, wanted)
     IN  /\ limit' = IF whole THEN budget ELSE 0
         /\ Checked(ok)
         /\ IF whole /\ budget > 0 THEN Go("reserve") ELSE Go("destroy")
  /\ misused' = (misused \/ ~library)
  /\ UNCHANGED <<module, acquired, life, list, bytes, matrix, result, arrays, held>>

Probed(right) == /\ life = "making" /\ at = "returned"
                 /\ IF result = 0 /\ right THEN life' = "ready" /\ Go("idle")
                                           ELSE UNCHANGED life /\ Go("destroy")
                 /\ UNCHANGED <<module, acquired, failed, devices, cache, matrix, result, arrays, held, misused>>

\* The streams are drained, the cache, streams and devices freed, the module
\* left last.  An array whose release reports a failure is not tried again.
Destroy(ok) ==
  /\ at = "destroy" \/ (life = "ready" /\ at = "idle")
  /\ life' = "gone" /\ Go("idle")
  /\ IF acquired
     THEN /\ Relinquish
          /\ held' = held \ Keys(list)
          /\ misused' = (misused \/ ~library \/ ~(Keys(list) \subseteq held))
          /\ Checked(ok)
          /\ list' = <<>> /\ bytes' = 0
     ELSE UNCHANGED <<references, path, library, failed, list, bytes, held, misused>>
  /\ acquired' = FALSE /\ devices' = {}
  /\ UNCHANGED <<others, limit, matrix, result, arrays>>

-----------------------------------------------------------------------------
(* One product                                                             *)

Begin(m) == /\ life = "ready" /\ at = "idle"
            /\ ~failed /\ MatrixFits(m)
            /\ matrix' = m /\ result' = -1 /\ Go("reserve")
            /\ UNCHANGED <<module, context, cache, arrays, held, misused>>

Release(gone) == /\ held' = held \ gone
                 /\ misused' = (misused \/ ~library \/ ~(gone \subseteq held))

\* Weights make room for the input and two results.
Reserve(ok) ==
  /\ at = "reserve"
  /\ LET kept == Kept(list, bytes, Room(limit, 0, Scratch))
     IN  IF OutputBytes(matrix) > (MaxSize - InputBytes(matrix)) \div 2 \/ ~MayReserve(limit, 0, Scratch)
         THEN /\ ok /\ Checked(FALSE) /\ result' = -1 /\ Go("returned")
              /\ UNCHANGED <<cache, held, misused>>
         ELSE /\ Release(Keys(list) \ Keys(kept.list))
              /\ list' = kept.list /\ bytes' = kept.bytes
              /\ Checked(ok \/ kept.list = list)
              /\ Go("find") /\ result' = -1
              /\ UNCHANGED limit
  /\ UNCHANGED <<module, acquired, life, devices, matrix, arrays>>

\* A cached weight, or room for it.
Find(ok) ==
  /\ at = "find"
  /\ LET kept == Kept(list, bytes, Room(limit, WeightBytes(matrix), Scratch))
     IN  IF Cached(list, Weight)
         THEN /\ ok /\ list' = Found(list, Weight)
              /\ IF failed THEN Go("returned") ELSE Go("input")
              /\ UNCHANGED <<bytes, limit, failed, held, misused>>
         ELSE IF ~MayReserve(limit, WeightBytes(matrix), Scratch)
         THEN /\ ok /\ Checked(FALSE) /\ Go("returned")
              /\ UNCHANGED <<cache, held, misused>>
         ELSE /\ Release(Keys(list) \ Keys(kept.list))
              /\ list' = kept.list /\ bytes' = kept.bytes
              /\ Checked(ok \/ kept.list = list)
              /\ Go("make")
              /\ UNCHANGED limit
  /\ UNCHANGED <<module, acquired, life, devices, matrix, result, arrays>>

\* Host memory for the record and, for a type that has to be decoded, its values.
AllocateWeight(ok) ==
  /\ at = "make"
  /\ Checked(ok)
  /\ IF ok THEN Go("a") ELSE Go("returned")
  /\ UNCHANGED <<module, acquired, life, devices, cache, matrix, result, arrays, held, misused>>

\* The calls that make a weight (created, transposed, packed, evaluated) and a
\* product (input, product, copy to the host, end) in their order; all but the
\* last of each make an array, which can be there although the call failed.
WeightChain  == <<"a", "t", "packed", "evaluate">>
ProductChain == <<"input", "result", "host", "finish">>
Chain        == IF at \in Range(WeightChain) THEN WeightChain ELSE ProductChain
Ends         == Chain[4]
After        == IF at # Ends THEN Chain[1 + CHOOSE i \in 1 .. 3 : Chain[i] = at]
                ELSE IF at = "evaluate" THEN "keep" ELSE "release"
Uses         == arrays \cup (IF Chain = ProductChain THEN {Weight} ELSE {})

Call(ok, made) ==
  /\ at \in Range(WeightChain) \cup Range(ProductChain)
  /\ ok => made
  /\ at = Ends => (made <=> ok)
  /\ LET new == IF made /\ at # Ends THEN Local({at}) ELSE {}
     IN  /\ arrays' = arrays \cup new
         /\ held' = held \cup new
         /\ misused' = (misused \/ ~library \/ ~(Uses \subseteq held))
  /\ Checked(ok)
  /\ IF ok THEN Go(After) ELSE IF Chain = WeightChain THEN Go("drop") ELSE Go("release")
  /\ result' = IF ok /\ at = "finish" THEN 0 ELSE result
  /\ UNCHANGED <<module, acquired, life, devices, cache, matrix>>

\* The transient arrays go; the packed one is cached unless something failed,
\* the eviction before it included.
KeepWeight(ok) ==
  /\ at = "keep"
  /\ Checked(ok)
  /\ arrays' = {}
  /\ misused' = (misused \/ ~library \/ ~(arrays \subseteq held) \/ Weight \in held)
  /\ IF ok /\ ~failed
     THEN /\ held' = (held \ arrays) \cup {Weight}
          /\ list' = <<[key |-> Weight, bytes |-> WeightBytes(matrix)]>> \o list
          /\ bytes' = bytes + WeightBytes(matrix)
          /\ Go("input")
     ELSE /\ held' = held \ arrays /\ Go("returned")
          /\ UNCHANGED <<list, bytes>>
  /\ UNCHANGED <<module, acquired, life, devices, limit, matrix, result>>

\* The label failed.
DropWeight == /\ at = "drop"
              /\ arrays' = {} /\ Release(arrays)
              /\ Checked(FALSE) /\ Go("returned")
              /\ UNCHANGED <<module, acquired, life, devices, cache, matrix, result>>

\* The label done: the arrays go, and a failure there is one of the product.
ReleaseArrays(ok) ==
  /\ at = "release"
  /\ arrays' = {}
  /\ Release(arrays)
  /\ Checked(ok)
  /\ result' = IF ok /\ ~failed THEN result ELSE -1
  /\ Go("returned")
  /\ UNCHANGED <<module, acquired, life, devices, cache, matrix>>

Returned == /\ life = "ready" /\ at = "returned" /\ Go("idle")
            /\ UNCHANGED <<module, context, cache, matrix, result, arrays, held, misused>>

-----------------------------------------------------------------------------

Sharing == \/ \E p \in Paths, ok \in BOOLEAN : OtherCreates(p, ok) \/ Create(p, ok)
           \/ OtherDestroys

Making == \/ \E made \in SUBSET {"gpu", "cpu", "stream", "host stream"}, available \in Memory,
                wanted \in Wanted, ok \in BOOLEAN : Setup(made, available, wanted, ok)
          \/ \E ok \in BOOLEAN : Probed(ok) \/ Destroy(ok)

Multiplying == \/ \E m \in Matrices : Begin(m)
               \/ \E ok \in BOOLEAN : \/ Reserve(ok) \/ Find(ok) \/ AllocateWeight(ok)
                                      \/ KeepWeight(ok) \/ ReleaseArrays(ok)
               \/ DropWeight
               \/ \E ok, made \in BOOLEAN : Call(ok, made)
               \/ Returned

Next == Sharing \/ Making \/ Multiplying
Spec == Init /\ [][Next]_vars

-----------------------------------------------------------------------------
(* Properties                                                              *)

(* The library is loaded exactly while somebody holds a reference, so no   *)
(* context ever calls into a library that another one has closed; arrays   *)
(* are released once, none is used after that and none is left behind; the *)
(* budget holds with the results counted; and a product that is reported   *)
(* as computed had no failure before it.                                   *)
MlxIsExact ==
  /\ ~misused
  /\ references = others + (IF acquired THEN 1 ELSE 0)
  /\ library = (references > 0)
  /\ CacheIsExact(list, bytes, limit, 0)
  /\ at = "returned" /\ result = 0 => ~failed
  /\ at \in Range(ProductChain) =>
       bytes + Scratch <= limit /\ Cached(list, Weight)
  /\ at \in {"idle", "destroy"} => held = Keys(list) /\ arrays = {}
=============================================================================
