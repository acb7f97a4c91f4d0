------------------------------ MODULE MCEngine ------------------------------
(***************************************************************************)
(* The objects of the engine that one caller drives at a time: an          *)
(* inference session (LlmSession), tensor execution (Execution), the two   *)
(* backends with a weight cache (Rocm, Mlx) and a gradient graph (Tape).   *)
(* They share no state, so a behaviour drives one of them; the variables   *)
(* of the others are not used and say so.                                  *)
(***************************************************************************)
EXTENDS LlmSession, TLC

CONSTANTS Onnx, Projectors, Requests, Outputs, Width, RankLimit, MaxWord, Side, Table, AudioWidth,
          MaxSize, MaxInt, Blocks, Reserved, Matrices, Probe, Memory, Wanted, Libraries, Others,
          Parameters, Features, Frozen, Identifiers, Slices, Shapes, Scalars, Allowance, Finite, MaxNodes

VARIABLES attempted, library, api, environment, context, supported, job, request, output,
          local, response, reads, held, misused,
          life, stream, list, bytes, limit, scratch, at, matrix, result, device, pending, leaked,
          references, path, others, acquired, devices, arrays,
          phase, evaluation, nodes, used, error, loss, gradient, before, values,
          steps, applied, graphs, driven

Tensor == INSTANCE Execution
Hip    == INSTANCE Rocm
Metal  == INSTANCE Mlx WITH Paths <- Libraries
Train  == INSTANCE Tape WITH Inputs <- Features

\* Sizes are counted without a sign; a probe has the size of a small matrix.
ASSUME EngineAssumption == /\ MaxSize \in Nat /\ MaxInt \in Nat /\ Reserved \in Nat
                           /\ Memory \subseteq Nat /\ Wanted \subseteq Nat \cup {-1}
                           /\ Hip!MatrixFits(Probe)

\* Dimensions are integers, not always positive; a projector whose patches have
\* no side is not loaded.
ASSUME TensorAssumption == /\ MaxWord \in Nat /\ Side \in Nat \ {0}
                           /\ \A r \in Requests : r.shape \in Seq(Int)

\* A tensor has a row and a column at least (tr_node), a slice takes a column, an
\* embedding looks up a row, and these are counted from one.
Filled(t) == /\ t.rows \in Nat \ {0} /\ t.columns \in Nat \ {0}
             /\ t.data \in [1 .. t.rows * t.columns -> Int]

ASSUME TapeAssumption == /\ \A p \in DOMAIN Parameters : Filled(Parameters[p])
                         /\ \A i \in DOMAIN Features : Filled(Features[i])
                         /\ \A m \in DOMAIN Frozen : Filled(Frozen[m])
                         /\ \A ids \in Identifiers : ids \in Seq(Nat \ {0}) /\ ids # <<>>
                         /\ \A s \in Slices : s.first \in Nat /\ s.count \in Nat \ {0}
                         /\ \A s \in Shapes : s[1] \in Nat \ {0} /\ s[2] \in Nat \ {0}
                         /\ Scalars \subseteq Int

session   == <<state, position, has_logits, todo, each, accepted>>
execution == <<attempted, api, environment, context, supported, job, request, output, local,
               response, reads>>
hip   == <<stream, scratch, device, pending, leaked>>
metal == <<references, path, others, acquired, devices, arrays>>
tape  == <<phase, evaluation, nodes, used, error, loss, gradient, before, values, steps,
           applied, graphs>>
cache == <<life, list, bytes, limit, matrix, result>>  \* of hip and metal
every == <<session, execution, hip, metal, tape, cache, failed, library, at, held, misused, driven>>

Unused(variable) == variable = "unused"

NoSession   == /\ Unused(state) /\ Unused(position) /\ Unused(has_logits) /\ Unused(todo)
               /\ Unused(each) /\ Unused(accepted)
NoExecution == /\ Unused(attempted) /\ Unused(api) /\ Unused(environment) /\ Unused(context)
               /\ Unused(supported) /\ Unused(job) /\ Unused(request) /\ Unused(output)
               /\ Unused(local) /\ Unused(response) /\ Unused(reads)
NoHip   == /\ Unused(stream) /\ Unused(scratch) /\ Unused(device) /\ Unused(pending) /\ Unused(leaked)
NoMetal == /\ Unused(references) /\ Unused(path) /\ Unused(others) /\ Unused(acquired)
           /\ Unused(devices) /\ Unused(arrays)
NoTape  == /\ Unused(phase) /\ Unused(evaluation) /\ Unused(nodes) /\ Unused(used) /\ Unused(error)
           /\ Unused(loss) /\ Unused(gradient) /\ Unused(before) /\ Unused(values)
           /\ Unused(steps) /\ Unused(applied) /\ Unused(graphs)
NoCache == /\ Unused(life) /\ Unused(list) /\ Unused(bytes) /\ Unused(limit) /\ Unused(matrix)
           /\ Unused(result)

EngineInit ==
  \/ /\ driven = "session" /\ Init
     /\ NoExecution /\ NoHip /\ NoMetal /\ NoTape /\ NoCache
     /\ Unused(library) /\ Unused(at) /\ Unused(held) /\ Unused(misused)
  \/ /\ driven = "tensor" /\ Tensor!Init
     /\ NoSession /\ NoHip /\ NoMetal /\ NoTape /\ NoCache /\ Unused(failed) /\ Unused(at)
  \/ /\ driven = "hip" /\ Hip!Init
     /\ NoSession /\ NoExecution /\ NoMetal /\ NoTape /\ Unused(library)
  \/ /\ driven = "metal" /\ Metal!Init
     /\ NoSession /\ NoExecution /\ NoHip /\ NoTape
  \/ /\ driven = "tape" /\ Train!Init
     /\ NoSession /\ NoExecution /\ NoHip /\ NoMetal /\ NoCache
     /\ Unused(failed) /\ Unused(library) /\ Unused(held) /\ Unused(misused)

EngineNext ==
  \/ /\ driven = "session" /\ Next
     /\ UNCHANGED <<execution, hip, metal, tape, cache, library, at, held, misused, driven>>
  \/ /\ driven = "tensor" /\ Tensor!Next
     /\ UNCHANGED <<session, hip, metal, tape, cache, failed, at, driven>>
  \/ /\ driven = "hip" /\ Hip!Next
     /\ UNCHANGED <<session, execution, metal, tape, library, driven>>
  \/ /\ driven = "metal" /\ Metal!Next
     /\ UNCHANGED <<session, execution, hip, tape, driven>>
  \/ /\ driven = "tape" /\ Train!Next
     /\ UNCHANGED <<session, execution, hip, metal, cache, failed, library, held, misused, driven>>

EngineSpec == EngineInit /\ [][EngineNext]_every

-----------------------------------------------------------------------------
(* Properties                                                              *)

\* What a session shows belongs to the tokens accepted since the last reset,
\* and no call leaves the buffers of the session.
SessionReadsAreExact == driven = "session" => TypeOK /\ ReadsAreExact

\* Tensor execution loses and reuses nothing, and answers as requested.
ExecutionIsExact == driven = "tensor" => Tensor!ExecutionIsExact

\* ROCm memory outlives the work submitted with it, and nothing is lost.
RocmIsExact == driven = "hip" => Hip!RocmIsExact

\* The MLX library outlives its users, and every array is released once.
MlxIsExact == driven = "metal" => Metal!MlxIsExact

\* backward adds the derivative of the loss to every parameter's gradient.
GradientsAreExact == driven = "tape" => Train!GradientsAreExact

-----------------------------------------------------------------------------
(* Requests whose bytes are those of their shape, or not; among them one   *)
(* whose element count exceeds the word, and image, patch and audio inputs *)
(* of the right and of wrong sizes.                                        *)
Widths == ("f32" :> 4) @@ ("u8" :> 1) @@ ("none" :> 0)
Request(name, shape, type, size, bound) ==
  [name |-> name, shape |-> shape, type |-> type, size |-> size, limit |-> bound]
Asked == {Request("x", s, t, z, l) : s \in {<<>>, <<0, 2>>, <<2, 2>>, <<64, 4>>, <<256>>},
                                     t \in {"f32", "u8", "none"}, z \in {0, 4, 16}, l \in {0, 4, 8}}
         \cup {Request("image_rgb", s, "f32", z, l) :
                 s \in {<<2, 4, 3>>, <<4, 2, 3>>, <<4, 4, 3>>, <<3, 4, 3>>}, z \in {96, 192}, l \in {4, 8, 16}}
         \cup {Request("image_patches", <<n, 14>>, "f32", 56 * n, l) : n \in {1, 2}, l \in {4, 8}}
         \cup {Request("audio_features", <<n, 5>>, "f32", 20 * n, l) : n \in {1, 2}, l \in {4, 8}}
Produced == [rank : {1, 3}, type : {"f32", "u8", "none"}, count : {0, 1, 2, 300}]

(* Matrices that fit together, only alone, or not at all; quantized or not; *)
(* one in four batches, too large for the smallest budget.                 *)
TypeBlocks == (0 :> [block |-> 1, storage |-> 4]) @@ (8 :> [block |-> 2, storage |-> 3])
Matrix(source, rows, columns, type, batch) ==
  [source |-> source, rows |-> rows, columns |-> columns, type |-> type, batch |-> batch]
ProbeMatrix == Matrix("probe", 2, 2, 0, 1)
Weights == {Matrix("a", 2, 2, 8, 1), Matrix("b", 1, 2, 0, 1), Matrix("b", 1, 2, 0, 4),
            Matrix("c", 2, 2, 0, 2), Matrix("a", 2, 3, 8, 1), Matrix("a", 9, 8, 0, 1),
            Matrix("a", 4, 4, 0, 1)}
CacheSizes == {0, 48, -1}

(* Graphs: two parameters, one input, a frozen matrix, a table read twice  *)
(* in the same row.                                                        *)
Data(rows, columns, data) == [rows |-> rows, columns |-> columns, data |-> data]
Learnt == ("p" :> Data(1, 2, <<2, -3>>)) @@ ("q" :> Data(2, 1, <<1, 4>>))
Given  == "x" :> Data(2, 2, <<1, 2, 3, -1>>)
Mapped == "w" :> Data(1, 2, <<3, 5>>)
Rows   == {<<2, 2>>, <<1, 2>>}
Slice  == {[first |-> 1, count |-> 1]}
Reshapes == {<<1, 2>>}
Lengths == <<4, 2>>
=============================================================================
