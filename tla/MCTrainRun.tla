----------------------------- MODULE MCTrainRun -----------------------------
(***************************************************************************)
(* TrainRun for TLC: two executions.  The first trains with or without a   *)
(* checkpoint, metrics, validation and a controller; the second resumes    *)
(* from a path the first may be writing, with matching or other inputs, or *)
(* is given a path the first uses for something else.                      *)
(***************************************************************************)
EXTENDS TrainRun, TLC

CONSTANTS r1, r2, p1, p2, p3, A, B, slow, fast

MCRuns == {r1, r2}
MCPaths == {p1, p2, p3}
MCInputs == {A, B}
MCRates == {slow, fast}

\* Three records of A and two of B: groups of two wrap at the end of A.
MCCount == A :> 3 @@ B :> 2

Plain == [inputs |-> A, accumulate |-> 1, steps |-> 2, rate |-> slow,
          validation |-> 0, evalEvery |-> 1, control |-> FALSE,
          checkpoint |-> NoPath, resume |-> NoPath, metrics |-> NoPath,
          output |-> p2]

Saving == [Plain EXCEPT !.checkpoint = p1]
Grouped == [Saving EXCEPT !.accumulate = 2]
Stoppable == [Grouped EXCEPT !.control = TRUE]

Resuming == [Plain EXCEPT !.resume = p1, !.rate = fast, !.output = p3]

MCOptions ==
  (r1 :> {Saving, Grouped, Stoppable,
          [Plain EXCEPT !.validation = 2, !.evalEvery = 2, !.metrics = p1,
                        !.steps = 3, !.control = TRUE],
          [Saving EXCEPT !.inputs = B, !.output = p1]})
  @@
  (r2 :> {Resuming,
          [Resuming EXCEPT !.accumulate = 2, !.checkpoint = p2],
          [Resuming EXCEPT !.accumulate = 2, !.validation = 1, !.metrics = p2,
                           !.control = TRUE],
          [Resuming EXCEPT !.inputs = B],
          [Plain EXCEPT !.metrics = p2, !.output = p1, !.validation = 1]})
=============================================================================
