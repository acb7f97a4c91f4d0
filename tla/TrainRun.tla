------------------------------ MODULE TrainRun ------------------------------
(***************************************************************************)
(* Executions of fyodor-train (src/backend/core/train_main.c) that share a *)
(* file system: each trains, may be asked to stop through its control pipe *)
(* (train_control.h), and saves an exclusively created checkpoint          *)
(* (training.c, file.c) and GGUF file that a later execution may resume.   *)
(* Any operation that can fail may fail and an execution may be killed at  *)
(* any step.  Records of the dataset stand for their graphs: the model is  *)
(* the sequence of optimizer updates applied to it, each with its rate and *)
(* the records whose gradients it used.                                    *)
(***************************************************************************)
EXTENDS Integers, Sequences, FiniteSets

CONSTANTS Runs,        \* executions of the program
          Paths,       \* file names given to --checkpoint, --output and so on
          NoPath,      \* an option that was not given
          Inputs,      \* what the run identity hashes, except --accumulate
          Count,       \* records or windows of the dataset of each input
          Rates,       \* values of --lr
          Options      \* the command lines each run may be started with

CommandLines ==
  [inputs : Inputs, accumulate : Nat \ {0}, steps : Nat \ {0}, rate : Rates,
   validation : Nat, evalEvery : Nat \ {0}, control : BOOLEAN,
   checkpoint : Paths \cup {NoPath}, resume : Paths \cup {NoPath},
   metrics : Paths \cup {NoPath}, output : Paths]

ASSUME TrainAssumption == /\ Count \in [Inputs -> Nat \ {0}]
                          /\ NoPath \notin Paths
                          /\ Options \in [Runs -> SUBSET CommandLines]

VARIABLES
  opt,     \* the options of each run
  run,     \* its local state (a record, see RunState)
  pipe,    \* what its control pipe holds: the byte "S", end of file
  files,   \* what every path names
  late,    \* history: updates applied while a stop request was pending
  fault    \* history: the runs in which some operation failed

vars == <<opt, run, pipe, files, late, fault>>

-----------------------------------------------------------------------------
\* The state of one run, the optimizer (step, rate) and the parameters
\* (model: the updates applied, grad: the gradients they hold) in it.  The
\* scores of the DPO reference are those of a policy after reference updates.
Updates == [rate : Rates, reference : Nat, batch : Seq(Inputs \X Nat)]

Phases == {"idle", "resume", "open", "evaluate", "loop", "micro", "record",
           "save", "checkpoint", "export", "exporting", "cleanup", "done",
           "killed"}

RunState == [pc : Phases, step : Nat, rate : Rates, model : Seq(Updates),
             grad : Seq(Inputs \X Nat), done : Nat, stopping : BOOLEAN,
             evalFailed : BOOLEAN, initial : BOOLEAN, validated : Nat,
             reference : Nat,
             index : Nat, micro : Nat, result : {0, 1}]

NoFile == [kind |-> "absent"]
Partial(r) == [kind |-> "partial", by |-> r]
Leftover(r) == [kind |-> "leftover", by |-> r]
Metrics(r, rows) == [kind |-> "metrics", by |-> r, rows |-> rows]
Identity(r) == <<opt[r].inputs, opt[r].accumulate>>
Checkpoint(r) == [kind |-> "checkpoint", identity |-> Identity(r),
                  step |-> run[r].step, rate |-> run[r].rate,
                  model |-> run[r].model, grad |-> run[r].grad]
Gguf(r) == [kind |-> "gguf", by |-> r, model |-> run[r].model]

Rows == [step : Nat, validated : Nat]
Files == {NoFile} \cup [kind : {"partial"}, by : Runs]
         \cup [kind : {"leftover"}, by : Runs]
         \cup [kind : {"metrics"}, by : Runs, rows : Seq(Rows)]
         \cup [kind : {"checkpoint"}, identity : Inputs \X Nat, step : Nat,
               rate : Rates, model : Seq(Updates),
               grad : Seq(Inputs \X Nat)]
         \cup [kind : {"gguf"}, by : Runs, model : Seq(Updates)]

Fresh(o) == [pc |-> "idle", step |-> 0, rate |-> o.rate, model |-> <<>>,
             grad |-> <<>>, done |-> 0, stopping |-> FALSE,
             evalFailed |-> FALSE, initial |-> TRUE, validated |-> 0,
             reference |-> 0, index |-> 0, micro |-> 0, result |-> 1]

Init == /\ opt \in [Runs -> UNION {Options[r] : r \in Runs}]
        /\ \A r \in Runs : opt[r] \in Options[r]
        /\ run = [r \in Runs |-> Fresh(opt[r])]
        /\ pipe = [r \in Runs |-> {}]
        /\ files = [p \in Paths |-> NoFile]
        /\ late = [r \in Runs |-> 0]
        /\ fault = {}

-----------------------------------------------------------------------------
\* batch_start: (step * accumulate) % count by additions below count.
BatchStart(step, accumulate, count) ==
  LET add == step % count
      index[i \in 0 .. accumulate] ==
        IF i = 0 THEN 0
        ELSE IF add >= count - index[i-1] THEN add - (count - index[i-1])
             ELSE index[i-1] + add
  IN  index[accumulate]

At(r, phase) == run[r].pc = phase
Go(r, phase) == run' = [run EXCEPT ![r].pc = phase]
Calm == UNCHANGED <<opt, pipe, files, late, fault>>

\* goto cleanup with an error message: result keeps the 1 it started with.
Fail(r) == /\ Go(r, "cleanup") /\ fault' = fault \cup {r}
           /\ UNCHANGED <<opt, pipe, late>>

\* train_control_stop returns 1, and has taken the byte if there was one.
StopPending(r) == opt[r].control /\ pipe[r] # {}
TakeStop(r) == /\ StopPending(r)
               /\ pipe' = [pipe EXCEPT ![r] = @ \ {"S"}]
               /\ UNCHANGED <<opt, files, late, fault>>

\* Mutant: fopen(path, "wb"), which truncates what is there.
CreateTruncating(p, file) == files' = [files EXCEPT ![p] = file]

\* nya_file_create_exclusive: O_EXCL on a path that names nothing.
CreateExclusive(p, file) == /\ files[p] = NoFile
                            /\ files' = [files EXCEPT ![p] = file]

-----------------------------------------------------------------------------
(* Start and resume.                                                       *)

\* Options, workers, base model, tokenizer and datasets; the reference scores
\* of DPO records are computed with the parameters as they are now.
Launch(r) ==
  /\ At(r, "idle")
  /\ run' = [run EXCEPT ![r].pc = "resume", ![r].reference = run[r].step]
  /\ Calm

LoadFails(r) == At(r, "resume") /\ Fail(r) /\ UNCHANGED files

Scratch(r) == /\ At(r, "resume") /\ opt[r].resume = NoPath
              /\ Go(r, "open") /\ Calm

\* Header and tr_checkpoint accept the file; the whole optimizer is replaced,
\* its learning rate too.
Resume(r) ==
  /\ At(r, "resume") /\ opt[r].resume # NoPath
  /\ LET f == files[opt[r].resume] IN
       /\ f.kind = "checkpoint" /\ f.identity = Identity(r)
       /\ run' = [run EXCEPT ![r].pc = "open", ![r].step = f.step,
                             ![r].rate = f.rate, ![r].model = f.model,
                             ![r].grad = f.grad]
  /\ Calm

AfterOpen(r) == IF opt[r].validation > 0 THEN "evaluate" ELSE "loop"

OpenMetrics(r) ==
  /\ At(r, "open") /\ Go(r, AfterOpen(r))
  /\ \/ opt[r].metrics = NoPath /\ UNCHANGED files
     \/ /\ opt[r].metrics # NoPath
        /\ CreateExclusive(opt[r].metrics, Metrics(r, <<>>))
  /\ UNCHANGED <<opt, pipe, late, fault>>

\* The path exists, or the system refuses to create it.
OpenFails(r) == /\ At(r, "open") /\ opt[r].metrics # NoPath
                /\ Fail(r) /\ UNCHANGED files

-----------------------------------------------------------------------------
(* evaluate, run_evaluation, report_evaluation.                            *)

AfterEval(r) == IF run[r].initial THEN "loop" ELSE "record"

\* Mutant: the loss of the records evaluated so far is kept.
EvalStopIncomplete(r) ==
  /\ At(r, "evaluate") /\ run[r].validated < opt[r].validation
  /\ TakeStop(r)
  /\ run' = [run EXCEPT ![r].pc = AfterEval(r), ![r].stopping = TRUE]

EvalStop(r) ==
  /\ At(r, "evaluate") /\ run[r].validated < opt[r].validation
  /\ TakeStop(r)
  /\ run' = [run EXCEPT ![r].pc = AfterEval(r), ![r].stopping = TRUE,
                        ![r].validated = 0]

EvalRecord(r) ==
  /\ At(r, "evaluate") /\ run[r].validated < opt[r].validation
  /\ ~StopPending(r)
  /\ run' = [run EXCEPT ![r].validated = @ + 1]
  /\ Calm

\* All records evaluated; the row of this step may show the loss.
EvalDone(r) ==
  /\ At(r, "evaluate") /\ run[r].validated = opt[r].validation
  /\ run' = [run EXCEPT ![r].pc = AfterEval(r)]
  /\ Calm

\* A record fails, or progress cannot be printed and nobody controls the run.
\* The first evaluation ends the run, a later one stops it with status 1.
EvalFails(r) ==
  /\ At(r, "evaluate")
  /\ run[r].validated < opt[r].validation \/ ~opt[r].control
  /\ \/ run[r].initial /\ Fail(r)
     \/ /\ ~run[r].initial
        /\ run' = [run EXCEPT ![r].pc = "record", ![r].stopping = TRUE,
                              ![r].evalFailed = TRUE, ![r].validated = 0]
        /\ fault' = fault \cup {r}
        /\ UNCHANGED <<opt, pipe, late>>
  /\ UNCHANGED files

-----------------------------------------------------------------------------
(* The training loop and train_update.                                     *)

MoreSteps(r) == run[r].done < opt[r].steps /\ ~run[r].stopping

PollStop(r) == /\ At(r, "loop") /\ MoreSteps(r) /\ TakeStop(r)
               /\ run' = [run EXCEPT ![r].pc = "save", ![r].stopping = TRUE]

LoopEnds(r) == At(r, "loop") /\ ~MoreSteps(r) /\ Go(r, "save") /\ Calm

\* Mutant: gradients of the previous group are not cleared.
BeginUpdateDirty(r) ==
  /\ At(r, "loop") /\ MoreSteps(r) /\ ~StopPending(r)
  /\ run' = [run EXCEPT
               ![r].pc = "micro", ![r].micro = 0,
               ![r].index = BatchStart(run[r].step, opt[r].accumulate,
                                       Count[opt[r].inputs])]
  /\ Calm

\* Mutant: the loop does not poll before an update.
BeginUpdateDeaf(r) ==
  /\ At(r, "loop") /\ MoreSteps(r)
  /\ run' = [run EXCEPT
               ![r].pc = "micro", ![r].micro = 0, ![r].grad = <<>>,
               ![r].index = BatchStart(run[r].step, opt[r].accumulate,
                                       Count[opt[r].inputs])]
  /\ Calm

\* Mutant: a controlled run reads its pipe without polling, and so waits.
BeginUpdateBlocked(r) ==
  /\ At(r, "loop") /\ MoreSteps(r) /\ ~opt[r].control
  /\ run' = [run EXCEPT
               ![r].pc = "micro", ![r].micro = 0, ![r].grad = <<>>,
               ![r].index = BatchStart(run[r].step, opt[r].accumulate,
                                       Count[opt[r].inputs])]
  /\ Calm

BeginUpdate(r) ==
  /\ At(r, "loop") /\ MoreSteps(r) /\ ~StopPending(r)
  /\ run' = [run EXCEPT
               ![r].pc = "micro", ![r].micro = 0, ![r].grad = <<>>,
               ![r].index = BatchStart(run[r].step, opt[r].accumulate,
                                       Count[opt[r].inputs])]
  /\ Calm

Microbatch(r) ==
  /\ At(r, "micro") /\ run[r].micro < opt[r].accumulate
  /\ run' = [run EXCEPT
               ![r].grad = Append(@, <<opt[r].inputs, run[r].index>>),
               ![r].micro = @ + 1,
               ![r].index = IF @ + 1 = Count[opt[r].inputs] THEN 0
                            ELSE @ + 1]
  /\ Calm

\* Gradients are cleared; nothing of the group reaches the parameters.
MicrobatchFails(r) ==
  /\ At(r, "micro") /\ run[r].micro < opt[r].accumulate
  /\ run' = [run EXCEPT ![r].pc = "cleanup", ![r].grad = <<>>]
  /\ fault' = fault \cup {r}
  /\ UNCHANGED <<opt, pipe, files, late>>

EvalDue(r, step) == /\ opt[r].validation > 0
                    /\ \/ step % opt[r].evalEvery = 0
                       \/ run[r].done + 1 = opt[r].steps

\* nya_train_adamw_step computes the new values aside and then commits them
\* with the moments and the step.
AdamwStep(r) ==
  /\ At(r, "micro") /\ run[r].micro = opt[r].accumulate
  /\ run' = [run EXCEPT
               ![r].pc = IF EvalDue(r, run[r].step + 1) THEN "evaluate"
                         ELSE "record",
               ![r].model = Append(@, [rate |-> run[r].rate,
                                       reference |-> run[r].reference,
                                       batch |-> run[r].grad]),
               ![r].step = @ + 1,
               ![r].initial = FALSE, ![r].validated = 0]
  /\ late' = [late EXCEPT ![r] = IF StopPending(r) THEN @ + 1 ELSE @]
  /\ UNCHANGED <<opt, pipe, files, fault>>

AdamwFails(r) == /\ At(r, "micro") /\ run[r].micro = opt[r].accumulate
                 /\ Fail(r) /\ UNCHANGED files

\* One row of the CSV file; an evaluation that did not finish leaves it empty.
WriteRow(r) ==
  \/ opt[r].metrics = NoPath /\ UNCHANGED files
  \/ /\ opt[r].metrics # NoPath
     /\ files' = [files EXCEPT ![opt[r].metrics].rows =
                    Append(@, [step |-> run[r].step,
                               validated |-> run[r].validated])]

RecordStep(r) ==
  /\ At(r, "record") /\ WriteRow(r)
  /\ run' = [run EXCEPT ![r].pc = "loop", ![r].done = @ + 1]
  /\ UNCHANGED <<opt, pipe, late, fault>>

RowFails(r) == /\ At(r, "record") /\ opt[r].metrics # NoPath
               /\ Fail(r) /\ UNCHANGED files

PrintDue(r) == \/ run[r].done = 0
               \/ (run[r].done + 1) % 10 = 0
               \/ run[r].done + 1 = opt[r].steps

\* Lost progress output is an error only without a controller.
PrintFails(r) == /\ At(r, "record") /\ PrintDue(r) /\ ~opt[r].control
                 /\ WriteRow(r) /\ Fail(r)

-----------------------------------------------------------------------------
(* Checkpoint, export and exit.                                            *)

SkipCheckpoint(r) == /\ At(r, "save") /\ opt[r].checkpoint = NoPath
                     /\ Go(r, "export") /\ Calm

CreateCheckpoint(r) ==
  /\ At(r, "save") /\ opt[r].checkpoint # NoPath
  /\ CreateExclusive(opt[r].checkpoint, Partial(r))
  /\ Go(r, "checkpoint") /\ UNCHANGED <<opt, pipe, late, fault>>

CheckpointRefused(r) == /\ At(r, "save") /\ opt[r].checkpoint # NoPath
                        /\ Fail(r) /\ UNCHANGED files

WriteCheckpoint(r) ==
  /\ At(r, "checkpoint") /\ Go(r, "export")
  /\ files' = [files EXCEPT ![opt[r].checkpoint] = Checkpoint(r)]
  /\ UNCHANGED <<opt, pipe, late, fault>>

\* After a failed write the run removes the file it created and ignores the
\* result of nya_file_remove: what cannot be removed is left over.
Discard(r, p) == \E left \in {NoFile, Leftover(r)} :
                   files' = [files EXCEPT ![p] = left]

\* Mutant: nobody removes the file created before the failed write.
CheckpointFailsKept(r) == /\ At(r, "checkpoint") /\ Fail(r)
                          /\ UNCHANGED files

CheckpointFails(r) == /\ At(r, "checkpoint") /\ Fail(r)
                      /\ Discard(r, opt[r].checkpoint)

CreateOutput(r) == /\ At(r, "export")
                   /\ CreateExclusive(opt[r].output, Partial(r))
                   /\ Go(r, "exporting") /\ UNCHANGED <<opt, pipe, late, fault>>

OutputRefused(r) == At(r, "export") /\ Fail(r) /\ UNCHANGED files

WriteOutput(r) ==
  /\ At(r, "exporting")
  /\ files' = [files EXCEPT ![opt[r].output] = Gguf(r)]
  /\ run' = [run EXCEPT ![r].pc = "cleanup",
                        ![r].result = IF run[r].evalFailed THEN 1 ELSE 0]
  /\ UNCHANGED <<opt, pipe, late, fault>>

OutputFails(r) == /\ At(r, "exporting") /\ Fail(r)
                  /\ Discard(r, opt[r].output)

Exit(r) == At(r, "cleanup") /\ Go(r, "done") /\ Calm

HasMetrics(r) == /\ opt[r].metrics # NoPath
                 /\ files[opt[r].metrics].kind = "metrics"
                 /\ files[opt[r].metrics].by = r

\* Closing the metrics file is the last thing that can fail.
ExitCloseFails(r) ==
  /\ At(r, "cleanup") /\ HasMetrics(r)
  /\ run' = [run EXCEPT ![r].pc = "done", ![r].result = 1]
  /\ fault' = fault \cup {r}
  /\ UNCHANGED <<opt, pipe, files, late>>

-----------------------------------------------------------------------------
(* The environment: the controller at the other end of stdin, and kill.    *)

Alive(r) == run[r].pc \notin {"idle", "done", "killed"}

RequestStop(r) == /\ Alive(r) /\ opt[r].control
                  /\ \E mark \in {"S", "eof"} \ pipe[r] :
                       pipe' = [pipe EXCEPT ![r] = @ \cup {mark}]
                  /\ UNCHANGED <<opt, run, files, late, fault>>

Kill(r) == Alive(r) /\ Go(r, "killed") /\ Calm

Advance(r) ==
  \/ LoadFails(r) \/ Scratch(r) \/ Resume(r) \/ OpenMetrics(r) \/ OpenFails(r)
  \/ EvalStop(r) \/ EvalRecord(r) \/ EvalDone(r) \/ EvalFails(r)
  \/ PollStop(r) \/ LoopEnds(r) \/ BeginUpdate(r) \/ Microbatch(r)
  \/ MicrobatchFails(r) \/ AdamwStep(r) \/ AdamwFails(r) \/ RecordStep(r)
  \/ RowFails(r) \/ PrintFails(r)
  \/ SkipCheckpoint(r) \/ CreateCheckpoint(r) \/ CheckpointRefused(r)
  \/ WriteCheckpoint(r) \/ CheckpointFails(r) \/ CreateOutput(r)
  \/ OutputRefused(r) \/ WriteOutput(r) \/ OutputFails(r)
  \/ Exit(r) \/ ExitCloseFails(r)

Next == \E r \in Runs : Launch(r) \/ Advance(r) \/ RequestStop(r) \/ Kill(r)

Spec == Init /\ [][Next]_vars

\* A started process keeps running; nothing makes a user start or stop one.
FairSpec == Spec /\ \A r \in Runs : WF_vars(Advance(r))
-----------------------------------------------------------------------------
(* Properties.                                                             *)

\* Every variable keeps its type: a path names nothing, an incomplete file,
\* the metrics of a run, a checkpoint or a GGUF file.
TypeOK == /\ opt \in [Runs -> CommandLines]
          /\ run \in [Runs -> RunState]
          /\ pipe \in [Runs -> SUBSET {"S", "eof"}]
          /\ files \in [Paths -> Files]
          /\ late \in [Runs -> Nat]
          /\ fault \subseteq Runs

\* What one uninterrupted run has applied after n updates: groups of
\* consecutive records in file order, wrapping at the end of the dataset.
Uninterrupted(identity, rate, n) ==
  LET inputs == identity[1]
      size == identity[2]
  IN  [k \in 1 .. n |->
         [rate |-> rate, reference |-> 0,
          batch |-> [j \in 1 .. size |->
                       <<inputs, ((k-1) * size + j - 1) % Count[inputs]>>]]]

\* However often training was stopped, killed, resumed or failed, parameters
\* in memory and in a complete checkpoint are those of one uninterrupted run
\* of as many updates, at one learning rate, on one set of inputs and against
\* the reference policy it started from.
TrainedInOrder ==
  /\ \A r \in Runs :
       run[r].model = Uninterrupted(Identity(r), run[r].rate, run[r].step)
  /\ \A p \in Paths : LET f == files[p] IN
       f.kind = "checkpoint" =>
         f.model = Uninterrupted(f.identity, f.rate, f.step)

\* Exit status 0 means that the GGUF file and the checkpoint asked for are
\* complete and hold the run's last parameters, and that training did all
\* its steps or was stopped; only a failed operation makes a run exit with 1,
\* a request to stop never does.
SuccessMeansSaved ==
  \A r \in Runs : At(r, "done") =>
    /\ run[r].result = 0 =>
         /\ files[opt[r].output] = Gguf(r)
         /\ opt[r].checkpoint # NoPath =>
              files[opt[r].checkpoint] = Checkpoint(r)
         /\ run[r].stopping \/ run[r].done = opt[r].steps
    /\ run[r].result = 1 => r \in fault

\* An incomplete file belongs to a run that is writing it now, was killed
\* while it wrote, or failed and could not remove it: then it neither exits
\* with 0 nor is it still to write there.
PartialsAreInterrupted ==
  \A p \in Paths : LET r == files[p].by IN
    /\ files[p].kind = "partial" =>
         \/ At(r, "checkpoint") /\ p = opt[r].checkpoint
         \/ At(r, "exporting") /\ p = opt[r].output
         \/ At(r, "killed")
    /\ files[p].kind = "leftover" =>
         /\ run[r].pc \in {"cleanup", "done", "killed"}
         /\ run[r].result = 1 /\ r \in fault

\* What a run reports and what it leaves on disk agree: the exit status, the
\* files that were asked for, and the incomplete files of interrupted writes.
OutcomesAreExact == TypeOK /\ SuccessMeansSaved /\ PartialsAreInterrupted

\* A row is written for each update of the run, in order; it shows a
\* validation loss when one was due and only if that evaluation covered all
\* its records, and a due one is missing only in the last row of a stopped run.
MetricsAreExact ==
  \A p \in Paths : files[p].kind = "metrics" =>
    LET r == files[p].by
        rows == files[p].rows
    IN  \A i \in 1 .. Len(rows) :
          /\ rows[i].step <= run[r].step
          /\ i > 1 => rows[i].step = rows[i-1].step + 1
          /\ rows[i].validated \in {0, opt[r].validation}
          /\ (/\ opt[r].validation > 0
              /\ rows[i].step % opt[r].evalEvery = 0
              /\ rows[i].validated = 0)
               => i = Len(rows) /\ run[r].stopping

\* The control pipe is polled between updates: after a request to stop at
\* most the update under way is applied.
StopIsPrompt == \A r \in Runs : late[r] <= 1

\* No run changes or removes a complete checkpoint or GGUF file, its own or
\* another's, and only its owner writes to a metrics file.
CompleteFilesAreKept ==
  [][\A p \in Paths :
       /\ files[p].kind \in {"checkpoint", "gguf"} => files'[p] = files[p]
       /\ files[p].kind = "metrics" =>
            /\ files'[p].kind = "metrics" /\ files'[p].by = files[p].by
            /\ files'[p] # files[p] => At(files[p].by, "record")]_vars

\* Every run that was started ends, whatever its controller does.
RunsEnd == \A r \in Runs :
             ~At(r, "idle") ~> run[r].pc \in {"done", "killed"}
=============================================================================
