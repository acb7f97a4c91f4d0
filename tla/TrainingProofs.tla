---------------------------- MODULE TrainingProofs ---------------------------
(***************************************************************************)
(* Theorems about training: TrainRun for every set of executions, every    *)
(* command line and datasets of every size, and the application (Desktop)  *)
(* that starts trainers, for any number of trainings, of threads, of       *)
(* requests to leave and of looks at the server.                           *)
(***************************************************************************)
EXTENDS TrainRun, Desktop, SequenceTheorems, WellFoundedInduction, FiniteSetTheorems, TLAPS

-----------------------------------------------------------------------------
(* Arithmetic.                                                             *)

LEMMA LessIsWellFounded == IsWellFoundedOn({ss \in Nat \X Nat : ss[1] < ss[2]}, Nat)
  BY NatLessThanWellFounded DEF OpToRel

\* A set of naturals that is not empty has a least element.
LEMMA LeastElement ==
  ASSUME NEW T, T \subseteq Nat, T # {}
  PROVE  \E x \in T : \A y \in T : x <= y
<1> DEFINE R == {ss \in Nat \X Nat : ss[1] < ss[2]}
<1>1. \E x \in T : \A y \in T : ~(<<y, x>> \in R)
  <2>1. IsWellFoundedOn(R, Nat)
    BY LessIsWellFounded
  <2> HIDE DEF R
  <2> QED BY <2>1, WFMin
<1>2. PICK x \in T : \A y \in T : ~(<<y, x>> \in R)
  BY <1>1
<1>3. ASSUME NEW y \in T PROVE x <= y
  <2>1. x \in Nat /\ y \in Nat /\ ~(<<y, x>> \in R)
    BY <1>2
  <2>2. ~(y < x)
    BY <2>1
  <2> QED BY <2>1, <2>2
<1> QED BY <1>3

LEMMA DivMod ==
  ASSUME NEW x \in Nat, NEW c \in Nat \ {0}
  PROVE  /\ x \div c \in Nat /\ x % c \in 0 .. c - 1
         /\ x = (c * (x \div c)) + (x % c)
  BY SMT

LEMMA ModIs ==
  ASSUME NEW c \in Nat \ {0}, NEW q \in Nat, NEW r \in 0 .. c - 1
  PROVE  ((c * q) + r) % c = r
  BY SMT

\* A sum with a summand below the modulus wraps at most once.
LEMMA ModPlus ==
  ASSUME NEW c \in Nat \ {0}, NEW x \in Nat, NEW y \in 0 .. c
  PROVE  (x + y) % c = IF (x % c) + y >= c THEN (x % c) + y - c ELSE (x % c) + y
<1> DEFINE q == x \div c
           r == x % c
<1>1. q \in Nat /\ r \in 0 .. c - 1 /\ x = (c * q) + r
  BY DivMod
<1> HIDE DEF q, r
<1>2. CASE r + y >= c
  <2>1. r + y - c \in 0 .. c - 1 /\ q + 1 \in Nat
    BY <1>1, <1>2
  <2>2. x + y = (c * (q + 1)) + (r + y - c)
    <3>1. c * (q + 1) = (c * q) + c
      BY <1>1
    <3>2. c * q \in Nat
      BY <1>1
    <3> QED BY <1>1, <3>1, <3>2
  <2>3. ((c * (q + 1)) + (r + y - c)) % c = r + y - c
    BY <2>1, ModIs
  <2> QED BY <1>2, <2>2, <2>3 DEF r
<1>3. CASE ~(r + y >= c)
  <2>1. r + y \in 0 .. c - 1
    BY <1>1, <1>3
  <2>2. x + y = (c * q) + (r + y)
    <3>1. c * q \in Nat
      BY <1>1
    <3> QED BY <1>1, <3>1
  <2>3. ((c * q) + (r + y)) % c = r + y
    BY <1>1, <2>1, ModIs
  <2> QED BY <1>3, <2>2, <2>3 DEF r
<1> QED BY <1>2, <1>3

\* A factor may be reduced before the product is.
LEMMA ModTimes ==
  ASSUME NEW c \in Nat \ {0}, NEW s \in Nat, NEW a \in Nat
  PROVE  (a * (s % c)) % c = (s * a) % c
<1> DEFINE q == s \div c
           r == s % c
           p == (a * r) \div c
           t == (a * r) % c
<1>1. q \in Nat /\ r \in Nat /\ s = (c * q) + r
  BY DivMod
<1> HIDE DEF q, r
<1>2. a * r \in Nat
  BY <1>1
<1>3. p \in Nat /\ t \in 0 .. c - 1 /\ a * r = (c * p) + t
  BY <1>2, DivMod
<1> HIDE DEF p, t
<1>4. s * a = (c * ((a * q) + p)) + t
  <2>1. t \in Nat
    BY <1>3
  <2>2. s * a = (a * (c * q)) + (a * r)
    BY <1>1
  <2>3. a * (c * q) = c * (a * q) /\ a * q \in Nat /\ c * (a * q) \in Nat
    BY <1>1
  <2>4. c * ((a * q) + p) = (c * (a * q)) + (c * p) /\ c * p \in Nat
    BY <1>3, <2>3
  <2> QED BY <1>3, <2>1, <2>2, <2>3, <2>4
<1>5. (a * q) + p \in Nat
  <2>1. a * q \in Nat
    BY <1>1
  <2> QED BY <1>3, <2>1
<1>6. ((c * ((a * q) + p)) + t) % c = t
  BY <1>3, <1>5, ModIs
<1> QED BY <1>4, <1>6 DEF t, r

\* batch_start computes (step * accumulate) % count without the product.
LEMMA BatchStartIs ==
  ASSUME NEW step \in Nat, NEW accumulate \in Nat, NEW count \in Nat \ {0}
  PROVE  BatchStart(step, accumulate, count) = (step * accumulate) % count
<1> DEFINE add == step % count
           Body(f) == [i \in 0 .. accumulate |->
                         IF i = 0 THEN 0
                         ELSE IF add >= count - f[i-1] THEN add - (count - f[i-1])
                              ELSE f[i-1] + add]
           index == CHOOSE f : f = Body(f)
           g == [i \in 0 .. accumulate |-> (i * add) % count]
<1>1. add \in 0 .. count - 1
  BY DivMod
<1>2. ASSUME NEW i \in Nat \ {0}
      PROVE  (i * add) % count = IF (((i - 1) * add) % count) + add >= count
                                 THEN (((i - 1) * add) % count) + add - count
                                 ELSE (((i - 1) * add) % count) + add
  <2> HIDE DEF add
  <2>1. (i - 1) * add \in Nat /\ i * add = ((i - 1) * add) + add
    BY <1>1
  <2>2. add \in 0 .. count
    BY <1>1
  <2> DEFINE x == (i - 1) * add
  <2>3. x \in Nat /\ i * add = x + add
    BY <2>1
  <2> HIDE DEF x
  <2>4. (x + add) % count = IF (x % count) + add >= count THEN (x % count) + add - count
                            ELSE (x % count) + add
    BY <2>2, <2>3, ModPlus
  <2> QED BY <2>3, <2>4 DEF x
<1>3. ASSUME NEW i \in Nat PROVE (i * add) % count \in 0 .. count - 1
  <2> HIDE DEF add
  <2>1. i * add \in Nat
    BY <1>1
  <2> QED BY <2>1, DivMod
<1>4. 0 % count = 0 /\ 0 * add = 0
  <2> HIDE DEF add
  <2>1. 0 * add = 0
    BY <1>1
  <2> QED BY <2>1
<1>5. g = Body(g)
  <2> SUFFICES ASSUME NEW i \in 0 .. accumulate
               PROVE  g[i] = IF i = 0 THEN 0
                             ELSE IF add >= count - g[i-1] THEN add - (count - g[i-1])
                                  ELSE g[i-1] + add
    OBVIOUS
  <2>1. CASE i = 0
    BY <1>4, <2>1
  <2>2. CASE i # 0
    <3>1. i - 1 \in 0 .. accumulate /\ i \in Nat \ {0} /\ i - 1 \in Nat
      BY <2>2
    <3>2. g[i] = (i * add) % count /\ g[i-1] = ((i - 1) * add) % count
      BY <3>1
    <3>3. g[i-1] \in 0 .. count - 1
      BY <1>3, <3>1, <3>2
    <3>4. g[i] = IF g[i-1] + add >= count THEN g[i-1] + add - count ELSE g[i-1] + add
      BY <1>2, <3>1, <3>2
    <3> HIDE DEF g, add
    <3> QED BY <1>1, <2>2, <3>3, <3>4
  <2> QED BY <2>1, <2>2
<1>6. index = Body(index)
  BY <1>5
<1>7. BatchStart(step, accumulate, count) = index[accumulate]
  BY DEF BatchStart
<1> HIDE DEF index, g
<1>8. ASSUME NEW i \in 0 .. accumulate PROVE index[i] = (i * add) % count
  <2> DEFINE Wrong == {j \in 0 .. accumulate : index[j] # (j * add) % count}
  <2> SUFFICES ASSUME Wrong # {} PROVE FALSE
    BY DEF Wrong
  <2>1. PICK j \in Wrong : \A k \in Wrong : j <= k
    <3>1. Wrong \subseteq Nat
      OBVIOUS
    <3> HIDE DEF Wrong
    <3> QED BY <3>1, LeastElement
  <2>2. j \in 0 .. accumulate /\ index[j] # (j * add) % count
    OBVIOUS
  <2>3. j # 0
    BY <1>4, <1>6, <2>2
  <2>4. j - 1 \in 0 .. accumulate /\ j - 1 \notin Wrong /\ j \in Nat \ {0} /\ j - 1 \in Nat
    BY <2>1, <2>2, <2>3
  <2>5. index[j - 1] = ((j - 1) * add) % count
    BY <2>4
  <2>6. index[j] = IF add >= count - index[j-1] THEN add - (count - index[j-1])
                   ELSE index[j-1] + add
    BY <1>6, <2>2, <2>3
  <2>7. (j * add) % count = IF index[j-1] + add >= count THEN index[j-1] + add - count
                            ELSE index[j-1] + add
    BY <1>2, <2>4, <2>5
  <2>8. index[j-1] \in 0 .. count - 1
    BY <1>3, <2>4, <2>5
  <2> HIDE DEF Wrong, add, Body
  <2> QED BY <1>1, <2>2, <2>6, <2>7, <2>8
<1>9. index[accumulate] = (accumulate * (step % count)) % count
  <2> HIDE DEF Body
  <2> QED BY <1>8
<1> QED BY <1>7, <1>9, ModTimes

-----------------------------------------------------------------------------
(* The inductive invariant.                                                *)

\* The gradients of the first m microbatches of the update after n updates.
Group(inputs, size, n, m) ==
  [j \in 1 .. m |-> <<inputs, ((n * size) + j - 1) % Count[inputs]>>]

\* The parameters of a run, and the gradients in the middle of an update.
Trained(s, o) ==
  /\ s.reference = 0
  /\ s.pc = "idle" => s.step = 0
  /\ s.model = Uninterrupted(<<o.inputs, o.accumulate>>, s.rate, s.step)
  /\ s.pc = "micro" =>
       /\ s.micro <= o.accumulate
       /\ s.grad = Group(o.inputs, o.accumulate, s.step, s.micro)
       /\ s.index = ((s.step * o.accumulate) + s.micro) % Count[o.inputs]

\* A due evaluation that did not cover its records.
Missing(step, validated, o) == o.validation > 0 /\ step % o.evalEvery = 0 /\ validated = 0

\* Where a run is, and what it has done and learnt by then.
Control(s, o) ==
  /\ s.pc \in {"idle", "resume", "open"} =>
       s.initial /\ ~s.stopping /\ s.validated = 0
  /\ s.initial => s.done = 0
  /\ s.done <= o.steps
  /\ s.pc = "evaluate" => ~s.stopping /\ o.validation > 0 /\ s.validated <= o.validation
                          /\ (s.initial \/ s.done < o.steps)
  /\ s.pc = "micro" => ~s.stopping /\ s.done < o.steps
  /\ s.pc = "record" => /\ ~s.initial /\ s.done < o.steps
                        /\ s.validated \in {0, o.validation}
                        /\ Missing(s.step, s.validated, o) => s.stopping
  /\ s.pc \in {"save", "checkpoint", "export", "exporting"} \/ s.result = 0 =>
       s.stopping \/ s.done = o.steps
  /\ s.result = 0 => s.pc \in {"cleanup", "done", "killed"}

\* Why a run ended, and what it applied after a request to stop.
Ended(r) ==
  /\ run[r].evalFailed => r \in fault
  /\ run[r].pc \in {"cleanup", "done"} /\ run[r].result = 1 => r \in fault
  /\ late[r] <= 1
  /\ late[r] = 1 =>
       /\ run[r].pc \notin {"idle", "resume", "open", "micro"}
       /\ run[r].pc \in {"evaluate", "loop", "record"} => run[r].stopping \/ StopPending(r)

\* The files a run is writing or has written.
OwnFiles(r) ==
  LET pc == run[r].pc
      o  == opt[r]
  IN  /\ pc = "checkpoint" =>
           o.checkpoint # NoPath /\ files[o.checkpoint] = Partial(r)
      /\ pc = "exporting" => files[o.output] = Partial(r)
      /\ (pc \in {"export", "exporting"} \/ run[r].result = 0) /\ o.checkpoint # NoPath =>
           files[o.checkpoint] = Checkpoint(r)
      /\ run[r].result = 0 => files[o.output] = Gguf(r)
      /\ pc \in {"evaluate", "loop", "micro", "record"} /\ o.metrics # NoPath =>
           files[o.metrics].kind = "metrics" /\ files[o.metrics].by = r

Interrupted(r, p) == \/ At(r, "checkpoint") /\ p = opt[r].checkpoint
                     \/ At(r, "exporting") /\ p = opt[r].output
                     \/ At(r, "killed")

\* The run has failed and has nothing left to write.
GaveUp(r) == /\ run[r].pc \in {"cleanup", "done", "killed"}
             /\ run[r].result = 1 /\ r \in fault

\* The rows a run has written so far.
RowsExact(rows, s, o) ==
  /\ s.pc \notin {"idle", "resume", "open"}
  /\ s.initial => rows = <<>>
  /\ \A i \in 1 .. Len(rows) :
       /\ rows[i].step <= s.step
       /\ i > 1 => rows[i].step = rows[i-1].step + 1
       /\ rows[i].validated \in {0, o.validation}
       /\ Missing(rows[i].step, rows[i].validated, o) =>
            i = Len(rows) /\ s.stopping /\ s.pc \notin {"evaluate", "micro", "record"}
  /\ rows # <<>> =>
       /\ s.pc \in {"evaluate", "record"} => rows[Len(rows)].step + 1 = s.step
       /\ s.pc \in {"loop", "micro"} => rows[Len(rows)].step = s.step

Sound(p) ==
  LET f == files[p] IN
    /\ f.kind = "checkpoint" => f.model = Uninterrupted(f.identity, f.rate, f.step)
    /\ f.kind = "partial" => Interrupted(f.by, p)
    /\ f.kind = "leftover" => GaveUp(f.by)
    /\ f.kind = "metrics" => /\ p = opt[f.by].metrics
                             /\ RowsExact(f.rows, run[f.by], opt[f.by])

OwnInv(r) == Control(run[r], opt[r]) /\ Trained(run[r], opt[r]) /\ Ended(r)

IInv == /\ TypeOK
        /\ \A r \in Runs : OwnInv(r) /\ OwnFiles(r)
        /\ \A p \in Paths : Sound(p)

-----------------------------------------------------------------------------
(* What a step leaves alone.                                               *)

\* A step of one run.
StepOf(r) == Launch(r) \/ Advance(r) \/ RequestStop(r) \/ Kill(r)

LEMMA NextIsAStep == Next <=> \E r \in Runs : StepOf(r)
  BY DEF Next, StepOf

\* The records of a run, of its command line and of a file.
LEMMA Parts ==
  ASSUME TypeOK, NEW r \in Runs
  PROVE  /\ run[r] \in RunState /\ opt[r] \in CommandLines
         /\ run \in [Runs -> RunState] /\ late[r] \in Nat
         /\ opt[r].inputs \in Inputs /\ opt[r].accumulate \in Nat \ {0}
         /\ opt[r].steps \in Nat \ {0} /\ opt[r].rate \in Rates
         /\ opt[r].validation \in Nat /\ opt[r].evalEvery \in Nat \ {0}
         /\ opt[r].checkpoint \in Paths \cup {NoPath} /\ opt[r].resume \in Paths \cup {NoPath}
         /\ opt[r].metrics \in Paths \cup {NoPath} /\ opt[r].output \in Paths
         /\ Count[opt[r].inputs] \in Nat \ {0}
  BY TrainAssumption DEF TypeOK, CommandLines

LEMMA RunParts ==
  ASSUME NEW s \in RunState
  PROVE  /\ s.pc \in Phases /\ s.step \in Nat /\ s.rate \in Rates /\ s.model \in Seq(Updates)
         /\ s.grad \in Seq(Inputs \X Nat) /\ s.done \in Nat /\ s.stopping \in BOOLEAN
         /\ s.evalFailed \in BOOLEAN /\ s.initial \in BOOLEAN /\ s.validated \in Nat
         /\ s.reference \in Nat /\ s.index \in Nat /\ s.micro \in Nat /\ s.result \in {0, 1}
  BY DEF RunState

\* A step changes the state of no other run.
LEMMA OthersUnchanged ==
  ASSUME TypeOK, NEW r \in Runs, StepOf(r)
  PROVE  /\ opt' = opt /\ fault \subseteq fault'
         /\ \A q \in Runs \ {r} : /\ run'[q] = run[q] /\ late'[q] = late[q] /\ pipe'[q] = pipe[q]
                                  /\ q \in fault' <=> q \in fault
<1> USE DEF TypeOK
<1>1. CASE Launch(r)
  BY <1>1 DEF Launch, Calm
<1>2. CASE RequestStop(r)
  BY <1>2 DEF RequestStop, Calm
<1>3. CASE Kill(r)
  BY <1>3 DEF Kill, Go, Calm, Alive
<1>4. CASE LoadFails(r)
  BY <1>4 DEF LoadFails, Go, Calm, Fail
<1>5. CASE Scratch(r)
  BY <1>5 DEF Scratch, Go, Calm
<1>6. CASE Resume(r)
  BY <1>6 DEF Resume, Calm
<1>7. CASE OpenMetrics(r)
  BY <1>7 DEF OpenMetrics, Go, Calm, AfterOpen, CreateExclusive
<1>8. CASE OpenFails(r)
  BY <1>8 DEF OpenFails, Go, Calm, Fail
<1>9. CASE EvalStop(r)
  BY <1>9 DEF EvalStop, Calm, AfterEval, TakeStop
<1>10. CASE EvalRecord(r)
  BY <1>10 DEF EvalRecord, Calm
<1>11. CASE EvalDone(r)
  BY <1>11 DEF EvalDone, Calm, AfterEval
<1>12. CASE EvalFails(r)
  BY <1>12 DEF EvalFails, Calm, Fail, Go
<1>13. CASE PollStop(r)
  BY <1>13 DEF PollStop, Calm, MoreSteps, TakeStop
<1>14. CASE LoopEnds(r)
  BY <1>14 DEF LoopEnds, Go, Calm, MoreSteps
<1>15. CASE BeginUpdate(r)
  BY <1>15 DEF BeginUpdate, Calm, MoreSteps
<1>16. CASE Microbatch(r)
  BY <1>16 DEF Microbatch, Calm
<1>17. CASE MicrobatchFails(r)
  BY <1>17 DEF MicrobatchFails, Calm
<1>18. CASE AdamwStep(r)
  BY <1>18 DEF AdamwStep, Calm
<1>19. CASE AdamwFails(r)
  BY <1>19 DEF AdamwFails, Go, Calm, Fail
<1>20. CASE RecordStep(r)
  BY <1>20 DEF RecordStep, Calm, WriteRow
<1>21. CASE RowFails(r)
  BY <1>21 DEF RowFails, Go, Calm, Fail
<1>22. CASE PrintFails(r)
  BY <1>22 DEF PrintFails, Go, Calm, Fail, WriteRow
<1>23. CASE SkipCheckpoint(r)
  BY <1>23 DEF SkipCheckpoint, Go, Calm
<1>24. CASE CreateCheckpoint(r)
  BY <1>24 DEF CreateCheckpoint, Go, Calm, CreateExclusive
<1>25. CASE CheckpointRefused(r)
  BY <1>25 DEF CheckpointRefused, Go, Calm, Fail
<1>26. CASE WriteCheckpoint(r)
  BY <1>26 DEF WriteCheckpoint, Go, Calm
<1>27. CASE CheckpointFails(r)
  BY <1>27 DEF CheckpointFails, Go, Calm, Fail
<1>28. CASE CreateOutput(r)
  BY <1>28 DEF CreateOutput, Go, Calm, CreateExclusive
<1>29. CASE OutputRefused(r)
  BY <1>29 DEF OutputRefused, Go, Calm, Fail
<1>30. CASE WriteOutput(r)
  BY <1>30 DEF WriteOutput, Calm
<1>31. CASE OutputFails(r)
  BY <1>31 DEF OutputFails, Go, Calm, Fail
<1>32. CASE Exit(r)
  BY <1>32 DEF Exit, Go, Calm
<1>33. CASE ExitCloseFails(r)
  BY <1>33 DEF ExitCloseFails, Calm

<1> QED BY <1>1, <1>2, <1>3, <1>4, <1>5, <1>6, <1>7, <1>8, <1>9, <1>10, <1>11, <1>12, <1>13, <1>14, <1>15, <1>16, <1>17, <1>18, <1>19, <1>20, <1>21, <1>22, <1>23, <1>24, <1>25, <1>26, <1>27, <1>28, <1>29, <1>30, <1>31, <1>32, <1>33 DEF StepOf, Advance

-----------------------------------------------------------------------------
(* Types.                                                                  *)

\* What a path can name, by its kind.
LEMMA FileParts ==
  ASSUME NEW f \in Files
  PROVE  /\ f.kind \in {"absent", "partial", "leftover", "metrics", "checkpoint", "gguf"}
         /\ f.kind = "absent" <=> f = NoFile
         /\ f.kind = "partial" => f.by \in Runs /\ f = Partial(f.by)
         /\ f.kind = "leftover" => f.by \in Runs /\ f = Leftover(f.by)
         /\ f.kind = "metrics" => /\ f.by \in Runs /\ f.rows \in Seq(Rows)
                                  /\ f = Metrics(f.by, f.rows)
         /\ f.kind = "checkpoint" =>
              /\ f.identity \in Inputs \X Nat /\ f.step \in Nat /\ f.rate \in Rates
              /\ f.model \in Seq(Updates) /\ f.grad \in Seq(Inputs \X Nat)
         /\ f.kind = "gguf" => f.by \in Runs /\ f.model \in Seq(Updates)
<1>1. CASE f = NoFile
  BY <1>1 DEF NoFile
<1>2. CASE f \in [kind : {"partial"}, by : Runs]
  BY <1>2 DEF Partial, NoFile
<1>3. CASE f \in [kind : {"metrics"}, by : Runs, rows : Seq(Rows)]
  BY <1>3 DEF Metrics, NoFile
<1>4. CASE f \in [kind : {"checkpoint"}, identity : Inputs \X Nat, step : Nat, rate : Rates,
                  model : Seq(Updates), grad : Seq(Inputs \X Nat)]
  BY <1>4 DEF NoFile
<1>5. CASE f \in [kind : {"gguf"}, by : Runs, model : Seq(Updates)]
  BY <1>5 DEF NoFile
<1>6. CASE f \in [kind : {"leftover"}, by : Runs]
  BY <1>6 DEF Leftover, NoFile
<1> QED BY <1>1, <1>2, <1>3, <1>4, <1>5, <1>6 DEF Files

\* What a run writes.
LEMMA WrittenFiles ==
  ASSUME TypeOK, NEW r \in Runs
  PROVE  /\ NoFile \in Files /\ Partial(r) \in Files /\ Checkpoint(r) \in Files /\ Gguf(r) \in Files
         /\ Leftover(r) \in Files /\ Leftover(r).kind = "leftover" /\ Leftover(r).by = r
         /\ NoFile.kind = "absent" /\ Partial(r).kind = "partial" /\ Partial(r).by = r
         /\ Checkpoint(r).kind = "checkpoint" /\ Gguf(r).kind = "gguf"
         /\ \A rows \in Seq(Rows) : /\ Metrics(r, rows) \in Files
                                    /\ Metrics(r, rows).kind = "metrics"
                                    /\ Metrics(r, rows).by = r /\ Metrics(r, rows).rows = rows
<1>1. run[r] \in RunState /\ opt[r].inputs \in Inputs /\ opt[r].accumulate \in Nat
  BY Parts
<1>2. Checkpoint(r) \in [kind : {"checkpoint"}, identity : Inputs \X Nat, step : Nat, rate : Rates,
                         model : Seq(Updates), grad : Seq(Inputs \X Nat)]
  BY <1>1, RunParts DEF Checkpoint, Identity
<1>3. Gguf(r) \in [kind : {"gguf"}, by : Runs, model : Seq(Updates)]
  BY <1>1, RunParts DEF Gguf
<1>4. Partial(r) \in [kind : {"partial"}, by : Runs]
  BY DEF Partial
<1>5. \A rows \in Seq(Rows) :
        Metrics(r, rows) \in [kind : {"metrics"}, by : Runs, rows : Seq(Rows)]
  BY DEF Metrics
<1>6. /\ NoFile.kind = "absent" /\ Partial(r).kind = "partial" /\ Partial(r).by = r
      /\ Checkpoint(r).kind = "checkpoint" /\ Gguf(r).kind = "gguf"
      /\ \A rows \in Seq(Rows) : /\ Metrics(r, rows).kind = "metrics"
                                 /\ Metrics(r, rows).by = r /\ Metrics(r, rows).rows = rows
  BY DEF NoFile, Partial, Checkpoint, Gguf, Metrics
<1>7. /\ Leftover(r) \in [kind : {"leftover"}, by : Runs]
      /\ Leftover(r).kind = "leftover" /\ Leftover(r).by = r
  BY DEF Leftover
<1> QED BY <1>2, <1>3, <1>4, <1>5, <1>6, <1>7 DEF Files

\* The state of a run keeps its type.
LEMMA RunTypeStep ==
  ASSUME TypeOK, NEW r \in Runs, StepOf(r)
  PROVE  run' \in [Runs -> RunState]
<1>1. /\ run \in [Runs -> RunState] /\ run[r] \in RunState
  BY Parts
<1> USE <1>1
<1>2. CASE Launch(r)
  BY <1>2 DEF Launch, Calm, RunState, Phases
<1>3. CASE RequestStop(r)
  BY <1>3 DEF RequestStop, Calm, RunState, Phases
<1>4. CASE Kill(r)
  BY <1>4 DEF Kill, Go, RunState, Phases
<1>5. CASE LoadFails(r)
  BY <1>5 DEF LoadFails, Go, Calm, Fail, RunState, Phases
<1>6. CASE Scratch(r)
  BY <1>6 DEF Scratch, Go, Calm, RunState, Phases
<1>7. CASE Resume(r)
  <2>1. opt[r].resume \in Paths /\ files[opt[r].resume] \in Files
    BY <1>7, Parts DEF Resume, TypeOK
  <2> DEFINE f == files[opt[r].resume]
  <2>2. f.step \in Nat /\ f.rate \in Rates /\ f.model \in Seq(Updates) /\ f.grad \in Seq(Inputs \X Nat)
    BY <1>7, <2>1, FileParts DEF Resume
  <2>3. run' = [run EXCEPT ![r].pc = "open", ![r].step = f.step, ![r].rate = f.rate,
                           ![r].model = f.model, ![r].grad = f.grad]
    BY <1>7 DEF Resume
  <2> HIDE DEF f
  <2> QED BY <2>2, <2>3 DEF RunState, Phases
<1>8. CASE OpenMetrics(r)
  BY <1>8 DEF OpenMetrics, Go, Calm, AfterOpen, CreateExclusive, RunState, Phases
<1>9. CASE OpenFails(r)
  BY <1>9 DEF OpenFails, Go, Calm, Fail, RunState, Phases
<1>10. CASE EvalStop(r)
  <2>1. AfterEval(r) \in Phases
    BY DEF AfterEval, Phases
  <2>2. run' = [run EXCEPT ![r].pc = AfterEval(r), ![r].stopping = TRUE, ![r].validated = 0]
    BY <1>10 DEF EvalStop
  <2> QED BY <2>1, <2>2 DEF RunState
<1>11. CASE EvalRecord(r)
  <2>1. run[r].validated + 1 \in Nat
    BY RunParts
  <2>2. run' = [run EXCEPT ![r].validated = run[r].validated + 1]
    BY <1>11 DEF EvalRecord
  <2> QED BY <2>1, <2>2 DEF RunState
<1>12. CASE EvalDone(r)
  <2>1. AfterEval(r) \in Phases
    BY DEF AfterEval, Phases
  <2>2. run' = [run EXCEPT ![r].pc = AfterEval(r)]
    BY <1>12 DEF EvalDone
  <2> QED BY <2>1, <2>2 DEF RunState
<1>13. CASE EvalFails(r)
  <2>1. CASE run[r].initial /\ Fail(r)
    BY <2>1 DEF Fail, Go, RunState, Phases
  <2>2. CASE run' = [run EXCEPT ![r].pc = "record", ![r].stopping = TRUE,
                                ![r].evalFailed = TRUE, ![r].validated = 0]
    BY <2>2 DEF RunState, Phases
  <2> QED BY <1>13, <2>1, <2>2 DEF EvalFails
<1>14. CASE PollStop(r)
  BY <1>14 DEF PollStop, Calm, MoreSteps, TakeStop, RunState, Phases
<1>15. CASE LoopEnds(r)
  BY <1>15 DEF LoopEnds, Go, Calm, MoreSteps, RunState, Phases
<1>16. CASE BeginUpdate(r)
  <2> DEFINE i == BatchStart(run[r].step, opt[r].accumulate, Count[opt[r].inputs])
  <2>1. i = (run[r].step * opt[r].accumulate) % Count[opt[r].inputs] /\ run[r].step \in Nat
    <3>1. /\ run[r].step \in Nat /\ opt[r].accumulate \in Nat /\ Count[opt[r].inputs] \in Nat \ {0}
      BY Parts, RunParts
    <3> QED BY <3>1, BatchStartIs
  <2>2. run[r].step * opt[r].accumulate \in Nat
    BY <2>1, Parts
  <2>3. i \in Nat
    BY <2>1, <2>2, Parts, DivMod
  <2>4. run' = [run EXCEPT ![r].pc = "micro", ![r].micro = 0, ![r].grad = <<>>, ![r].index = i]
    BY <1>16 DEF BeginUpdate
  <2>5. <<>> \in Seq(Inputs \X Nat)
    BY EmptySeq
  <2> HIDE DEF i
  <2> QED BY <2>3, <2>4, <2>5 DEF RunState, Phases
<1>17. CASE Microbatch(r)
  <2> DEFINE s == run[r]
           i == IF s.index + 1 = Count[opt[r].inputs] THEN 0 ELSE s.index + 1
           g == Append(s.grad, <<opt[r].inputs, s.index>>)
  <2>1. i \in Nat /\ g \in Seq(Inputs \X Nat) /\ s.micro + 1 \in Nat
    BY Parts, RunParts, AppendProperties
  <2>2. run' = [run EXCEPT ![r].grad = g, ![r].micro = s.micro + 1, ![r].index = i]
    BY <1>17 DEF Microbatch
  <2> HIDE DEF i, g
  <2> QED BY <2>1, <2>2 DEF RunState
<1>18. CASE MicrobatchFails(r)
  <2>1. <<>> \in Seq(Inputs \X Nat)
    BY EmptySeq
  <2>2. run' = [run EXCEPT ![r].pc = "cleanup", ![r].grad = <<>>]
    BY <1>18 DEF MicrobatchFails
  <2> QED BY <2>1, <2>2 DEF RunState, Phases
<1>19. CASE AdamwStep(r)
  <2> DEFINE s == run[r]
           u == [rate |-> s.rate, reference |-> s.reference, batch |-> s.grad]
           m == Append(s.model, u)
           pc == IF EvalDue(r, s.step + 1) THEN "evaluate" ELSE "record"
  <2>1. u \in Updates
    BY RunParts DEF Updates
  <2>2. m \in Seq(Updates) /\ s.step + 1 \in Nat
    BY <2>1, RunParts, AppendProperties
  <2>3. run' = [run EXCEPT ![r].pc = pc, ![r].model = m, ![r].step = s.step + 1,
                           ![r].initial = FALSE, ![r].validated = 0]
    BY <1>19 DEF AdamwStep
  <2>4. pc \in Phases
    BY DEF Phases
  <2> HIDE DEF m, pc
  <2> QED BY <2>2, <2>3, <2>4 DEF RunState
<1>20. CASE AdamwFails(r)
  BY <1>20 DEF AdamwFails, Go, Calm, Fail, RunState, Phases
<1>21. CASE RecordStep(r)
  <2>1. run[r].done + 1 \in Nat
    BY RunParts
  <2>2. run' = [run EXCEPT ![r].pc = "loop", ![r].done = run[r].done + 1]
    BY <1>21 DEF RecordStep
  <2> QED BY <2>1, <2>2 DEF RunState, Phases
<1>22. CASE RowFails(r)
  BY <1>22 DEF RowFails, Go, Calm, Fail, RunState, Phases
<1>23. CASE PrintFails(r)
  BY <1>23 DEF PrintFails, Go, Calm, Fail, WriteRow, RunState, Phases
<1>24. CASE SkipCheckpoint(r)
  BY <1>24 DEF SkipCheckpoint, Go, Calm, RunState, Phases
<1>25. CASE CreateCheckpoint(r)
  BY <1>25 DEF CreateCheckpoint, Go, Calm, CreateExclusive, RunState, Phases
<1>26. CASE CheckpointRefused(r)
  BY <1>26 DEF CheckpointRefused, Go, Calm, Fail, RunState, Phases
<1>27. CASE WriteCheckpoint(r)
  BY <1>27 DEF WriteCheckpoint, Go, Calm, RunState, Phases
<1>28. CASE CheckpointFails(r)
  BY <1>28 DEF CheckpointFails, Go, Calm, Fail, RunState, Phases
<1>29. CASE CreateOutput(r)
  BY <1>29 DEF CreateOutput, Go, Calm, CreateExclusive, RunState, Phases
<1>30. CASE OutputRefused(r)
  BY <1>30 DEF OutputRefused, Go, Calm, Fail, RunState, Phases
<1>31. CASE WriteOutput(r)
  BY <1>31 DEF WriteOutput, Calm, RunState, Phases
<1>32. CASE OutputFails(r)
  BY <1>32 DEF OutputFails, Go, Calm, Fail, RunState, Phases
<1>33. CASE Exit(r)
  BY <1>33 DEF Exit, Go, Calm, RunState, Phases
<1>34. CASE ExitCloseFails(r)
  BY <1>34 DEF ExitCloseFails, Calm, RunState, Phases

<1> QED BY <1>2, <1>3, <1>4, <1>5, <1>6, <1>7, <1>8, <1>9, <1>10, <1>11, <1>12, <1>13, <1>14, <1>15, <1>16, <1>17, <1>18, <1>19, <1>20, <1>21, <1>22, <1>23, <1>24, <1>25, <1>26, <1>27, <1>28, <1>29, <1>30, <1>31, <1>32, <1>33, <1>34 DEF StepOf, Advance

-----------------------------------------------------------------------------
(* What a step writes.                                                     *)

\* The row that a step adds to the metrics.
Row(r) == [step |-> run[r].step, validated |-> run[r].validated]

\* Either a path keeps what it names, or the run creates, completes or removes
\* a file of its own, or adds a row.
Writes(r, p) ==
  \/ files'[p] = files[p]
  \/ /\ files[p] = NoFile /\ files'[p] = Metrics(r, <<>>)
     /\ At(r, "open") /\ p = opt[r].metrics /\ run'[r] = [run[r] EXCEPT !.pc = AfterOpen(r)]
  \/ /\ files[p] = NoFile /\ files'[p] = Partial(r)
     /\ \/ At(r, "save") /\ run'[r].pc = "checkpoint" /\ p = opt[r].checkpoint
        \/ At(r, "export") /\ run'[r].pc = "exporting" /\ p = opt[r].output
  \/ /\ files[p] = Partial(r) /\ files'[p] \in {NoFile, Checkpoint(r), Gguf(r)}
  \/ /\ files[p] = Partial(r) /\ files'[p] = Leftover(r) /\ r \in fault'
     /\ run[r].pc \in {"checkpoint", "exporting"}
     /\ run'[r] = [run[r] EXCEPT !.pc = "cleanup"]
  \/ /\ At(r, "record") /\ p = opt[r].metrics
     /\ files[p].kind = "metrics" /\ files[p].by = r
     /\ files'[p] = Metrics(r, Append(files[p].rows, Row(r)))
     /\ \/ run'[r] = [run[r] EXCEPT !.pc = "loop", !.done = @ + 1]
        \/ run'[r] = [run[r] EXCEPT !.pc = "cleanup"]

\* One path is written.
LEMMA OneWrite ==
  ASSUME TypeOK, NEW p \in Paths, NEW f \in Files, files' = [files EXCEPT ![p] = f]
  PROVE  /\ files' \in [Paths -> Files] /\ files'[p] = f
         /\ \A q \in Paths \ {p} : files'[q] = files[q]
  BY DEF TypeOK

LEMMA NoWrite ==
  ASSUME TypeOK, files' = files
  PROVE  files' \in [Paths -> Files] /\ \A p \in Paths : files'[p] = files[p]
  BY DEF TypeOK

\* A row goes to the metrics of the run.
LEMMA WriteRowIs ==
  ASSUME TypeOK, NEW r \in Runs, OwnFiles(r), At(r, "record"), WriteRow(r)
  PROVE  \/ files' = files
         \/ LET m == opt[r].metrics
                f == Metrics(r, Append(files[m].rows, Row(r)))
            IN  /\ m \in Paths /\ files[m].kind = "metrics" /\ files[m].by = r
                /\ f \in Files /\ files' = [files EXCEPT ![m] = f]
<1> DEFINE m == opt[r].metrics
           rows == Append(files[m].rows, Row(r))
<1>1. CASE m = NoPath
  BY <1>1 DEF WriteRow
<1>2. CASE m # NoPath
  <2>1. m \in Paths /\ files[m] \in Files
    BY <1>2, Parts DEF TypeOK
  <2>2. files[m].kind = "metrics" /\ files[m].by = r
    BY <1>2 DEF OwnFiles, At
  <2>3. files[m].rows \in Seq(Rows) /\ files[m] = Metrics(r, files[m].rows)
    BY <2>1, <2>2, FileParts
  <2>4. Row(r) \in Rows
    BY Parts, RunParts DEF Row, Rows
  <2>5. rows \in Seq(Rows)
    BY <2>3, <2>4, AppendProperties
  <2>6. files' = [files EXCEPT ![m].rows = rows]
    BY <1>2 DEF WriteRow, Row
  <2>7. [files[m] EXCEPT !.rows = rows] = Metrics(r, rows)
    <3> HIDE DEF rows
    <3> DEFINE old == files[m].rows
    <3>1. files[m] = Metrics(r, old)
      BY <2>3
    <3> HIDE DEF old
    <3> QED BY <3>1 DEF Metrics
  <2>8. files' = [files EXCEPT ![m] = [files[m] EXCEPT !.rows = rows]]
    <3> HIDE DEF rows
    <3> QED BY <2>1, <2>6
  <2>9. files' = [files EXCEPT ![m] = Metrics(r, rows)]
    BY <2>7, <2>8
  <2> QED BY <2>1, <2>2, <2>5, <2>9, WrittenFiles
<1> QED BY <1>1, <1>2

\* Every step keeps to its own files.
LEMMA WritesStep ==
  ASSUME TypeOK, NEW r \in Runs, OwnFiles(r), StepOf(r)
  PROVE  files' \in [Paths -> Files] /\ \A p \in Paths : Writes(r, p)
<1>1. /\ NoFile \in Files /\ Partial(r) \in Files /\ Checkpoint(r) \in Files /\ Gguf(r) \in Files
      /\ Leftover(r) \in Files /\ Metrics(r, <<>>) \in Files
  BY WrittenFiles, EmptySeq
<1>2. run[r] \in RunState /\ r \in DOMAIN run
  BY Parts
<1>3. /\ opt[r].checkpoint \in Paths \cup {NoPath} /\ opt[r].metrics \in Paths \cup {NoPath}
      /\ opt[r].output \in Paths
  BY Parts
<1>4. SUFFICES ASSUME files' # files PROVE files' \in [Paths -> Files] /\ \A p \in Paths : Writes(r, p)
  BY NoWrite DEF Writes
<1>5. CASE Launch(r)
  BY <1>4, <1>5 DEF Launch, Calm
<1>6. CASE RequestStop(r)
  BY <1>4, <1>6 DEF RequestStop, Calm
<1>7. CASE Kill(r)
  BY <1>4, <1>7 DEF Kill, Go, Calm, Alive
<1>8. CASE LoadFails(r)
  BY <1>4, <1>8 DEF LoadFails, Go, Calm, Fail
<1>9. CASE Scratch(r)
  BY <1>4, <1>9 DEF Scratch, Go, Calm
<1>10. CASE Resume(r)
  BY <1>4, <1>10 DEF Resume, Calm
<1>11. CASE OpenMetrics(r)
  <2> DEFINE p == opt[r].metrics
  <2>1. p \in Paths /\ files' = [files EXCEPT ![p] = Metrics(r, <<>>)]
    BY <1>3, <1>4, <1>11 DEF OpenMetrics, CreateExclusive, Go, At
  <2>2. files[p] = NoFile /\ At(r, "open") /\ run'[r] = [run[r] EXCEPT !.pc = AfterOpen(r)]
    BY <1>2, <1>4, <1>11, TrainAssumption DEF OpenMetrics, CreateExclusive, Go, At
  <2>3. /\ files' \in [Paths -> Files] /\ files'[p] = Metrics(r, <<>>)
        /\ \A q \in Paths \ {p} : files'[q] = files[q]
    BY <1>1, <2>1, OneWrite
  <2> QED BY <2>2, <2>3 DEF Writes
<1>12. CASE OpenFails(r)
  BY <1>4, <1>12 DEF OpenFails, Go, Calm, Fail
<1>13. CASE EvalStop(r)
  BY <1>4, <1>13 DEF EvalStop, Calm, AfterEval, TakeStop
<1>14. CASE EvalRecord(r)
  BY <1>4, <1>14 DEF EvalRecord, Calm
<1>15. CASE EvalDone(r)
  BY <1>4, <1>15 DEF EvalDone, Calm, AfterEval
<1>16. CASE EvalFails(r)
  BY <1>4, <1>16 DEF EvalFails, Calm, Fail, Go
<1>17. CASE PollStop(r)
  BY <1>4, <1>17 DEF PollStop, Calm, MoreSteps, TakeStop
<1>18. CASE LoopEnds(r)
  BY <1>4, <1>18 DEF LoopEnds, Go, Calm, MoreSteps
<1>19. CASE BeginUpdate(r)
  BY <1>4, <1>19 DEF BeginUpdate, Calm, MoreSteps
<1>20. CASE Microbatch(r)
  BY <1>4, <1>20 DEF Microbatch, Calm
<1>21. CASE MicrobatchFails(r)
  BY <1>4, <1>21 DEF MicrobatchFails, Calm
<1>22. CASE AdamwStep(r)
  BY <1>4, <1>22 DEF AdamwStep, Calm
<1>23. CASE AdamwFails(r)
  BY <1>4, <1>23 DEF AdamwFails, Go, Calm, Fail
<1>24. CASE RecordStep(r)
  <2>1. At(r, "record") /\ WriteRow(r)
    BY <1>24 DEF RecordStep
  <2> DEFINE p == opt[r].metrics
           f == Metrics(r, Append(files[p].rows, Row(r)))
  <2>2. /\ p \in Paths /\ files[p].kind = "metrics" /\ files[p].by = r
        /\ f \in Files /\ files' = [files EXCEPT ![p] = f]
    BY <1>4, <2>1, WriteRowIs
  <2>3. run'[r] = [run[r] EXCEPT !.pc = "loop", !.done = run[r].done + 1]
    BY <1>2, <1>24 DEF RecordStep
  <2>4. /\ files' \in [Paths -> Files] /\ files'[p] = f
        /\ \A q \in Paths \ {p} : files'[q] = files[q]
    BY <2>2, OneWrite
  <2> QED BY <2>1, <2>2, <2>3, <2>4 DEF Writes
<1>25. CASE RowFails(r)
  BY <1>4, <1>25 DEF RowFails, Go, Calm, Fail
<1>26. CASE PrintFails(r)
  <2>1. At(r, "record") /\ WriteRow(r)
    BY <1>26 DEF PrintFails
  <2> DEFINE p == opt[r].metrics
           f == Metrics(r, Append(files[p].rows, Row(r)))
  <2>2. /\ p \in Paths /\ files[p].kind = "metrics" /\ files[p].by = r
        /\ f \in Files /\ files' = [files EXCEPT ![p] = f]
    BY <1>4, <2>1, WriteRowIs
  <2>3. run'[r] = [run[r] EXCEPT !.pc = "cleanup"]
    BY <1>2, <1>26 DEF PrintFails, Fail, Go
  <2>4. /\ files' \in [Paths -> Files] /\ files'[p] = f
        /\ \A q \in Paths \ {p} : files'[q] = files[q]
    BY <2>2, OneWrite
  <2> QED BY <2>1, <2>2, <2>3, <2>4 DEF Writes
<1>27. CASE SkipCheckpoint(r)
  BY <1>4, <1>27 DEF SkipCheckpoint, Go, Calm
<1>28. CASE CreateCheckpoint(r)
  <2> DEFINE p == opt[r].checkpoint
  <2>1. p \in Paths /\ files' = [files EXCEPT ![p] = Partial(r)]
    BY <1>3, <1>4, <1>28 DEF CreateCheckpoint, CreateExclusive, Go, At, RunState
  <2>2. files[p] = NoFile /\ At(r, "save") /\ run'[r].pc = "checkpoint"
    BY <1>2, <1>4, <1>28, TrainAssumption DEF CreateCheckpoint, CreateExclusive, Go, At, RunState
  <2>3. /\ files' \in [Paths -> Files] /\ files'[p] = Partial(r)
        /\ \A q \in Paths \ {p} : files'[q] = files[q]
    BY <1>1, <2>1, OneWrite
  <2> QED BY <2>2, <2>3 DEF Writes
<1>29. CASE CheckpointRefused(r)
  BY <1>4, <1>29 DEF CheckpointRefused, Go, Calm, Fail
<1>30. CASE WriteCheckpoint(r)
  <2> DEFINE p == opt[r].checkpoint
  <2>1. p \in Paths /\ files' = [files EXCEPT ![p] = Checkpoint(r)]
    BY <1>3, <1>4, <1>30 DEF WriteCheckpoint, OwnFiles, At
  <2>2. files[p] = Partial(r)
    BY <1>2, <1>4, <1>30, TrainAssumption DEF WriteCheckpoint, OwnFiles, At
  <2>3. /\ files' \in [Paths -> Files] /\ files'[p] = Checkpoint(r)
        /\ \A q \in Paths \ {p} : files'[q] = files[q]
    BY <1>1, <2>1, OneWrite
  <2> QED BY <2>2, <2>3 DEF Writes
<1>31. CASE CheckpointFails(r)
  <2> DEFINE p == opt[r].checkpoint
  <2>1. PICK f \in {NoFile, Leftover(r)} : files' = [files EXCEPT ![p] = f]
    BY <1>31 DEF CheckpointFails, Discard
  <2>2. p \in Paths /\ files[p] = Partial(r)
    BY <1>2, <1>3, <1>4, <1>31, TrainAssumption DEF CheckpointFails, OwnFiles, At
  <2>3. /\ files' \in [Paths -> Files] /\ files'[p] = f
        /\ \A q \in Paths \ {p} : files'[q] = files[q]
    BY <1>1, <2>1, <2>2, OneWrite
  <2>4. /\ run[r].pc = "checkpoint" /\ r \in fault'
        /\ run'[r] = [run[r] EXCEPT !.pc = "cleanup"]
    BY <1>2, <1>31 DEF CheckpointFails, Fail, Go, At, RunState
  <2> QED BY <2>2, <2>3, <2>4 DEF Writes
<1>32. CASE CreateOutput(r)
  <2> DEFINE p == opt[r].output
  <2>1. p \in Paths /\ files' = [files EXCEPT ![p] = Partial(r)]
    BY <1>3, <1>4, <1>32 DEF CreateOutput, CreateExclusive, Go, At, RunState
  <2>2. files[p] = NoFile /\ At(r, "export") /\ run'[r].pc = "exporting"
    BY <1>2, <1>4, <1>32, TrainAssumption DEF CreateOutput, CreateExclusive, Go, At, RunState
  <2>3. /\ files' \in [Paths -> Files] /\ files'[p] = Partial(r)
        /\ \A q \in Paths \ {p} : files'[q] = files[q]
    BY <1>1, <2>1, OneWrite
  <2> QED BY <2>2, <2>3 DEF Writes
<1>33. CASE OutputRefused(r)
  BY <1>4, <1>33 DEF OutputRefused, Go, Calm, Fail
<1>34. CASE WriteOutput(r)
  <2> DEFINE p == opt[r].output
  <2>1. p \in Paths /\ files' = [files EXCEPT ![p] = Gguf(r)]
    BY <1>3, <1>4, <1>34 DEF WriteOutput, OwnFiles, At
  <2>2. files[p] = Partial(r)
    BY <1>2, <1>4, <1>34, TrainAssumption DEF WriteOutput, OwnFiles, At
  <2>3. /\ files' \in [Paths -> Files] /\ files'[p] = Gguf(r)
        /\ \A q \in Paths \ {p} : files'[q] = files[q]
    BY <1>1, <2>1, OneWrite
  <2> QED BY <2>2, <2>3 DEF Writes
<1>35. CASE OutputFails(r)
  <2> DEFINE p == opt[r].output
  <2>1. PICK f \in {NoFile, Leftover(r)} : files' = [files EXCEPT ![p] = f]
    BY <1>35 DEF OutputFails, Discard
  <2>2. p \in Paths /\ files[p] = Partial(r)
    BY <1>2, <1>3, <1>4, <1>35, TrainAssumption DEF OutputFails, OwnFiles, At
  <2>3. /\ files' \in [Paths -> Files] /\ files'[p] = f
        /\ \A q \in Paths \ {p} : files'[q] = files[q]
    BY <1>1, <2>1, <2>2, OneWrite
  <2>4. /\ run[r].pc = "exporting" /\ r \in fault'
        /\ run'[r] = [run[r] EXCEPT !.pc = "cleanup"]
    BY <1>2, <1>35 DEF OutputFails, Fail, Go, At, RunState
  <2> QED BY <2>2, <2>3, <2>4 DEF Writes
<1>36. CASE Exit(r)
  BY <1>4, <1>36 DEF Exit, Go, Calm
<1>37. CASE ExitCloseFails(r)
  BY <1>4, <1>37 DEF ExitCloseFails, Calm

<1> QED BY <1>5, <1>6, <1>7, <1>8, <1>9, <1>10, <1>11, <1>12, <1>13, <1>14, <1>15, <1>16, <1>17, <1>18, <1>19, <1>20, <1>21, <1>22, <1>23, <1>24, <1>25, <1>26, <1>27, <1>28, <1>29, <1>30, <1>31, <1>32, <1>33, <1>34, <1>35, <1>36, <1>37 DEF StepOf, Advance

-----------------------------------------------------------------------------
(* What a step does to its own run.                                        *)

\* Where the run is agrees with what it has done.
LEMMA ControlStep ==
  ASSUME TypeOK, NEW r \in Runs, Control(run[r], opt[r]), StepOf(r)
  PROVE  Control(run'[r], opt[r])
<1>1. /\ run \in [Runs -> RunState] /\ run[r] \in RunState
      /\ opt[r].steps \in Nat \ {0} /\ opt[r].validation \in Nat /\ opt[r].evalEvery \in Nat \ {0}
  BY Parts
<1>2. run[r].done \in Nat /\ run[r].step \in Nat /\ run[r].validated \in Nat
  BY <1>1, RunParts
<1> USE DEF Control, RunState, At
<1>3. CASE Launch(r)
  BY <1>1, <1>2, <1>3 DEF Launch, Calm
<1>4. CASE RequestStop(r)
  BY <1>1, <1>2, <1>4 DEF RequestStop, Calm
<1>5. CASE Kill(r)
  BY <1>1, <1>2, <1>5 DEF Kill, Go, Calm, Alive
<1>6. CASE LoadFails(r)
  BY <1>1, <1>2, <1>6 DEF LoadFails, Go, Calm, Fail
<1>7. CASE Scratch(r)
  BY <1>1, <1>2, <1>7 DEF Scratch, Go, Calm
<1>8. CASE Resume(r)
  BY <1>1, <1>2, <1>8 DEF Resume, Calm
<1>9. CASE OpenMetrics(r)
  BY <1>1, <1>2, <1>9 DEF OpenMetrics, Go, Calm, AfterOpen, CreateExclusive
<1>10. CASE OpenFails(r)
  BY <1>1, <1>2, <1>10 DEF OpenFails, Go, Calm, Fail
<1>11. CASE EvalStop(r)
  BY <1>1, <1>2, <1>11 DEF EvalStop, Calm, AfterEval, TakeStop
<1>12. CASE EvalRecord(r)
  BY <1>1, <1>2, <1>12, SMTT(30) DEF EvalRecord, Calm
<1>13. CASE EvalDone(r)
  BY <1>1, <1>2, <1>13 DEF EvalDone, AfterEval, Missing
<1>14. CASE EvalFails(r)
  <2>1. CASE run[r].initial /\ Fail(r)
    BY <1>1, <1>2, <1>14, <2>1 DEF EvalFails, Fail, Go
  <2>2. CASE ~run[r].initial /\ run' = [run EXCEPT ![r].pc = "record", ![r].stopping = TRUE,
                                ![r].evalFailed = TRUE, ![r].validated = 0]
    BY <1>1, <1>2, <1>14, <2>2 DEF EvalFails
  <2> QED BY <1>14, <2>1, <2>2 DEF EvalFails
<1>15. CASE PollStop(r)
  BY <1>1, <1>2, <1>15 DEF PollStop, Calm, MoreSteps, TakeStop
<1>16. CASE LoopEnds(r)
  BY <1>1, <1>2, <1>16 DEF LoopEnds, Go, Calm, MoreSteps
<1>17. CASE BeginUpdate(r)
  BY <1>1, <1>2, <1>17 DEF BeginUpdate, Calm, MoreSteps
<1>18. CASE Microbatch(r)
  BY <1>1, <1>2, <1>18 DEF Microbatch, Calm
<1>19. CASE MicrobatchFails(r)
  BY <1>1, <1>2, <1>19 DEF MicrobatchFails, Calm
<1>20. CASE AdamwStep(r)
  <2> DEFINE s == run'[r]
  <2>1. /\ s.step = run[r].step + 1 /\ s.done = run[r].done /\ s.stopping = run[r].stopping
        /\ s.result = run[r].result /\ s.initial = FALSE /\ s.validated = 0
        /\ s.pc = IF EvalDue(r, run[r].step + 1) THEN "evaluate" ELSE "record"
    BY <1>1, <1>20 DEF AdamwStep
  <2>2. ~run[r].stopping /\ run[r].done < opt[r].steps /\ run[r].result # 0
    BY <1>20 DEF AdamwStep
  <2>3. EvalDue(r, run[r].step + 1) => opt[r].validation > 0
    BY DEF EvalDue
  <2>4. ~EvalDue(r, run[r].step + 1) => ~Missing(s.step, s.validated, opt[r])
    BY <2>1 DEF EvalDue, Missing
  <2>5. Control(s, opt[r])
    <3> HIDE DEF s
    <3>1. CASE EvalDue(r, run[r].step + 1)
      BY <1>1, <1>2, <2>1, <2>2, <2>3, <3>1
    <3>2. CASE ~EvalDue(r, run[r].step + 1)
      BY <1>1, <1>2, <2>1, <2>2, <2>4, <3>2
    <3> QED BY <3>1, <3>2
  <2> QED BY <2>5 DEF s
<1>21. CASE AdamwFails(r)
  BY <1>1, <1>2, <1>21 DEF AdamwFails, Go, Calm, Fail
<1>22. CASE RecordStep(r)
  BY <1>1, <1>2, <1>22 DEF RecordStep, Calm, WriteRow
<1>23. CASE RowFails(r)
  BY <1>1, <1>2, <1>23 DEF RowFails, Go, Calm, Fail
<1>24. CASE PrintFails(r)
  BY <1>1, <1>2, <1>24 DEF PrintFails, Go, Calm, Fail, WriteRow
<1>25. CASE SkipCheckpoint(r)
  BY <1>1, <1>2, <1>25 DEF SkipCheckpoint, Go, Calm
<1>26. CASE CreateCheckpoint(r)
  BY <1>1, <1>2, <1>26 DEF CreateCheckpoint, Go, Calm, CreateExclusive
<1>27. CASE CheckpointRefused(r)
  BY <1>1, <1>2, <1>27 DEF CheckpointRefused, Go, Calm, Fail
<1>28. CASE WriteCheckpoint(r)
  BY <1>1, <1>2, <1>28 DEF WriteCheckpoint, Go, Calm
<1>29. CASE CheckpointFails(r)
  BY <1>1, <1>2, <1>29 DEF CheckpointFails, Go, Calm, Fail
<1>30. CASE CreateOutput(r)
  BY <1>1, <1>2, <1>30 DEF CreateOutput, Go, Calm, CreateExclusive
<1>31. CASE OutputRefused(r)
  BY <1>1, <1>2, <1>31 DEF OutputRefused, Go, Calm, Fail
<1>32. CASE WriteOutput(r)
  BY <1>1, <1>2, <1>32 DEF WriteOutput, Calm
<1>33. CASE OutputFails(r)
  BY <1>1, <1>2, <1>33 DEF OutputFails, Go, Calm, Fail
<1>34. CASE Exit(r)
  BY <1>1, <1>2, <1>34 DEF Exit, Go, Calm
<1>35. CASE ExitCloseFails(r)
  BY <1>1, <1>2, <1>35 DEF ExitCloseFails, Calm

<1> QED BY <1>3, <1>4, <1>5, <1>6, <1>7, <1>8, <1>9, <1>10, <1>11, <1>12, <1>13, <1>14, <1>15, <1>16, <1>17, <1>18, <1>19, <1>20, <1>21, <1>22, <1>23, <1>24, <1>25, <1>26, <1>27, <1>28, <1>29, <1>30, <1>31, <1>32, <1>33, <1>34, <1>35 DEF StepOf, Advance

\* Every failure and every request to stop is accounted for.
LEMMA EndedStep ==
  ASSUME TypeOK, NEW r \in Runs, Control(run[r], opt[r]), Ended(r), StepOf(r)
  PROVE  Ended(r)'
<1>1. /\ run \in [Runs -> RunState] /\ run[r] \in RunState /\ late[r] \in Nat
      /\ late \in [Runs -> Nat] /\ pipe \in [Runs -> SUBSET {"S", "eof"}]
  BY Parts DEF TypeOK
<1> USE DEF Ended, Control, RunState, At, StopPending
<1>2. CASE Launch(r)
  BY <1>1, <1>2 DEF Launch, Calm
<1>3. CASE RequestStop(r)
  BY <1>1, <1>3 DEF RequestStop, Calm
<1>4. CASE Kill(r)
  BY <1>1, <1>4 DEF Kill, Go, Calm, Alive
<1>5. CASE LoadFails(r)
  BY <1>1, <1>5 DEF LoadFails, Go, Calm, Fail
<1>6. CASE Scratch(r)
  BY <1>1, <1>6 DEF Scratch, Go, Calm
<1>7. CASE Resume(r)
  BY <1>1, <1>7 DEF Resume, Calm
<1>8. CASE OpenMetrics(r)
  BY <1>1, <1>8 DEF OpenMetrics, Go, Calm, AfterOpen, CreateExclusive
<1>9. CASE OpenFails(r)
  BY <1>1, <1>9 DEF OpenFails, Go, Calm, Fail
<1>10. CASE EvalStop(r)
  BY <1>1, <1>10 DEF EvalStop, Calm, AfterEval, TakeStop
<1>11. CASE EvalRecord(r)
  BY <1>1, <1>11 DEF EvalRecord, Calm
<1>12. CASE EvalDone(r)
  BY <1>1, <1>12 DEF EvalDone, Calm, AfterEval
<1>13. CASE EvalFails(r)
  BY <1>1, <1>13 DEF EvalFails, Calm, Fail, Go
<1>14. CASE PollStop(r)
  BY <1>1, <1>14 DEF PollStop, Calm, MoreSteps, TakeStop
<1>15. CASE LoopEnds(r)
  BY <1>1, <1>15 DEF LoopEnds, Go, Calm, MoreSteps
<1>16. CASE BeginUpdate(r)
  BY <1>1, <1>16 DEF BeginUpdate, Calm, MoreSteps
<1>17. CASE Microbatch(r)
  BY <1>1, <1>17 DEF Microbatch, Calm
<1>18. CASE MicrobatchFails(r)
  BY <1>1, <1>18 DEF MicrobatchFails, Calm
<1>19. CASE AdamwStep(r)
  BY <1>1, <1>19 DEF AdamwStep, Calm
<1>20. CASE AdamwFails(r)
  BY <1>1, <1>20 DEF AdamwFails, Go, Calm, Fail
<1>21. CASE RecordStep(r)
  BY <1>1, <1>21 DEF RecordStep, Calm, WriteRow
<1>22. CASE RowFails(r)
  BY <1>1, <1>22 DEF RowFails, Go, Calm, Fail
<1>23. CASE PrintFails(r)
  BY <1>1, <1>23 DEF PrintFails, Go, Calm, Fail, WriteRow
<1>24. CASE SkipCheckpoint(r)
  BY <1>1, <1>24 DEF SkipCheckpoint, Go, Calm
<1>25. CASE CreateCheckpoint(r)
  BY <1>1, <1>25 DEF CreateCheckpoint, Go, Calm, CreateExclusive
<1>26. CASE CheckpointRefused(r)
  BY <1>1, <1>26 DEF CheckpointRefused, Go, Calm, Fail
<1>27. CASE WriteCheckpoint(r)
  BY <1>1, <1>27 DEF WriteCheckpoint, Go, Calm
<1>28. CASE CheckpointFails(r)
  BY <1>1, <1>28 DEF CheckpointFails, Go, Calm, Fail
<1>29. CASE CreateOutput(r)
  BY <1>1, <1>29 DEF CreateOutput, Go, Calm, CreateExclusive
<1>30. CASE OutputRefused(r)
  BY <1>1, <1>30 DEF OutputRefused, Go, Calm, Fail
<1>31. CASE WriteOutput(r)
  BY <1>1, <1>31 DEF WriteOutput, Calm
<1>32. CASE OutputFails(r)
  BY <1>1, <1>32 DEF OutputFails, Go, Calm, Fail
<1>33. CASE Exit(r)
  BY <1>1, <1>33 DEF Exit, Go, Calm
<1>34. CASE ExitCloseFails(r)
  BY <1>1, <1>34 DEF ExitCloseFails, Calm

<1> QED BY <1>2, <1>3, <1>4, <1>5, <1>6, <1>7, <1>8, <1>9, <1>10, <1>11, <1>12, <1>13, <1>14, <1>15, <1>16, <1>17, <1>18, <1>19, <1>20, <1>21, <1>22, <1>23, <1>24, <1>25, <1>26, <1>27, <1>28, <1>29, <1>30, <1>31, <1>32, <1>33, <1>34 DEF StepOf, Advance

-----------------------------------------------------------------------------
(* The parameters.                                                         *)

\* The records of a group come one after the other and wrap at the end.
LEMMA GroupNext ==
  ASSUME NEW inputs \in Inputs, NEW size \in Nat, NEW n \in Nat, NEW m \in Nat
  PROVE  /\ Group(inputs, size, n, 0) = <<>>
         /\ Group(inputs, size, n, m) \in Seq(Inputs \X Nat)
         /\ Group(inputs, size, n, m + 1) =
              Append(Group(inputs, size, n, m), <<inputs, ((n * size) + m) % Count[inputs]>>)
<1> DEFINE c == Count[inputs]
           x == n * size
<1>1. c \in Nat \ {0} /\ x \in Nat
  BY TrainAssumption
<1> HIDE DEF c, x
<1>2. \A k \in Nat : (x + k) % c \in Nat
  BY <1>1, DivMod
<1>3. \A k \in Nat : Group(inputs, size, n, k) = [j \in 1 .. k |-> <<inputs, (x + j - 1) % c>>]
  BY DEF Group, c, x
<1>4. \A j \in Nat \ {0} : x + j - 1 = x + (j - 1) /\ j - 1 \in Nat
  BY <1>1
<1>5. \A j \in Nat \ {0} : <<inputs, (x + j - 1) % c>> \in Inputs \X Nat
  BY <1>2, <1>4
<1>6. \A k \in Nat : Group(inputs, size, n, k) \in Seq(Inputs \X Nat)
                     /\ Len(Group(inputs, size, n, k)) = k
  BY <1>3, <1>5
<1>7. Group(inputs, size, n, 0) = <<>>
  BY <1>6, EmptySeq
<1>8. Group(inputs, size, n, m + 1) =
        Append(Group(inputs, size, n, m), <<inputs, (x + m) % c>>)
  <2> DEFINE s == Group(inputs, size, n, m)
             e == <<inputs, (x + m) % c>>
             t == Group(inputs, size, n, m + 1)
  <2>1. s \in Seq(Inputs \X Nat) /\ Len(s) = m /\ e \in Inputs \X Nat
    BY <1>2, <1>6
  <2>2. Append(s, e) \in Seq(Inputs \X Nat) /\ Len(Append(s, e)) = m + 1
        /\ (\A j \in 1 .. m : Append(s, e)[j] = s[j]) /\ Append(s, e)[m + 1] = e
    <3> HIDE DEF s, e
    <3> QED BY <2>1, AppendProperties
  <2>3. t \in Seq(Inputs \X Nat) /\ Len(t) = m + 1
    BY <1>6
  <2>4. \A j \in 1 .. m + 1 : t[j] = <<inputs, (x + j - 1) % c>>
    <3>1. m + 1 \in Nat
      OBVIOUS
    <3>2. t = [j \in 1 .. m + 1 |-> <<inputs, (x + j - 1) % c>>]
      BY <1>3, <3>1
    <3> HIDE DEF t
    <3> QED BY <3>2
  <2>5. \A j \in 1 .. m : s[j] = <<inputs, (x + j - 1) % c>>
    BY <1>3
  <2>6. x + (m + 1) - 1 = x + m /\ m + 1 \in 1 .. m + 1
    BY <1>1
  <2>7. t[m + 1] = e
    BY <2>4, <2>6
  <2>8. ASSUME NEW j \in 1 .. m + 1 PROVE t[j] = Append(s, e)[j]
    <3>1. j = m + 1 \/ j \in 1 .. m
      OBVIOUS
    <3> HIDE DEF s, e, t
    <3> QED BY <2>2, <2>7, <2>4, <2>5, <3>1
  <2> HIDE DEF s, e, t
  <2>9. t = Append(s, e)
    BY <2>2, <2>3, <2>8, SeqEqual
  <2> QED BY <2>9 DEF s, e, t
<1> QED BY <1>6, <1>7, <1>8 DEF c, x

\* One more update of an uninterrupted run.
LEMMA UninterruptedNext ==
  ASSUME NEW inputs \in Inputs, NEW size \in Nat, NEW rate \in Rates, NEW n \in Nat
  PROVE  LET model(k) == Uninterrupted(<<inputs, size>>, rate, k)
         IN  /\ model(0) = <<>>
             /\ model(n + 1) = Append(model(n), [rate |-> rate, reference |-> 0,
                                                 batch |-> Group(inputs, size, n, size)])
<1> DEFINE u(k) == [rate |-> rate, reference |-> 0, batch |-> Group(inputs, size, k, size)]
           model(k) == Uninterrupted(<<inputs, size>>, rate, k)
<1>1. ASSUME NEW k \in Nat PROVE model(k) = [i \in 1 .. k |-> u(i - 1)]
  BY DEF Uninterrupted, Group
<1>2. ASSUME NEW k \in Nat PROVE u(k) \in [rate : Rates, reference : Nat, batch : Seq(Inputs \X Nat)]
  BY GroupNext
<1> DEFINE U == [rate : Rates, reference : Nat, batch : Seq(Inputs \X Nat)]
<1> HIDE DEF u, model, U
<1>3. \A k \in Nat : u(k) \in U
  BY <1>2 DEF U
<1>4. ASSUME NEW k \in Nat
      PROVE  /\ model(k) \in Seq(U) /\ Len(model(k)) = k
             /\ \A i \in 1 .. k : model(k)[i] = u(i - 1)
  <2>1. \A i \in 1 .. k : u(i - 1) \in U
    BY <1>3
  <2> QED BY <1>1, <2>1
<1>5. model(0) = <<>>
  BY <1>4, EmptySeq
<1>6. model(n + 1) = Append(model(n), u(n))
  <2>1. /\ model(n) \in Seq(U) /\ Len(model(n)) = n /\ u(n) \in U
        /\ model(n + 1) \in Seq(U) /\ Len(model(n + 1)) = n + 1
    BY <1>3, <1>4
  <2>2. /\ Append(model(n), u(n)) \in Seq(U) /\ Len(Append(model(n), u(n))) = n + 1
        /\ \A i \in 1 .. n : Append(model(n), u(n))[i] = model(n)[i]
        /\ Append(model(n), u(n))[n + 1] = u(n)
    BY <2>1, AppendProperties
  <2>3. ASSUME NEW i \in 1 .. n + 1 PROVE model(n + 1)[i] = Append(model(n), u(n))[i]
    <3>1. model(n + 1)[i] = u(i - 1)
      BY <1>4
    <3>2. CASE i = n + 1
      <4>1. i - 1 = n
        BY <3>2
      <4> QED BY <2>2, <3>1, <3>2, <4>1
    <3>3. CASE i \in 1 .. n
      BY <1>4, <2>2, <3>1, <3>3
    <3>4. i = n + 1 \/ i \in 1 .. n
      OBVIOUS
    <3> QED BY <3>2, <3>3, <3>4
  <2> QED BY <2>1, <2>2, <2>3, SeqEqual
<1> QED BY <1>5, <1>6 DEF u, model

\* The parameters of a run are those of an uninterrupted one after each step.
LEMMA TrainedStep ==
  ASSUME TypeOK, NEW r \in Runs, Trained(run[r], opt[r]), \A p \in Paths : Sound(p), StepOf(r)
  PROVE  Trained(run'[r], opt[r])
<1>1. /\ run \in [Runs -> RunState] /\ run[r] \in RunState
  BY Parts
<1> DEFINE s == run[r]
           o == opt[r]
<1>2. /\ o.inputs \in Inputs /\ o.accumulate \in Nat \ {0} /\ Count[o.inputs] \in Nat \ {0}
      /\ s.step \in Nat /\ s.micro \in Nat /\ s.rate \in Rates /\ s.index \in Nat
  BY <1>1, Parts, RunParts
<1>3. /\ s.reference = 0
      /\ s.pc = "idle" => s.step = 0
      /\ s.model = Uninterrupted(<<o.inputs, o.accumulate>>, s.rate, s.step)
      /\ s.pc = "micro" => /\ s.micro <= o.accumulate
                           /\ s.grad = Group(o.inputs, o.accumulate, s.step, s.micro)
                           /\ s.index = ((s.step * o.accumulate) + s.micro) % Count[o.inputs]
  BY DEF Trained
<1>4. CASE Launch(r)
  BY <1>1, <1>3, <1>4 DEF Launch, Calm, Trained, RunState, At
<1>5. CASE RequestStop(r)
  BY <1>1, <1>3, <1>5 DEF RequestStop, Calm, Trained, RunState, At
<1>6. CASE Kill(r)
  BY <1>1, <1>3, <1>6 DEF Kill, Go, Calm, Alive, Trained, RunState, At
<1>7. CASE LoadFails(r)
  BY <1>1, <1>3, <1>7 DEF LoadFails, Go, Calm, Fail, Trained, RunState, At
<1>8. CASE Scratch(r)
  BY <1>1, <1>3, <1>8 DEF Scratch, Go, Calm, Trained, RunState, At
<1>9. CASE Resume(r)
  <2> DEFINE f == files[o.resume]
  <2>1. o.resume \in Paths /\ f \in Files
    BY <1>9, Parts DEF Resume, TypeOK
  <2>2. f.kind = "checkpoint" /\ f.identity = <<o.inputs, o.accumulate>>
    BY <1>9 DEF Resume, Identity
  <2>3. f.model = Uninterrupted(f.identity, f.rate, f.step)
    BY <2>1, <2>2 DEF Sound
  <2>4. /\ run'[r].pc = "open" /\ run'[r].reference = s.reference
        /\ run'[r].model = f.model /\ run'[r].rate = f.rate /\ run'[r].step = f.step
    BY <1>1, <1>9 DEF Resume, RunState
  <2> HIDE DEF f
  <2> QED BY <1>3, <2>2, <2>3, <2>4 DEF Trained
<1>10. CASE OpenMetrics(r)
  BY <1>1, <1>3, <1>10 DEF OpenMetrics, Go, Calm, AfterOpen, CreateExclusive, Trained, RunState, At
<1>11. CASE OpenFails(r)
  BY <1>1, <1>3, <1>11 DEF OpenFails, Go, Calm, Fail, Trained, RunState, At
<1>12. CASE EvalStop(r)
  BY <1>1, <1>3, <1>12 DEF EvalStop, Calm, AfterEval, TakeStop, Trained, RunState, At
<1>13. CASE EvalRecord(r)
  BY <1>1, <1>3, <1>13 DEF EvalRecord, Calm, Trained, RunState, At
<1>14. CASE EvalDone(r)
  BY <1>1, <1>3, <1>14 DEF EvalDone, Calm, AfterEval, Trained, RunState, At
<1>15. CASE EvalFails(r)
  <2>1. CASE run[r].initial /\ Fail(r)
    BY <1>1, <1>3, <2>1 DEF Fail, Go, Trained, RunState
  <2>2. CASE run' = [run EXCEPT ![r].pc = "record", ![r].stopping = TRUE,
                                ![r].evalFailed = TRUE, ![r].validated = 0]
    BY <1>1, <1>3, <2>2 DEF Trained, RunState
  <2> QED BY <1>15, <2>1, <2>2 DEF EvalFails
<1>16. CASE PollStop(r)
  BY <1>1, <1>3, <1>16 DEF PollStop, Calm, MoreSteps, TakeStop, Trained, RunState, At
<1>17. CASE LoopEnds(r)
  BY <1>1, <1>3, <1>17 DEF LoopEnds, Go, Calm, MoreSteps, Trained, RunState, At
<1>18. CASE BeginUpdate(r)
  <2> DEFINE i == BatchStart(s.step, o.accumulate, Count[o.inputs])
  <2>1. /\ run'[r].pc = "micro" /\ run'[r].reference = s.reference /\ run'[r].model = s.model
        /\ run'[r].rate = s.rate /\ run'[r].step = s.step
        /\ run'[r].micro = 0 /\ run'[r].grad = <<>> /\ run'[r].index = i
    BY <1>1, <1>18 DEF BeginUpdate, RunState
  <2>2. i = (s.step * o.accumulate) % Count[o.inputs]
    BY <1>2, BatchStartIs
  <2>3. (s.step * o.accumulate) + 0 = s.step * o.accumulate /\ 0 <= o.accumulate
    BY <1>2
  <2>4. Group(o.inputs, o.accumulate, s.step, 0) = <<>>
    BY <1>2, GroupNext
  <2> HIDE DEF i, s, o
  <2>5. Trained(run'[r], o)
    BY <1>3, <2>1, <2>2, <2>3, <2>4 DEF Trained
  <2> QED BY <2>5 DEF o
<1>19. CASE Microbatch(r)
  <2> DEFINE x == (s.step * o.accumulate) + s.micro
             i == IF s.index + 1 = Count[o.inputs] THEN 0 ELSE s.index + 1
             g == Append(s.grad, <<o.inputs, s.index>>)
  <2>1. /\ run'[r].pc = s.pc /\ run'[r].reference = s.reference /\ run'[r].model = s.model
        /\ run'[r].rate = s.rate /\ run'[r].step = s.step
        /\ run'[r].micro = s.micro + 1 /\ run'[r].grad = g /\ run'[r].index = i
    BY <1>1, <1>19 DEF Microbatch, RunState
  <2>2. s.pc = "micro" /\ s.micro < o.accumulate
    BY <1>19 DEF Microbatch, At
  <2>3. /\ s.grad = Group(o.inputs, o.accumulate, s.step, s.micro)
        /\ s.index = x % Count[o.inputs]
    BY <1>3, <2>2
  <2>4. Group(o.inputs, o.accumulate, s.step, s.micro + 1) = g
    <3>1. Group(o.inputs, o.accumulate, s.step, s.micro + 1) =
            Append(Group(o.inputs, o.accumulate, s.step, s.micro),
                   <<o.inputs, x % Count[o.inputs]>>)
      <4>1. o.accumulate \in Nat
        BY <1>2
      <4>2. o.inputs \in Inputs /\ s.step \in Nat /\ s.micro \in Nat
        BY <1>2
      <4> HIDE DEF s, o
      <4> DEFINE a == o.inputs
                 b == o.accumulate
                 n == s.step
                 m == s.micro
      <4> HIDE DEF a, b, n, m
      <4>3. a \in Inputs /\ b \in Nat /\ n \in Nat /\ m \in Nat
        BY <4>1, <4>2 DEF a, b, n, m
      <4>4. Group(a, b, n, m + 1) =
              Append(Group(a, b, n, m), <<a, ((n * b) + m) % Count[a]>>)
        BY <4>3, GroupNext
      <4> QED BY <4>4 DEF a, b, n, m, x
    <3> QED BY <2>3, <3>1
  <2>5. i = ((s.step * o.accumulate) + (s.micro + 1)) % Count[o.inputs]
    <3>1. s.step * o.accumulate \in Nat
      BY <1>2
    <3>2. x \in Nat /\ (s.step * o.accumulate) + (s.micro + 1) = x + 1
      BY <1>2, <3>1
    <3> DEFINE n == Count[o.inputs]
    <3> HIDE DEF x, s, o, n
    <3>3. n \in Nat \ {0}
      BY <1>2 DEF n
    <3>4. x % n \in 0 .. n - 1
      BY <3>2, <3>3, DivMod
    <3>5. (x + 1) % n = IF (x % n) + 1 >= n THEN (x % n) + 1 - n ELSE (x % n) + 1
      <4>1. 1 \in 0 .. n
        BY <3>3
      <4> QED BY <3>2, <3>3, <4>1, ModPlus
    <3> QED BY <2>3, <3>2, <3>3, <3>4, <3>5 DEF n
  <2>6. s.micro + 1 <= o.accumulate
    BY <1>2, <2>2
  <2> HIDE DEF i, g, x, s, o
  <2>7. Trained(run'[r], o)
    BY <1>3, <2>1, <2>2, <2>4, <2>5, <2>6 DEF Trained
  <2> QED BY <2>7 DEF o
<1>20. CASE MicrobatchFails(r)
  BY <1>1, <1>3, <1>20 DEF MicrobatchFails, Calm, Trained, RunState, At
<1>21. CASE AdamwStep(r)
  <2> DEFINE u == [rate |-> s.rate, reference |-> s.reference, batch |-> s.grad]
  <2>1. /\ run'[r].pc \in {"evaluate", "record"} /\ run'[r].reference = s.reference
        /\ run'[r].model = Append(s.model, u)
        /\ run'[r].rate = s.rate /\ run'[r].step = s.step + 1
    BY <1>1, <1>21 DEF AdamwStep, RunState
  <2>2. s.pc = "micro" /\ s.micro = o.accumulate
    BY <1>21 DEF AdamwStep, At
  <2>3. u = [rate |-> s.rate, reference |-> 0,
             batch |-> Group(o.inputs, o.accumulate, s.step, o.accumulate)]
    BY <1>3, <2>2
  <2> HIDE DEF u, s, o
  <2>4. Append(s.model, u) = Uninterrupted(<<o.inputs, o.accumulate>>, s.rate, s.step + 1)
    BY <1>2, <1>3, <2>3, UninterruptedNext, SMTT(30)
  <2>5. Trained(run'[r], o)
    BY <1>3, <2>1, <2>4 DEF Trained
  <2> QED BY <2>5 DEF o
<1>22. CASE AdamwFails(r)
  BY <1>1, <1>3, <1>22 DEF AdamwFails, Go, Calm, Fail, Trained, RunState, At
<1>23. CASE RecordStep(r)
  BY <1>1, <1>3, <1>23 DEF RecordStep, Calm, WriteRow, Trained, RunState, At
<1>24. CASE RowFails(r)
  BY <1>1, <1>3, <1>24 DEF RowFails, Go, Calm, Fail, Trained, RunState, At
<1>25. CASE PrintFails(r)
  BY <1>1, <1>3, <1>25 DEF PrintFails, Go, Calm, Fail, WriteRow, Trained, RunState, At
<1>26. CASE SkipCheckpoint(r)
  BY <1>1, <1>3, <1>26 DEF SkipCheckpoint, Go, Calm, Trained, RunState, At
<1>27. CASE CreateCheckpoint(r)
  BY <1>1, <1>3, <1>27 DEF CreateCheckpoint, Go, Calm, CreateExclusive, Trained, RunState, At
<1>28. CASE CheckpointRefused(r)
  BY <1>1, <1>3, <1>28 DEF CheckpointRefused, Go, Calm, Fail, Trained, RunState, At
<1>29. CASE WriteCheckpoint(r)
  BY <1>1, <1>3, <1>29 DEF WriteCheckpoint, Go, Calm, Trained, RunState, At
<1>30. CASE CheckpointFails(r)
  BY <1>1, <1>3, <1>30 DEF CheckpointFails, Go, Calm, Fail, Trained, RunState, At
<1>31. CASE CreateOutput(r)
  BY <1>1, <1>3, <1>31 DEF CreateOutput, Go, Calm, CreateExclusive, Trained, RunState, At
<1>32. CASE OutputRefused(r)
  BY <1>1, <1>3, <1>32 DEF OutputRefused, Go, Calm, Fail, Trained, RunState, At
<1>33. CASE WriteOutput(r)
  BY <1>1, <1>3, <1>33 DEF WriteOutput, Calm, Trained, RunState, At
<1>34. CASE OutputFails(r)
  BY <1>1, <1>3, <1>34 DEF OutputFails, Go, Calm, Fail, Trained, RunState, At
<1>35. CASE Exit(r)
  BY <1>1, <1>3, <1>35 DEF Exit, Go, Calm, Trained, RunState, At
<1>36. CASE ExitCloseFails(r)
  BY <1>1, <1>3, <1>36 DEF ExitCloseFails, Calm, Trained, RunState, At

<1> QED BY <1>4, <1>5, <1>6, <1>7, <1>8, <1>9, <1>10, <1>11, <1>12, <1>13, <1>14, <1>15, <1>16, <1>17, <1>18, <1>19, <1>20, <1>21, <1>22, <1>23, <1>24, <1>25, <1>26, <1>27, <1>28, <1>29, <1>30, <1>31, <1>32, <1>33, <1>34, <1>35, <1>36 DEF StepOf, Advance

-----------------------------------------------------------------------------
(* The files.                                                              *)

\* A complete file is kept by every step, and so is what another run writes.
LEMMA KeptFile ==
  ASSUME TypeOK, NEW r \in Runs, NEW p \in Paths, Writes(r, p),
         \/ files[p].kind \in {"checkpoint", "gguf"}
         \/ files[p].kind \in {"partial", "metrics"} /\ files[p].by # r
  PROVE  files'[p] = files[p]
  BY WrittenFiles DEF Writes

\* The files of the other runs.
LEMMA OthersFiles ==
  ASSUME TypeOK, NEW r \in Runs, NEW q \in Runs \ {r}, OwnFiles(q), StepOf(r),
         \A p \in Paths : Writes(r, p)
  PROVE  OwnFiles(q)'
<1>1. opt' = opt /\ run'[q] = run[q]
  BY OthersUnchanged
<1>2. Checkpoint(q)' = Checkpoint(q) /\ Gguf(q)' = Gguf(q) /\ Partial(q)' = Partial(q)
  BY <1>1 DEF Checkpoint, Identity, Gguf, Partial
<1>3. /\ opt[q].checkpoint \in Paths \cup {NoPath} /\ opt[q].metrics \in Paths \cup {NoPath}
      /\ opt[q].output \in Paths
  BY Parts
<1>4. ASSUME NEW p \in Paths, \/ files[p] \in {Partial(q), Checkpoint(q), Gguf(q)}
                              \/ files[p].kind = "metrics" /\ files[p].by = q
      PROVE  files'[p] = files[p]
  BY <1>4, KeptFile, WrittenFiles
<1>5. run[q].pc = "checkpoint" => /\ opt[q].checkpoint # NoPath
                                  /\ files'[opt[q].checkpoint] = Partial(q)
  BY <1>3, <1>4 DEF OwnFiles
<1>6. run[q].pc = "exporting" => files'[opt[q].output] = Partial(q)
  BY <1>3, <1>4 DEF OwnFiles
<1>7. (run[q].pc \in {"export", "exporting"} \/ run[q].result = 0) /\ opt[q].checkpoint # NoPath =>
        files'[opt[q].checkpoint] = Checkpoint(q)
  BY <1>3, <1>4 DEF OwnFiles
<1>8. run[q].result = 0 => files'[opt[q].output] = Gguf(q)
  BY <1>3, <1>4 DEF OwnFiles
<1>9. run[q].pc \in {"evaluate", "loop", "micro", "record"} /\ opt[q].metrics # NoPath =>
        files'[opt[q].metrics].kind = "metrics" /\ files'[opt[q].metrics].by = q
  BY <1>3, <1>4 DEF OwnFiles
<1> QED BY <1>1, <1>2, <1>5, <1>6, <1>7, <1>8, <1>9 DEF OwnFiles

\* The metrics stay open from the opening to the last step.
LEMMA MetricsStay ==
  ASSUME TypeOK, NEW r \in Runs, OwnFiles(r), NEW p \in Paths, p = opt[r].metrics,
         run[r].pc \in {"evaluate", "loop", "micro", "record"}, Writes(r, p)
  PROVE  files'[p].kind = "metrics" /\ files'[p].by = r
<1>1. files[p].kind = "metrics" /\ files[p].by = r /\ p # NoPath
  BY TrainAssumption DEF OwnFiles
<1>2. NoFile.kind = "absent" /\ Partial(r).kind = "partial"
  BY WrittenFiles
<1>3. files'[p] = files[p] \/ files'[p] = Metrics(r, Append(files[p].rows, Row(r)))
  BY <1>1, <1>2 DEF Writes
<1> QED BY <1>1, <1>3 DEF Metrics

\* The files of the run that takes the step.
LEMMA OwnFilesStep ==
  ASSUME TypeOK, NEW r \in Runs, OwnFiles(r), Control(run[r], opt[r]), StepOf(r),
         \A p \in Paths : Writes(r, p)
  PROVE  OwnFiles(r)'
<1>1. /\ run \in [Runs -> RunState] /\ run[r] \in RunState /\ opt' = opt
      /\ opt[r].checkpoint \in Paths \cup {NoPath} /\ opt[r].metrics \in Paths \cup {NoPath}
      /\ opt[r].output \in Paths
  BY Parts, OthersUnchanged
<1>2. run[r].result = 0 => run[r].pc \in {"cleanup", "done", "killed"}
  BY DEF Control
<1>3. ASSUME run'[r].pc \in {"evaluate", "loop", "micro", "record"}, opt[r].metrics # NoPath,
             run[r].pc \in {"evaluate", "loop", "micro", "record"}
      PROVE  files'[opt[r].metrics].kind = "metrics" /\ files'[opt[r].metrics].by = r
  BY <1>1, <1>3, MetricsStay
<1>4. Partial(r)' = Partial(r)
  BY DEF Partial
<1>5. ASSUME /\ run'[r].step = run[r].step /\ run'[r].rate = run[r].rate
             /\ run'[r].model = run[r].model /\ run'[r].grad = run[r].grad
      PROVE  Checkpoint(r)' = Checkpoint(r) /\ Gguf(r)' = Gguf(r)
  BY <1>1, <1>5 DEF Checkpoint, Identity, Gguf
<1>6. ASSUME NEW p \in Paths, files[p] \in {Checkpoint(r), Gguf(r)}
      PROVE  files'[p] = files[p]
  BY <1>6, KeptFile, WrittenFiles
<1>7. ASSUME run'[r].pc \notin {"checkpoint", "export", "exporting"}, run'[r].result # 0,
             \/ run'[r].pc \notin {"evaluate", "loop", "micro", "record"}
             \/ run[r].pc \in {"evaluate", "loop", "micro", "record"}
      PROVE  OwnFiles(r)'
  BY <1>1, <1>3, <1>7 DEF OwnFiles
<1>8. CASE Launch(r)
  BY <1>1, <1>2, <1>7, <1>8 DEF Launch, Calm, At, RunState
<1>9. CASE RequestStop(r)
  <2>1. run' = run /\ files' = files
    BY <1>9 DEF RequestStop
  <2>2. Checkpoint(r)' = Checkpoint(r) /\ Gguf(r)' = Gguf(r)
    BY <1>5, <2>1
  <2> QED BY <1>1, <1>4, <2>1, <2>2 DEF OwnFiles
<1>10. CASE Kill(r)
  <2>1. /\ run'[r].step = run[r].step /\ run'[r].rate = run[r].rate
        /\ run'[r].model = run[r].model /\ run'[r].grad = run[r].grad
        /\ run'[r].pc = "killed" /\ run'[r].result = run[r].result
    BY <1>1, <1>10 DEF Kill, Go, At, RunState
  <2>2. run[r].result = 0 => files'[opt[r].output] = Gguf(r)
    BY <1>1, <1>6 DEF OwnFiles
  <2>3. run[r].result = 0 /\ opt[r].checkpoint # NoPath => files'[opt[r].checkpoint] = Checkpoint(r)
    BY <1>1, <1>6 DEF OwnFiles
  <2> QED BY <1>1, <1>5, <2>1, <2>2, <2>3 DEF OwnFiles
<1>11. CASE LoadFails(r)
  BY <1>1, <1>2, <1>7, <1>11 DEF LoadFails, Go, Calm, Fail, At, RunState
<1>12. CASE Scratch(r)
  BY <1>1, <1>2, <1>7, <1>12 DEF Scratch, Go, Calm, At, RunState
<1>13. CASE Resume(r)
  BY <1>1, <1>2, <1>7, <1>13 DEF Resume, Calm, At, RunState
<1>14. CASE OpenMetrics(r)
  <2>1. /\ run'[r].pc \in {"evaluate", "loop"} /\ run'[r].result = 1
        /\ run[r].result = run'[r].result
    BY <1>1, <1>2, <1>14, RunParts DEF OpenMetrics, AfterOpen, Go, At, RunState
  <2>2. ASSUME opt[r].metrics # NoPath
        PROVE  files'[opt[r].metrics] = Metrics(r, <<>>)
    BY <1>1, <2>2, <1>14 DEF OpenMetrics, CreateExclusive, TypeOK
  <2>3. opt[r].metrics # NoPath => /\ files'[opt[r].metrics].kind = "metrics"
                                   /\ files'[opt[r].metrics].by = r
    BY <2>2 DEF Metrics
  <2> QED BY <1>1, <2>1, <2>3 DEF OwnFiles
<1>15. CASE OpenFails(r)
  BY <1>1, <1>2, <1>7, <1>15 DEF OpenFails, Go, Calm, Fail, At, RunState
<1>16. CASE EvalStop(r)
  BY <1>1, <1>2, <1>7, <1>16 DEF EvalStop, Calm, AfterEval, TakeStop, At, RunState
<1>17. CASE EvalRecord(r)
  BY <1>1, <1>2, <1>7, <1>17 DEF EvalRecord, Calm, At, RunState
<1>18. CASE EvalDone(r)
  BY <1>1, <1>2, <1>7, <1>18 DEF EvalDone, Calm, AfterEval, At, RunState
<1>19. CASE EvalFails(r)
  BY <1>1, <1>2, <1>7, <1>19 DEF EvalFails, Calm, Fail, Go, At, RunState
<1>20. CASE PollStop(r)
  BY <1>1, <1>2, <1>7, <1>20 DEF PollStop, Calm, MoreSteps, TakeStop, At, RunState
<1>21. CASE LoopEnds(r)
  BY <1>1, <1>2, <1>7, <1>21 DEF LoopEnds, Go, Calm, MoreSteps, At, RunState
<1>22. CASE BeginUpdate(r)
  BY <1>1, <1>2, <1>7, <1>22 DEF BeginUpdate, Calm, MoreSteps, At, RunState
<1>23. CASE Microbatch(r)
  BY <1>1, <1>2, <1>7, <1>23 DEF Microbatch, Calm, At, RunState
<1>24. CASE MicrobatchFails(r)
  BY <1>1, <1>2, <1>7, <1>24 DEF MicrobatchFails, Calm, At, RunState
<1>25. CASE AdamwStep(r)
  BY <1>1, <1>2, <1>7, <1>25 DEF AdamwStep, Calm, At, RunState
<1>26. CASE AdamwFails(r)
  BY <1>1, <1>2, <1>7, <1>26 DEF AdamwFails, Go, Calm, Fail, At, RunState
<1>27. CASE RecordStep(r)
  BY <1>1, <1>2, <1>7, <1>27 DEF RecordStep, Calm, WriteRow, At, RunState
<1>28. CASE RowFails(r)
  BY <1>1, <1>2, <1>7, <1>28 DEF RowFails, Go, Calm, Fail, At, RunState
<1>29. CASE PrintFails(r)
  BY <1>1, <1>2, <1>7, <1>29 DEF PrintFails, Go, Calm, Fail, WriteRow, At, RunState
<1>30. CASE SkipCheckpoint(r)
  <2>1. /\ run'[r].step = run[r].step /\ run'[r].rate = run[r].rate
        /\ run'[r].model = run[r].model /\ run'[r].grad = run[r].grad
        /\ run'[r].pc = "export" /\ run'[r].result = run[r].result
    BY <1>1, <1>30 DEF SkipCheckpoint, Go, At, RunState
  <2>2. opt[r].checkpoint = NoPath /\ run[r].result # 0
    BY <1>2, <1>30 DEF SkipCheckpoint, At
  <2> QED BY <1>1, <2>1, <2>2 DEF OwnFiles
<1>31. CASE CreateCheckpoint(r)
  <2>1. /\ run'[r].step = run[r].step /\ run'[r].rate = run[r].rate
        /\ run'[r].model = run[r].model /\ run'[r].grad = run[r].grad
        /\ run'[r].pc = "checkpoint" /\ run'[r].result = run[r].result
    BY <1>1, <1>31 DEF CreateCheckpoint, Go, At, RunState
  <2>2. /\ opt[r].checkpoint # NoPath /\ run[r].result # 0
        /\ files'[opt[r].checkpoint] = Partial(r)
    BY <1>1, <1>2, <1>31 DEF CreateCheckpoint, CreateExclusive, At, TypeOK
  <2> QED BY <1>1, <1>4, <2>1, <2>2 DEF OwnFiles
<1>32. CASE CheckpointRefused(r)
  BY <1>1, <1>2, <1>7, <1>32 DEF CheckpointRefused, Go, Calm, Fail, At, RunState
<1>33. CASE WriteCheckpoint(r)
  <2>1. /\ run'[r].step = run[r].step /\ run'[r].rate = run[r].rate
        /\ run'[r].model = run[r].model /\ run'[r].grad = run[r].grad
        /\ run'[r].pc = "export" /\ run'[r].result = run[r].result
    BY <1>1, <1>33 DEF WriteCheckpoint, Go, At, RunState
  <2>2. opt[r].checkpoint # NoPath /\ run[r].result # 0
    BY <1>2, <1>33 DEF WriteCheckpoint, At, OwnFiles
  <2>3. files'[opt[r].checkpoint] = Checkpoint(r)
    BY <1>1, <2>2, <1>33 DEF WriteCheckpoint, TypeOK
  <2> QED BY <1>1, <1>5, <2>1, <2>2, <2>3 DEF OwnFiles
<1>34. CASE CheckpointFails(r)
  BY <1>1, <1>2, <1>7, <1>34 DEF CheckpointFails, Go, Calm, Fail, At, RunState
<1>35. CASE CreateOutput(r)
  <2>1. /\ run'[r].step = run[r].step /\ run'[r].rate = run[r].rate
        /\ run'[r].model = run[r].model /\ run'[r].grad = run[r].grad
        /\ run'[r].pc = "exporting" /\ run'[r].result = run[r].result
    BY <1>1, <1>35 DEF CreateOutput, Go, At, RunState
  <2>2. run[r].result # 0 /\ run[r].pc = "export" /\ files'[opt[r].output] = Partial(r)
    BY <1>1, <1>2, <1>35 DEF CreateOutput, CreateExclusive, At, TypeOK
  <2>3. opt[r].checkpoint # NoPath => files'[opt[r].checkpoint] = Checkpoint(r)
    BY <1>1, <1>6, <2>2 DEF OwnFiles
  <2> QED BY <1>1, <1>4, <1>5, <2>1, <2>2, <2>3 DEF OwnFiles
<1>36. CASE OutputRefused(r)
  BY <1>1, <1>2, <1>7, <1>36 DEF OutputRefused, Go, Calm, Fail, At, RunState
<1>37. CASE WriteOutput(r)
  <2>1. /\ run'[r].step = run[r].step /\ run'[r].rate = run[r].rate
        /\ run'[r].model = run[r].model /\ run'[r].grad = run[r].grad
        /\ run'[r].pc = "cleanup"
    BY <1>1, <1>37 DEF WriteOutput, RunState
  <2>2. run[r].pc = "exporting" /\ files'[opt[r].output] = Gguf(r)
    BY <1>1, <1>37 DEF WriteOutput, At, TypeOK
  <2>3. opt[r].checkpoint # NoPath => files'[opt[r].checkpoint] = Checkpoint(r)
    BY <1>1, <1>6, <2>2 DEF OwnFiles
  <2> QED BY <1>1, <1>5, <2>1, <2>2, <2>3 DEF OwnFiles
<1>38. CASE OutputFails(r)
  BY <1>1, <1>2, <1>7, <1>38 DEF OutputFails, Go, Calm, Fail, At, RunState
<1>39. CASE Exit(r)
  <2>1. /\ run'[r].step = run[r].step /\ run'[r].rate = run[r].rate
        /\ run'[r].model = run[r].model /\ run'[r].grad = run[r].grad
        /\ run'[r].pc = "done" /\ run'[r].result = run[r].result
    BY <1>1, <1>39 DEF Exit, Go, At, RunState
  <2>2. run[r].result = 0 => files'[opt[r].output] = Gguf(r)
    BY <1>1, <1>6 DEF OwnFiles
  <2>3. run[r].result = 0 /\ opt[r].checkpoint # NoPath => files'[opt[r].checkpoint] = Checkpoint(r)
    BY <1>1, <1>6 DEF OwnFiles
  <2> QED BY <1>1, <1>5, <2>1, <2>2, <2>3 DEF OwnFiles
<1>40. CASE ExitCloseFails(r)
  BY <1>1, <1>2, <1>7, <1>40 DEF ExitCloseFails, Calm, At, RunState

<1> QED BY <1>8, <1>9, <1>10, <1>11, <1>12, <1>13, <1>14, <1>15, <1>16, <1>17, <1>18, <1>19, <1>20, <1>21, <1>22, <1>23, <1>24, <1>25, <1>26, <1>27, <1>28, <1>29, <1>30, <1>31, <1>32, <1>33, <1>34, <1>35, <1>36, <1>37, <1>38, <1>39, <1>40 DEF StepOf, Advance

\* So do the control pipes and the histories.
LEMMA RestTypeStep ==
  ASSUME TypeOK, NEW r \in Runs, StepOf(r)
  PROVE  pipe' \in [Runs -> SUBSET {"S", "eof"}] /\ late' \in [Runs -> Nat] /\ fault' \subseteq Runs
<1> USE DEF TypeOK
<1>1. CASE Launch(r)
  BY <1>1 DEF Launch, Calm
<1>2. CASE RequestStop(r)
  BY <1>2 DEF RequestStop, Calm
<1>3. CASE Kill(r)
  BY <1>3 DEF Kill, Go, Calm, Alive
<1>4. CASE LoadFails(r)
  BY <1>4 DEF LoadFails, Go, Calm, Fail
<1>5. CASE Scratch(r)
  BY <1>5 DEF Scratch, Go, Calm
<1>6. CASE Resume(r)
  BY <1>6 DEF Resume, Calm
<1>7. CASE OpenMetrics(r)
  BY <1>7 DEF OpenMetrics, Go, Calm, AfterOpen, CreateExclusive
<1>8. CASE OpenFails(r)
  BY <1>8 DEF OpenFails, Go, Calm, Fail
<1>9. CASE EvalStop(r)
  BY <1>9 DEF EvalStop, Calm, AfterEval, TakeStop
<1>10. CASE EvalRecord(r)
  BY <1>10 DEF EvalRecord, Calm
<1>11. CASE EvalDone(r)
  BY <1>11 DEF EvalDone, Calm, AfterEval
<1>12. CASE EvalFails(r)
  BY <1>12 DEF EvalFails, Fail, Go
<1>13. CASE PollStop(r)
  BY <1>13 DEF PollStop, Calm, MoreSteps, TakeStop
<1>14. CASE LoopEnds(r)
  BY <1>14 DEF LoopEnds, Go, Calm, MoreSteps
<1>15. CASE BeginUpdate(r)
  BY <1>15 DEF BeginUpdate, Calm, MoreSteps
<1>16. CASE Microbatch(r)
  BY <1>16 DEF Microbatch, Calm
<1>17. CASE MicrobatchFails(r)
  BY <1>17 DEF MicrobatchFails, Calm
<1>18. CASE AdamwStep(r)
  BY <1>18 DEF AdamwStep, Calm
<1>19. CASE AdamwFails(r)
  BY <1>19 DEF AdamwFails, Go, Calm, Fail
<1>20. CASE RecordStep(r)
  BY <1>20 DEF RecordStep, Calm, WriteRow
<1>21. CASE RowFails(r)
  BY <1>21 DEF RowFails, Go, Calm, Fail
<1>22. CASE PrintFails(r)
  BY <1>22 DEF PrintFails, Go, Calm, Fail, WriteRow
<1>23. CASE SkipCheckpoint(r)
  BY <1>23 DEF SkipCheckpoint, Go, Calm
<1>24. CASE CreateCheckpoint(r)
  BY <1>24 DEF CreateCheckpoint, Go, Calm, CreateExclusive
<1>25. CASE CheckpointRefused(r)
  BY <1>25 DEF CheckpointRefused, Go, Calm, Fail
<1>26. CASE WriteCheckpoint(r)
  BY <1>26 DEF WriteCheckpoint, Go, Calm
<1>27. CASE CheckpointFails(r)
  BY <1>27 DEF CheckpointFails, Go, Calm, Fail
<1>28. CASE CreateOutput(r)
  BY <1>28 DEF CreateOutput, Go, Calm, CreateExclusive
<1>29. CASE OutputRefused(r)
  BY <1>29 DEF OutputRefused, Go, Calm, Fail
<1>30. CASE WriteOutput(r)
  BY <1>30 DEF WriteOutput, Calm
<1>31. CASE OutputFails(r)
  BY <1>31 DEF OutputFails, Go, Calm, Fail
<1>32. CASE Exit(r)
  BY <1>32 DEF Exit, Go, Calm
<1>33. CASE ExitCloseFails(r)
  BY <1>33 DEF ExitCloseFails, Calm

<1> QED BY <1>1, <1>2, <1>3, <1>4, <1>5, <1>6, <1>7, <1>8, <1>9, <1>10, <1>11, <1>12, <1>13, <1>14, <1>15, <1>16, <1>17, <1>18, <1>19, <1>20, <1>21, <1>22, <1>23, <1>24, <1>25, <1>26, <1>27, <1>28, <1>29, <1>30, <1>31, <1>32, <1>33 DEF StepOf, Advance

\* A partial file that stays is that of a run that still writes or was killed.
LEMMA PartialStep ==
  ASSUME TypeOK, NEW r \in Runs, NEW p \in Paths, Interrupted(r, p), StepOf(r),
         files'[p] \notin {NoFile, Leftover(r), Checkpoint(r), Gguf(r)}
  PROVE  Interrupted(r, p)'
<1>1. /\ run \in [Runs -> RunState] /\ run[r] \in RunState /\ opt' = opt
  BY Parts, OthersUnchanged
<1>2. run[r].pc \in {"checkpoint", "exporting", "killed"}
  BY DEF Interrupted, At
<1> USE DEF At, RunState
<1>3. CASE Launch(r)
  BY <1>2, <1>3 DEF Launch, Calm
<1>4. CASE RequestStop(r)
  BY <1>1, <1>4 DEF RequestStop, Interrupted
<1>5. CASE Kill(r)
  BY <1>1, <1>5 DEF Kill, Go, Interrupted
<1>6. CASE LoadFails(r)
  BY <1>2, <1>6 DEF LoadFails, Go, Calm, Fail
<1>7. CASE Scratch(r)
  BY <1>2, <1>7 DEF Scratch, Go, Calm
<1>8. CASE Resume(r)
  BY <1>2, <1>8 DEF Resume, Calm
<1>9. CASE OpenMetrics(r)
  BY <1>2, <1>9 DEF OpenMetrics, Go, Calm, AfterOpen, CreateExclusive
<1>10. CASE OpenFails(r)
  BY <1>2, <1>10 DEF OpenFails, Go, Calm, Fail
<1>11. CASE EvalStop(r)
  BY <1>2, <1>11 DEF EvalStop, Calm, AfterEval, TakeStop
<1>12. CASE EvalRecord(r)
  BY <1>2, <1>12 DEF EvalRecord, Calm
<1>13. CASE EvalDone(r)
  BY <1>2, <1>13 DEF EvalDone, Calm, AfterEval
<1>14. CASE EvalFails(r)
  BY <1>2, <1>14 DEF EvalFails, Calm, Fail, Go
<1>15. CASE PollStop(r)
  BY <1>2, <1>15 DEF PollStop, Calm, MoreSteps, TakeStop
<1>16. CASE LoopEnds(r)
  BY <1>2, <1>16 DEF LoopEnds, Go, Calm, MoreSteps
<1>17. CASE BeginUpdate(r)
  BY <1>2, <1>17 DEF BeginUpdate, Calm, MoreSteps
<1>18. CASE Microbatch(r)
  BY <1>2, <1>18 DEF Microbatch, Calm
<1>19. CASE MicrobatchFails(r)
  BY <1>2, <1>19 DEF MicrobatchFails, Calm
<1>20. CASE AdamwStep(r)
  BY <1>2, <1>20 DEF AdamwStep, Calm
<1>21. CASE AdamwFails(r)
  BY <1>2, <1>21 DEF AdamwFails, Go, Calm, Fail
<1>22. CASE RecordStep(r)
  BY <1>2, <1>22 DEF RecordStep, Calm, WriteRow
<1>23. CASE RowFails(r)
  BY <1>2, <1>23 DEF RowFails, Go, Calm, Fail
<1>24. CASE PrintFails(r)
  BY <1>2, <1>24 DEF PrintFails, Go, Calm, Fail, WriteRow
<1>25. CASE SkipCheckpoint(r)
  BY <1>2, <1>25 DEF SkipCheckpoint, Go, Calm
<1>26. CASE CreateCheckpoint(r)
  BY <1>2, <1>26 DEF CreateCheckpoint, Go, Calm, CreateExclusive
<1>27. CASE CheckpointRefused(r)
  BY <1>2, <1>27 DEF CheckpointRefused, Go, Calm, Fail
<1>28. CASE WriteCheckpoint(r)
  BY <1>1, <1>28 DEF WriteCheckpoint, Interrupted, TypeOK
<1>29. CASE CheckpointFails(r)
  BY <1>1, <1>29 DEF CheckpointFails, Discard, Interrupted, TypeOK
<1>30. CASE CreateOutput(r)
  BY <1>2, <1>30 DEF CreateOutput, Go, Calm, CreateExclusive
<1>31. CASE OutputRefused(r)
  BY <1>2, <1>31 DEF OutputRefused, Go, Calm, Fail
<1>32. CASE WriteOutput(r)
  BY <1>1, <1>32 DEF WriteOutput, Interrupted, TypeOK
<1>33. CASE OutputFails(r)
  BY <1>1, <1>33 DEF OutputFails, Discard, Interrupted, TypeOK
<1>34. CASE Exit(r)
  BY <1>2, <1>34 DEF Exit, Go, Calm
<1>35. CASE ExitCloseFails(r)
  BY <1>2, <1>35 DEF ExitCloseFails, Calm

<1> QED BY <1>3, <1>4, <1>5, <1>6, <1>7, <1>8, <1>9, <1>10, <1>11, <1>12, <1>13, <1>14, <1>15, <1>16, <1>17, <1>18, <1>19, <1>20, <1>21, <1>22, <1>23, <1>24, <1>25, <1>26, <1>27, <1>28, <1>29, <1>30, <1>31, <1>32, <1>33, <1>34, <1>35 DEF StepOf, Advance

\* A run that gave up only ends.
LEMMA GaveUpStep ==
  ASSUME TypeOK, NEW r \in Runs, GaveUp(r), StepOf(r)
  PROVE  GaveUp(r)'
<1>1. /\ run \in [Runs -> RunState] /\ run[r] \in RunState /\ fault \subseteq fault'
  BY Parts, OthersUnchanged
<1>2. run[r].pc \in {"cleanup", "done", "killed"} /\ run[r].result = 1 /\ r \in fault
  BY DEF GaveUp
<1> USE DEF At, RunState
<1>3. CASE Launch(r)
  BY <1>2, <1>3 DEF Launch
<1>4. CASE RequestStop(r)
  BY <1>1, <1>2, <1>4 DEF RequestStop, GaveUp
<1>5. CASE Kill(r)
  BY <1>1, <1>2, <1>5 DEF Kill, Go, GaveUp
<1>6. CASE LoadFails(r)
  BY <1>2, <1>6 DEF LoadFails
<1>7. CASE Scratch(r)
  BY <1>2, <1>7 DEF Scratch
<1>8. CASE Resume(r)
  BY <1>2, <1>8 DEF Resume
<1>9. CASE OpenMetrics(r)
  BY <1>2, <1>9 DEF OpenMetrics
<1>10. CASE OpenFails(r)
  BY <1>2, <1>10 DEF OpenFails
<1>11. CASE EvalStop(r)
  BY <1>2, <1>11 DEF EvalStop
<1>12. CASE EvalRecord(r)
  BY <1>2, <1>12 DEF EvalRecord
<1>13. CASE EvalDone(r)
  BY <1>2, <1>13 DEF EvalDone
<1>14. CASE EvalFails(r)
  BY <1>2, <1>14 DEF EvalFails
<1>15. CASE PollStop(r)
  BY <1>2, <1>15 DEF PollStop
<1>16. CASE LoopEnds(r)
  BY <1>2, <1>16 DEF LoopEnds
<1>17. CASE BeginUpdate(r)
  BY <1>2, <1>17 DEF BeginUpdate
<1>18. CASE Microbatch(r)
  BY <1>2, <1>18 DEF Microbatch
<1>19. CASE MicrobatchFails(r)
  BY <1>2, <1>19 DEF MicrobatchFails
<1>20. CASE AdamwStep(r)
  BY <1>2, <1>20 DEF AdamwStep
<1>21. CASE AdamwFails(r)
  BY <1>2, <1>21 DEF AdamwFails
<1>22. CASE RecordStep(r)
  BY <1>2, <1>22 DEF RecordStep
<1>23. CASE RowFails(r)
  BY <1>2, <1>23 DEF RowFails
<1>24. CASE PrintFails(r)
  BY <1>2, <1>24 DEF PrintFails
<1>25. CASE SkipCheckpoint(r)
  BY <1>2, <1>25 DEF SkipCheckpoint
<1>26. CASE CreateCheckpoint(r)
  BY <1>2, <1>26 DEF CreateCheckpoint
<1>27. CASE CheckpointRefused(r)
  BY <1>2, <1>27 DEF CheckpointRefused
<1>28. CASE WriteCheckpoint(r)
  BY <1>2, <1>28 DEF WriteCheckpoint
<1>29. CASE CheckpointFails(r)
  BY <1>2, <1>29 DEF CheckpointFails
<1>30. CASE CreateOutput(r)
  BY <1>2, <1>30 DEF CreateOutput
<1>31. CASE OutputRefused(r)
  BY <1>2, <1>31 DEF OutputRefused
<1>32. CASE WriteOutput(r)
  BY <1>2, <1>32 DEF WriteOutput
<1>33. CASE OutputFails(r)
  BY <1>2, <1>33 DEF OutputFails
<1>34. CASE Exit(r)
  BY <1>1, <1>2, <1>34 DEF Exit, Go, GaveUp
<1>35. CASE ExitCloseFails(r)
  BY <1>1, <1>2, <1>35 DEF ExitCloseFails, GaveUp

<1> QED BY <1>3, <1>4, <1>5, <1>6, <1>7, <1>8, <1>9, <1>10, <1>11, <1>12, <1>13, <1>14, <1>15, <1>16, <1>17, <1>18, <1>19, <1>20, <1>21, <1>22, <1>23, <1>24, <1>25, <1>26, <1>27, <1>28, <1>29, <1>30, <1>31, <1>32, <1>33, <1>34, <1>35 DEF StepOf, Advance

\* The rows stay exact while none is added.
LEMMA RowsStep ==
  ASSUME TypeOK, NEW r \in Runs, NEW rows \in Seq(Rows), RowsExact(rows, run[r], opt[r]),
         Control(run[r], opt[r]), StepOf(r), ~RecordStep(r)
  PROVE  RowsExact(rows, run'[r], opt[r])
<1>1. run \in [Runs -> RunState] /\ run[r] \in RunState /\ run[r].step \in Nat
  BY Parts, RunParts
<1>2. ASSUME NEW i \in 1 .. Len(rows) PROVE rows[i].step \in Nat /\ Len(rows) \in Nat
  <2>1. rows[i] \in Rows
    OBVIOUS
  <2> QED BY <2>1, LenProperties DEF Rows
<1>3. run[r].pc \notin {"idle", "resume", "open"} /\ Len(rows) \in Nat
  BY LenProperties DEF RowsExact
<1>4. ASSUME /\ run'[r].step = run[r].step /\ run'[r].initial = run[r].initial
             /\ run[r].stopping => run'[r].stopping
             /\ run'[r].pc \in {"save", "checkpoint", "export", "exporting", "cleanup", "done", "killed"}
      PROVE  RowsExact(rows, run'[r], opt[r])
  BY <1>4 DEF RowsExact
<1>5. ASSUME /\ run'[r].step = run[r].step /\ run'[r].initial = run[r].initial
             /\ run'[r].pc = run[r].pc /\ run'[r].stopping = run[r].stopping
      PROVE  RowsExact(rows, run'[r], opt[r])
  BY <1>5 DEF RowsExact
<1>6. ASSUME run[r].initial, run'[r].initial, run'[r].pc \notin {"idle", "resume", "open"}
      PROVE  RowsExact(rows, run'[r], opt[r])
  <2>1. rows = <<>> /\ Len(<<>>) = 0
    BY <1>6, EmptySeq DEF RowsExact
  <2> QED BY <1>6, <2>1 DEF RowsExact
<1>7. CASE Launch(r)
  BY <1>3, <1>7 DEF Launch, At
<1>8. CASE RequestStop(r)
  BY <1>1, <1>5, <1>8 DEF RequestStop, RunState
<1>9. CASE Kill(r)
  BY <1>1, <1>4, <1>9 DEF Kill, Go, Alive, RunState
<1>10. CASE LoadFails(r)
  BY <1>3, <1>10 DEF LoadFails, At
<1>11. CASE Scratch(r)
  BY <1>3, <1>11 DEF Scratch, At
<1>12. CASE Resume(r)
  BY <1>3, <1>12 DEF Resume, At
<1>13. CASE OpenMetrics(r)
  BY <1>3, <1>13 DEF OpenMetrics, At
<1>14. CASE OpenFails(r)
  BY <1>3, <1>14 DEF OpenFails, At
<1>15. CASE EvalStop(r)
  <2>1. /\ run'[r].step = run[r].step /\ run'[r].initial = run[r].initial /\ run[r].pc = "evaluate"
        /\ run'[r].pc = AfterEval(r) /\ run'[r].stopping
    BY <1>1, <1>15 DEF EvalStop, RunState, At
  <2>2. CASE run[r].initial
    BY <1>6, <2>1, <2>2 DEF AfterEval
  <2>3. CASE ~run[r].initial
    BY <2>1, <2>3 DEF AfterEval, RowsExact
  <2> QED BY <2>2, <2>3
<1>16. CASE EvalRecord(r)
  BY <1>1, <1>5, <1>16 DEF EvalRecord, RunState
<1>17. CASE EvalDone(r)
  <2>1. /\ run'[r].step = run[r].step /\ run'[r].initial = run[r].initial /\ run[r].pc = "evaluate"
        /\ run'[r].pc = AfterEval(r) /\ run'[r].stopping = run[r].stopping
    BY <1>1, <1>17 DEF EvalDone, RunState, At
  <2>2. CASE run[r].initial
    BY <1>6, <2>1, <2>2 DEF AfterEval
  <2>3. CASE ~run[r].initial
    BY <2>1, <2>3 DEF AfterEval, RowsExact
  <2> QED BY <2>2, <2>3
<1>18. CASE EvalFails(r)
  <2>1. CASE run[r].initial /\ Fail(r)
    BY <1>1, <1>4, <2>1 DEF Fail, Go, RunState
  <2>2. CASE ~run[r].initial /\ run' = [run EXCEPT ![r].pc = "record", ![r].stopping = TRUE,
                                ![r].evalFailed = TRUE, ![r].validated = 0]
    <3>1. /\ run'[r].step = run[r].step /\ run'[r].initial = run[r].initial
          /\ run[r].pc = "evaluate" /\ run'[r].pc = "record"
      BY <1>1, <1>18, <2>2 DEF EvalFails, RunState, At
    <3> QED BY <2>2, <3>1 DEF RowsExact
  <2> QED BY <1>18, <2>1, <2>2 DEF EvalFails
<1>19. CASE PollStop(r)
  BY <1>1, <1>4, <1>19 DEF PollStop, MoreSteps, TakeStop, RunState
<1>20. CASE LoopEnds(r)
  BY <1>1, <1>4, <1>20 DEF LoopEnds, Go, MoreSteps, RunState
<1>21. CASE BeginUpdate(r)
  <2>1. /\ run'[r].step = run[r].step /\ run'[r].initial = run[r].initial
        /\ run[r].pc = "loop" /\ run'[r].pc = "micro"
        /\ ~run[r].stopping /\ run'[r].stopping = run[r].stopping
    BY <1>1, <1>21 DEF BeginUpdate, MoreSteps, RunState, At
  <2> QED BY <2>1 DEF RowsExact
<1>22. CASE Microbatch(r)
  BY <1>1, <1>5, <1>22 DEF Microbatch, RunState
<1>23. CASE MicrobatchFails(r)
  BY <1>1, <1>4, <1>23 DEF MicrobatchFails, RunState
<1>24. CASE AdamwStep(r)
  <2>1. /\ run'[r].step = run[r].step + 1 /\ run'[r].initial = FALSE
        /\ run[r].pc = "micro" /\ run'[r].pc \in {"evaluate", "record"}
        /\ run'[r].stopping = run[r].stopping
    BY <1>1, <1>24 DEF AdamwStep, RunState, At
  <2>2. \A i \in 1 .. Len(rows) : rows[i].step <= run'[r].step
    BY <1>1, <1>2, <2>1 DEF RowsExact
  <2>3. rows # <<>> => rows[Len(rows)].step + 1 = run'[r].step
    BY <1>1, <2>1 DEF RowsExact
  <2> QED BY <2>1, <2>2, <2>3 DEF RowsExact
<1>25. CASE AdamwFails(r)
  BY <1>1, <1>4, <1>25 DEF AdamwFails, Go, Fail, RunState
<1>26. CASE RecordStep(r)
  BY <1>26
<1>27. CASE RowFails(r)
  BY <1>1, <1>4, <1>27 DEF RowFails, Go, Fail, RunState
<1>28. CASE PrintFails(r)
  BY <1>1, <1>4, <1>28 DEF PrintFails, Go, Fail, WriteRow, RunState
<1>29. CASE SkipCheckpoint(r)
  BY <1>1, <1>4, <1>29 DEF SkipCheckpoint, Go, RunState
<1>30. CASE CreateCheckpoint(r)
  BY <1>1, <1>4, <1>30 DEF CreateCheckpoint, Go, CreateExclusive, RunState
<1>31. CASE CheckpointRefused(r)
  BY <1>1, <1>4, <1>31 DEF CheckpointRefused, Go, Fail, RunState
<1>32. CASE WriteCheckpoint(r)
  BY <1>1, <1>4, <1>32 DEF WriteCheckpoint, Go, RunState
<1>33. CASE CheckpointFails(r)
  BY <1>1, <1>4, <1>33 DEF CheckpointFails, Go, Fail, RunState
<1>34. CASE CreateOutput(r)
  BY <1>1, <1>4, <1>34 DEF CreateOutput, Go, CreateExclusive, RunState
<1>35. CASE OutputRefused(r)
  BY <1>1, <1>4, <1>35 DEF OutputRefused, Go, Fail, RunState
<1>36. CASE WriteOutput(r)
  BY <1>1, <1>4, <1>36 DEF WriteOutput, RunState
<1>37. CASE OutputFails(r)
  BY <1>1, <1>4, <1>37 DEF OutputFails, Go, Fail, RunState
<1>38. CASE Exit(r)
  BY <1>1, <1>4, <1>38 DEF Exit, Go, RunState
<1>39. CASE ExitCloseFails(r)
  BY <1>1, <1>4, <1>39 DEF ExitCloseFails, RunState

<1> QED BY <1>7, <1>8, <1>9, <1>10, <1>11, <1>12, <1>13, <1>14, <1>15, <1>16, <1>17, <1>18, <1>19, <1>20, <1>21, <1>22, <1>23, <1>24, <1>25, <1>26, <1>27, <1>28, <1>29, <1>30, <1>31, <1>32, <1>33, <1>34, <1>35, <1>36, <1>37, <1>38, <1>39 DEF StepOf, Advance

\* The row that is added continues the others.
LEMMA RowsAppended ==
  ASSUME TypeOK, NEW r \in Runs, NEW rows \in Seq(Rows), RowsExact(rows, run[r], opt[r]),
         Control(run[r], opt[r]), At(r, "record"),
         \/ run'[r] = [run[r] EXCEPT !.pc = "loop", !.done = @ + 1]
         \/ run'[r] = [run[r] EXCEPT !.pc = "cleanup"]
  PROVE  RowsExact(Append(rows, Row(r)), run'[r], opt[r])
<1> DEFINE new == Append(rows, Row(r))
           s == run[r]
           t == run'[r]
           o == opt[r]
<1>1. s \in RunState /\ s.step \in Nat /\ s.validated \in Nat
  BY Parts, RunParts
<1>2. /\ t.step = s.step /\ t.initial = s.initial /\ t.stopping = s.stopping
      /\ t.pc \in {"loop", "cleanup"}
  BY <1>1 DEF RunState
<1>3. s.pc = "record" /\ ~s.initial /\ s.validated \in {0, o.validation}
      /\ (Missing(s.step, s.validated, o) => s.stopping)
  BY DEF At, Control
<1>4. /\ Row(r) \in Rows /\ Row(r).step = s.step /\ Row(r).validated = s.validated
      /\ Len(rows) \in Nat
  BY <1>1, LenProperties DEF Row, Rows
<1>5. /\ new \in Seq(Rows) /\ Len(new) = Len(rows) + 1 /\ new[Len(rows) + 1] = Row(r)
      /\ \A i \in 1 .. Len(rows) : new[i] = rows[i]
  BY <1>4, AppendProperties
<1>6. /\ \A i \in 1 .. Len(rows) :
           /\ rows[i].step <= s.step
           /\ i > 1 => rows[i].step = rows[i-1].step + 1
           /\ rows[i].validated \in {0, o.validation}
           /\ ~Missing(rows[i].step, rows[i].validated, o)
      /\ Len(rows) # 0 => rows[Len(rows)].step + 1 = s.step
  <2>1. Len(rows) # 0 => rows # <<>>
    BY EmptySeq
  <2> QED BY <1>3, <2>1 DEF RowsExact
<1> HIDE DEF new, s, t, o
<1>7. ASSUME NEW i \in 1 .. Len(new)
      PROVE  /\ new[i].step <= t.step
             /\ i > 1 => new[i].step = new[i-1].step + 1
             /\ new[i].validated \in {0, o.validation}
             /\ Missing(new[i].step, new[i].validated, o) =>
                  i = Len(new) /\ t.stopping /\ t.pc \notin {"evaluate", "micro", "record"}
  <2>1. CASE i \in 1 .. Len(rows)
    <3>1. i > 1 => new[i-1] = rows[i-1]
      BY <1>4, <1>5, <2>1
    <3> QED BY <1>2, <1>5, <1>6, <2>1, <3>1
  <2>2. CASE i = Len(rows) + 1
    <3>1. i > 1 => Len(rows) # 0 /\ new[i-1] = rows[Len(rows)]
      BY <1>4, <1>5, <2>2
    <3>2. i > 1 => new[i].step = new[i-1].step + 1
      BY <1>4, <1>5, <1>6, <2>2, <3>1
    <3>3. new[i].step = s.step /\ new[i].validated = s.validated
      BY <1>4, <1>5, <2>2
    <3> QED BY <1>1, <1>2, <1>3, <1>5, <2>2, <3>2, <3>3
  <2>3. i \in 1 .. Len(rows) \/ i = Len(rows) + 1
    BY <1>4, <1>5
  <2> QED BY <2>1, <2>2, <2>3
<1>8. new[Len(new)].step = t.step
  BY <1>2, <1>4, <1>5
<1>9. RowsExact(new, t, o)
  BY <1>2, <1>3, <1>7, <1>8 DEF RowsExact
<1> QED BY <1>9 DEF new, t, o

\* What every path names stays sound.
LEMMA SoundStep ==
  ASSUME IInv, NEW r \in Runs, StepOf(r), \A p \in Paths : Writes(r, p), NEW p \in Paths
  PROVE  Sound(p)'
<1>1. /\ TypeOK /\ OwnFiles(r) /\ Control(run[r], opt[r]) /\ Trained(run[r], opt[r])
      /\ Sound(p) /\ Writes(r, p) /\ files[p] \in Files
  BY DEF IInv, OwnInv, TypeOK
<1>2. opt' = opt /\ fault \subseteq fault' /\ \A q \in Runs \ {r} : run'[q] = run[q]
  BY <1>1, OthersUnchanged
<1>3. /\ NoFile.kind = "absent" /\ Partial(r).kind = "partial" /\ Partial(r).by = r
      /\ Checkpoint(r).kind = "checkpoint" /\ Gguf(r).kind = "gguf"
      /\ Leftover(r).kind = "leftover" /\ Leftover(r).by = r
      /\ \A rows \in Seq(Rows) : /\ Metrics(r, rows).kind = "metrics"
                                 /\ Metrics(r, rows).by = r /\ Metrics(r, rows).rows = rows
  BY <1>1, WrittenFiles
<1>4. CASE files'[p] = files[p]
  <2> DEFINE f == files[p]
             q == f.by
  <2>1. f.kind = "checkpoint" => f.model = Uninterrupted(f.identity, f.rate, f.step)
    BY <1>1 DEF Sound
  <2>2. ASSUME NEW x \in Runs, f = Partial(x) PROVE Interrupted(x, p)'
    <3>1. Interrupted(x, p)
      <4>1. Partial(x).kind = "partial" /\ Partial(x).by = x
        BY DEF Partial
      <4> QED BY <1>1, <2>2, <4>1 DEF Sound
    <3>2. CASE x = r
      <4>1. files'[p] \notin {NoFile, Leftover(r), Checkpoint(r), Gguf(r)}
        BY <1>3, <1>4, <2>2, <3>2
      <4>2. Interrupted(r, p)
        BY <3>1, <3>2
      <4>3. Interrupted(r, p)'
        BY <1>1, <4>1, <4>2, PartialStep
      <4> QED BY <3>2, <4>3
    <3>3. CASE x # r
      BY <1>2, <3>1, <3>3 DEF Interrupted, At
    <3> QED BY <3>2, <3>3
  <2>4. f.kind = "partial" => f.by \in Runs /\ f = Partial(f.by)
    BY <1>1, FileParts
  <2>5. ASSUME NEW x \in Runs, f = Leftover(x) PROVE GaveUp(x)'
    <3>1. GaveUp(x)
      <4>1. Leftover(x).kind = "leftover" /\ Leftover(x).by = x
        BY DEF Leftover
      <4> QED BY <1>1, <2>5, <4>1 DEF Sound
    <3>2. CASE x = r
      <4>1. GaveUp(r)
        BY <3>1, <3>2
      <4>2. GaveUp(r)'
        BY <1>1, <4>1, GaveUpStep
      <4> QED BY <3>2, <4>2
    <3>3. CASE x # r
      BY <1>2, <3>1, <3>3 DEF GaveUp
    <3> QED BY <3>2, <3>3
  <2>6. f.kind = "leftover" => f.by \in Runs /\ f = Leftover(f.by)
    BY <1>1, FileParts
  <2>3. ASSUME f.kind = "metrics"
        PROVE  p = opt[q].metrics /\ RowsExact(f.rows, run'[q], opt[q])
    <3>1. q \in Runs /\ f.rows \in Seq(Rows) /\ f = Metrics(q, f.rows)
      BY <1>1, <2>3, FileParts
    <3>2. p = opt[q].metrics /\ RowsExact(f.rows, run[q], opt[q])
      BY <1>1, <2>3 DEF Sound
    <3>3. CASE q # r
      BY <1>2, <3>1, <3>2, <3>3
    <3>4. CASE q = r
      <4>1. ASSUME RecordStep(r) PROVE FALSE
        <5>1. p # NoPath /\ WriteRow(r)
          BY <4>1, TrainAssumption DEF RecordStep
        <5>2. files'[p] = [files[p] EXCEPT !.rows = Append(@, Row(r))]
          BY <1>1, <3>2, <3>4, <5>1 DEF WriteRow, TypeOK, Row
        <5>3. files'[p].rows = Append(f.rows, Row(r))
          <6> DEFINE old == f.rows
          <6>1. files[p] = Metrics(q, old)
            BY <3>1
          <6> HIDE DEF old
          <6>2. files[p].rows = old
            BY <6>1 DEF Metrics
          <6> QED BY <5>2, <6>1, <6>2 DEF Metrics, old
        <5>4. Row(r) \in Rows
          BY <1>1, Parts, RunParts DEF Row, Rows
        <5>5. Len(Append(f.rows, Row(r))) = Len(f.rows) + 1 /\ Len(f.rows) \in Nat
          BY <3>1, <5>4, AppendProperties, LenProperties
        <5> QED BY <1>4, <5>3, <5>5
      <4>2. RowsExact(f.rows, run[r], opt[r]) /\ f.rows \in Seq(Rows)
        BY <3>1, <3>2, <3>4
      <4>3. RowsExact(f.rows, run'[r], opt[r])
        BY <1>1, <4>1, <4>2, RowsStep
      <4> QED BY <3>2, <3>4, <4>3
    <3> QED BY <3>3, <3>4
  <2> QED BY <1>2, <1>4, <2>1, <2>2, <2>3, <2>4, <2>5, <2>6 DEF Sound
<1>5. CASE /\ files'[p] = Metrics(r, <<>>)
           /\ At(r, "open") /\ p = opt[r].metrics /\ run'[r] = [run[r] EXCEPT !.pc = AfterOpen(r)]
  <2>1. run[r] \in RunState
    BY <1>1, Parts
  <2>2. run'[r].pc \in {"evaluate", "loop"}
    BY <1>5, <2>1 DEF AfterOpen, RunState
  <2>3. Len(<<>>) = 0 /\ <<>> \in Seq(Rows)
    BY EmptySeq
  <2>4. RowsExact(<<>>, run'[r], opt[r])
    BY <2>2, <2>3 DEF RowsExact
  <2>5. /\ files'[p].kind = "metrics" /\ files'[p].by = r /\ files'[p].rows = <<>>
    BY <1>3, <1>5, <2>3
  <2> QED BY <1>2, <1>5, <2>4, <2>5 DEF Sound
<1>6. CASE /\ files'[p] = Partial(r)
           /\ \/ At(r, "save") /\ run'[r].pc = "checkpoint" /\ p = opt[r].checkpoint
              \/ At(r, "export") /\ run'[r].pc = "exporting" /\ p = opt[r].output
  BY <1>2, <1>3, <1>6 DEF Sound, Interrupted, At
<1>7. CASE files'[p] = NoFile
  BY <1>3, <1>7 DEF Sound
<1>8. CASE files'[p] = Gguf(r)
  BY <1>3, <1>8 DEF Sound
<1>9. CASE files'[p] = Checkpoint(r)
  <2>1. /\ Checkpoint(r).model = run[r].model /\ Checkpoint(r).rate = run[r].rate
        /\ Checkpoint(r).step = run[r].step
        /\ Checkpoint(r).identity = <<opt[r].inputs, opt[r].accumulate>>
    BY DEF Checkpoint, Identity
  <2>2. run[r].model = Uninterrupted(<<opt[r].inputs, opt[r].accumulate>>, run[r].rate, run[r].step)
    BY <1>1 DEF Trained
  <2> QED BY <1>3, <1>9, <2>1, <2>2 DEF Sound
<1>10. CASE /\ At(r, "record") /\ p = opt[r].metrics
            /\ files[p].kind = "metrics" /\ files[p].by = r
            /\ files'[p] = Metrics(r, Append(files[p].rows, Row(r)))
            /\ \/ run'[r] = [run[r] EXCEPT !.pc = "loop", !.done = @ + 1]
               \/ run'[r] = [run[r] EXCEPT !.pc = "cleanup"]
  <2> DEFINE rows == files[p].rows
             new == Append(rows, Row(r))
  <2>1. rows \in Seq(Rows) /\ RowsExact(rows, run[r], opt[r])
    BY <1>1, <1>10, FileParts DEF Sound
  <2>2. RowsExact(new, run'[r], opt[r])
    <3> HIDE DEF rows
    <3> QED BY <1>1, <1>10, <2>1, RowsAppended
  <2>3. files'[p].kind = "metrics" /\ files'[p].by = r /\ files'[p].rows = new
    <3>1. files'[p] = Metrics(r, new)
      BY <1>10
    <3> HIDE DEF new
    <3> QED BY <3>1 DEF Metrics
  <2> HIDE DEF new
  <2> QED BY <1>2, <1>10, <2>2, <2>3 DEF Sound
<1>11. CASE /\ files'[p] = Leftover(r) /\ r \in fault'
            /\ run[r].pc \in {"checkpoint", "exporting"}
            /\ run'[r] = [run[r] EXCEPT !.pc = "cleanup"]
  <2>1. run[r] \in RunState
    BY <1>1, Parts
  <2>2. run[r].result = 1
    BY <1>1, <1>11, <2>1, RunParts DEF Control
  <2>3. run'[r].pc = "cleanup" /\ run'[r].result = 1
    BY <1>11, <2>1, <2>2 DEF RunState
  <2>4. GaveUp(r)'
    BY <1>11, <2>3 DEF GaveUp
  <2> QED BY <1>3, <1>11, <2>4 DEF Sound
<1> QED BY <1>1, <1>4, <1>5, <1>6, <1>7, <1>8, <1>9, <1>10, <1>11 DEF Writes

-----------------------------------------------------------------------------
(* The theorems.                                                           *)

LEMMA InitIInv == Init => IInv
<1> SUFFICES ASSUME Init PROVE IInv
  OBVIOUS
<1>1. /\ opt \in [Runs -> CommandLines] /\ run = [r \in Runs |-> Fresh(opt[r])]
      /\ pipe = [r \in Runs |-> {}] /\ files = [p \in Paths |-> NoFile]
      /\ late = [r \in Runs |-> 0] /\ fault = {}
  BY TrainAssumption DEF Init
<1>2. <<>> \in Seq(Updates) /\ <<>> \in Seq(Inputs \X Nat)
  BY EmptySeq
<1>3. ASSUME NEW r \in Runs PROVE Fresh(opt[r]) \in RunState
  <2>1. opt[r].rate \in Rates
    BY <1>1 DEF CommandLines
  <2> QED BY <1>2, <2>1 DEF Fresh, RunState, Phases
<1>4. NoFile \in Files /\ NoFile.kind = "absent"
  BY DEF Files, NoFile
<1>5. TypeOK
  BY <1>1, <1>3, <1>4 DEF TypeOK
<1>6. ASSUME NEW r \in Runs PROVE OwnInv(r) /\ OwnFiles(r)
  <2>1. run[r] = Fresh(opt[r]) /\ late[r] = 0
    BY <1>1
  <2>2. /\ run[r].pc = "idle" /\ run[r].step = 0 /\ run[r].model = <<>> /\ run[r].reference = 0
        /\ run[r].rate = opt[r].rate /\ run[r].done = 0 /\ run[r].initial /\ ~run[r].stopping
        /\ ~run[r].evalFailed /\ run[r].validated = 0 /\ run[r].result = 1
    BY <2>1 DEF Fresh
  <2>3. /\ opt[r].inputs \in Inputs /\ opt[r].accumulate \in Nat /\ opt[r].rate \in Rates
        /\ opt[r].steps \in Nat
    BY <1>5, Parts
  <2>4. Uninterrupted(<<opt[r].inputs, opt[r].accumulate>>, opt[r].rate, 0) = <<>>
    BY <2>3, UninterruptedNext
  <2>5. Control(run[r], opt[r]) /\ Trained(run[r], opt[r]) /\ Ended(r)
    BY <2>1, <2>2, <2>3, <2>4 DEF Control, Trained, Ended
  <2> QED BY <2>2, <2>5 DEF OwnInv, OwnFiles
<1>7. ASSUME NEW p \in Paths PROVE Sound(p)
  BY <1>1, <1>4 DEF Sound
<1> QED BY <1>5, <1>6, <1>7 DEF IInv

LEMMA IInvStep == ASSUME IInv, NEW r \in Runs, StepOf(r) PROVE IInv'
<1>1. TypeOK /\ (\A q \in Runs : OwnInv(q) /\ OwnFiles(q)) /\ \A p \in Paths : Sound(p)
  BY DEF IInv
<1>2. files' \in [Paths -> Files] /\ \A p \in Paths : Writes(r, p)
  BY <1>1, WritesStep
<1>3. opt' = opt /\ \A q \in Runs \ {r} : /\ run'[q] = run[q] /\ late'[q] = late[q]
                                          /\ pipe'[q] = pipe[q] /\ (q \in fault' <=> q \in fault)
  BY <1>1, OthersUnchanged
<1>4. TypeOK'
  <2>1. run' \in [Runs -> RunState]
    BY <1>1, RunTypeStep
  <2>2. pipe' \in [Runs -> SUBSET {"S", "eof"}] /\ late' \in [Runs -> Nat] /\ fault' \subseteq Runs
    BY <1>1, RestTypeStep
  <2> QED BY <1>1, <1>2, <1>3, <2>1, <2>2 DEF TypeOK
<1>5. ASSUME NEW q \in Runs PROVE OwnInv(q)' /\ OwnFiles(q)'
  <2>1. CASE q = r
    <3>1. Control(run[r], opt[r]) /\ Trained(run[r], opt[r]) /\ Ended(r) /\ OwnFiles(r)
      BY <1>1 DEF OwnInv
    <3>2. Control(run'[r], opt[r])
      BY <1>1, <3>1, ControlStep
    <3>3. Trained(run'[r], opt[r])
      BY <1>1, <3>1, TrainedStep
    <3>4. Ended(r)'
      BY <1>1, <3>1, EndedStep
    <3>5. OwnFiles(r)'
      BY <1>1, <1>2, <3>1, OwnFilesStep
    <3> QED BY <1>3, <2>1, <3>2, <3>3, <3>4, <3>5 DEF OwnInv
  <2>2. CASE q # r
    <3>1. OwnFiles(q)'
      BY <1>1, <1>2, <2>2, OthersFiles
    <3>2. OwnInv(q)'
      BY <1>1, <1>3, <2>2 DEF OwnInv, Ended, StopPending
    <3> QED BY <3>1, <3>2
  <2> QED BY <2>1, <2>2
<1>6. ASSUME NEW p \in Paths PROVE Sound(p)'
  BY <1>2, SoundStep
<1> QED BY <1>4, <1>5, <1>6 DEF IInv

LEMMA NextIInv == IInv /\ [Next]_vars => IInv'
<1>1. IInv /\ UNCHANGED vars => IInv'
  BY DEF IInv, TypeOK, OwnInv, OwnFiles, Sound, Ended, StopPending, Interrupted, GaveUp, At,
         Checkpoint, Identity, Gguf, Partial, vars
<1>2. IInv /\ Next => IInv'
  BY IInvStep, NextIsAStep
<1> QED BY <1>1, <1>2

LEMMA SpecIInv == Spec => []IInv
  BY InitIInv, NextIInv, PTL DEF Spec


\* However training was stopped, killed, failed or resumed, the parameters in
\* memory and in every complete checkpoint are those of one uninterrupted run of
\* as many updates (batch_start, train_update, tr_checkpoint).
THEOREM SpecTrainedInOrder == Spec => []TrainedInOrder
<1>1. IInv => TrainedInOrder
  BY DEF IInv, OwnInv, Trained, Sound, TrainedInOrder, Identity
<1> QED BY <1>1, SpecIInv, PTL

\* The exit status and the files agree: 0 means that everything asked for is
\* complete, 1 that an operation failed, and an incomplete file belongs to a
\* run that writes it, was killed, or failed and could not remove it (main of
\* train_main.c, file.c).
THEOREM SpecOutcomesAreExact == Spec => []OutcomesAreExact
<1>1. ASSUME IInv PROVE SuccessMeansSaved
  <2> SUFFICES ASSUME NEW r \in Runs, At(r, "done")
               PROVE  /\ run[r].result = 0 =>
                           /\ files[opt[r].output] = Gguf(r)
                           /\ opt[r].checkpoint # NoPath =>
                                files[opt[r].checkpoint] = Checkpoint(r)
                           /\ run[r].stopping \/ run[r].done = opt[r].steps
                      /\ run[r].result = 1 => r \in fault
    BY DEF SuccessMeansSaved
  <2>1. OwnFiles(r) /\ Control(run[r], opt[r]) /\ Ended(r)
    BY <1>1 DEF IInv, OwnInv
  <2> QED BY <2>1 DEF OwnFiles, Control, Ended, At
<1>2. ASSUME IInv PROVE PartialsAreInterrupted
  BY <1>2 DEF IInv, Sound, Interrupted, GaveUp, PartialsAreInterrupted
<1>3. IInv => OutcomesAreExact
  BY <1>1, <1>2 DEF OutcomesAreExact, IInv
<1> QED BY <1>3, SpecIInv, PTL

\* The metrics have one row for each update, in order, with a validation loss
\* exactly where an evaluation was due and covered all its records
\* (report_evaluation, the training loop).
THEOREM SpecMetricsAreExact == Spec => []MetricsAreExact
<1>1. ASSUME IInv PROVE MetricsAreExact
  <2> SUFFICES ASSUME NEW p \in Paths, files[p].kind = "metrics",
                      NEW i \in 1 .. Len(files[p].rows)
               PROVE  LET r == files[p].by
                          rows == files[p].rows
                      IN  /\ rows[i].step <= run[r].step
                          /\ i > 1 => rows[i].step = rows[i-1].step + 1
                          /\ rows[i].validated \in {0, opt[r].validation}
                          /\ (/\ opt[r].validation > 0
                              /\ rows[i].step % opt[r].evalEvery = 0
                              /\ rows[i].validated = 0)
                               => i = Len(rows) /\ run[r].stopping
    BY DEF MetricsAreExact
  <2>1. RowsExact(files[p].rows, run[files[p].by], opt[files[p].by])
    BY <1>1 DEF IInv, Sound
  <2> QED BY <2>1 DEF RowsExact, Missing
<1> QED BY <1>1, SpecIInv, PTL

\* After a request to stop at most the update under way is applied
\* (train_control_stop, polled between updates).
THEOREM SpecStopIsPrompt == Spec => []StopIsPrompt
<1>1. IInv => StopIsPrompt
  BY DEF IInv, OwnInv, Ended, StopIsPrompt
<1> QED BY <1>1, SpecIInv, PTL

\* No step of any run changes a complete checkpoint or GGUF file, and only its
\* owner adds to a metrics file (nya_file_create_exclusive, the error paths).
THEOREM SpecCompleteFilesAreKept == Spec => CompleteFilesAreKept
<1> DEFINE Kept == \A p \in Paths :
             /\ files[p].kind \in {"checkpoint", "gguf"} => files'[p] = files[p]
             /\ files[p].kind = "metrics" =>
                  /\ files'[p].kind = "metrics" /\ files'[p].by = files[p].by
                  /\ files'[p] # files[p] => At(files[p].by, "record")
<1>1. ASSUME IInv, NEW r \in Runs, StepOf(r), NEW p \in Paths
      PROVE  /\ files[p].kind \in {"checkpoint", "gguf"} => files'[p] = files[p]
             /\ files[p].kind = "metrics" =>
                  /\ files'[p].kind = "metrics" /\ files'[p].by = files[p].by
                  /\ files'[p] # files[p] => At(files[p].by, "record")
  <2>1. TypeOK /\ OwnFiles(r)
    BY <1>1 DEF IInv
  <2>2. Writes(r, p)
    BY <1>1, <2>1, WritesStep
  <2>3. files[p].kind \in {"checkpoint", "gguf"} => files'[p] = files[p]
    BY <2>1, <2>2, KeptFile
  <2>4. ASSUME files[p].kind = "metrics"
        PROVE  \/ files'[p] = files[p]
               \/ /\ At(r, "record") /\ files[p].by = r
                  /\ files'[p] = Metrics(r, Append(files[p].rows, Row(r)))
    <3>1. NoFile.kind = "absent" /\ Partial(r).kind = "partial"
      BY <2>1, WrittenFiles
    <3> QED BY <2>2, <2>4, <3>1 DEF Writes
  <2>5. \A rows : Metrics(r, rows).kind = "metrics" /\ Metrics(r, rows).by = r
    BY DEF Metrics
  <2> QED BY <2>3, <2>4, <2>5
<1>2. IInv /\ [Next]_vars => [Kept]_vars
  <2>1. IInv /\ Next => Kept
    BY <1>1, NextIsAStep
  <2> QED BY <2>1
<1> QED BY <1>2, SpecIInv, PTL DEF Spec, CompleteFilesAreKept
-----------------------------------------------------------------------------
(* The application: its inductive invariant.                               *)

\* Trainings start in order and only the last can run; the slot holds none or
\* the last one, and what was collected from it is its exit status.
Slots == /\ \A t \in Processes : Running(t) => t = slot
         /\ slot # 0 => /\ proc[slot] # "none"
                        /\ \A t \in Processes : t > slot => proc[t] = "none"
         /\ ExitCodeIsCurrent

\* While "S" is being written nothing else touches the slot.
Writing == main # "idle" => app = "running" /\ slot # 0 /\ ~asked

\* The flag says whether somebody waits, for a trainer that was asked to stop.
\* Whoever waits while the slot is empty finds an exit status.
Waiting ==
  /\ \A v, w \in Waiters : waiter[v] # "none" /\ waiter[w] # "none" => v = w
  /\ exitWaiter <=> \E w \in Waiters : waiter[w] # "none"
  /\ exitWaiter /\ slot # 0 => asked
  /\ exitWaiter /\ slot = 0 => lastExit # NoCode
  /\ \A w \in Waiters : waiter[w] = "read" => slot = 0

AppInv == AppTypeOK /\ Slots /\ Writing /\ Waiting /\ NothingLeftBehind

\* A training that is held has an exit status, which is a number.
LEMMA ExitStatus ==
  ASSUME AppTypeOK, slot # 0
  PROVE  /\ slot \in Processes
         /\ code[slot] \in {0, 1}
         /\ code[slot] # NoCode
<1>1. slot \in Processes
  BY DesktopAssumption DEF AppTypeOK, Processes
<1>2. code[slot] \in {0, 1}
  BY <1>1 DEF AppTypeOK
<1>3. code[slot] # NoCode
  BY <1>2, DesktopAssumption
<1> QED
  BY <1>1, <1>2, <1>3

\* Collecting takes the status of a training that has exited.
LEMMA CollectTypes ==
  ASSUME AppTypeOK, Collect
  PROVE  slot' \in 0 .. Trainings /\ lastExit' \in {NoCode, 0, 1}
<1>1. CASE slot # 0 /\ ~Running(slot)
  BY <1>1, ExitStatus, DesktopAssumption DEF Collect
<1>2. CASE ~(slot # 0 /\ ~Running(slot))
  BY <1>2 DEF Collect, AppTypeOK
<1> QED
  BY <1>1, <1>2

-----------------------------------------------------------------------------
(* One lemma per action.                                                   *)

\* The four steps of the start and the server's own exit do not touch trainings.
LEMMA SpawnServerKeeps ==
  ASSUME AppInv, SpawnServer
  PROVE  AppInv'
<1> USE DesktopAssumption DEF AppInv
<1>1. AppTypeOK'
  BY DEF AppTypeOK, SpawnServer, rest
<1>2. Slots'
  BY DEF Slots, Running, ExitCodeIsCurrent, SpawnServer, rest
<1>3. Writing'
  BY DEF Writing, SpawnServer, rest
<1>4. Waiting'
  BY DEF Waiting, SpawnServer, rest
<1>5. NothingLeftBehind'
  BY DEF NothingLeftBehind, SpawnServer
<1> QED
  BY <1>1, <1>2, <1>3, <1>4, <1>5

LEMMA SpawnFailsKeeps ==
  ASSUME AppInv, SpawnFails
  PROVE  AppInv'
<1> USE DesktopAssumption DEF AppInv
<1>1. AppTypeOK'
  BY DEF AppTypeOK, SpawnFails, rest
<1>2. Slots'
  BY DEF Slots, Running, ExitCodeIsCurrent, SpawnFails, rest
<1>3. Writing'
  BY DEF Writing, SpawnFails, rest
<1>4. Waiting'
  BY DEF Waiting, SpawnFails, rest
<1>5. NothingLeftBehind'
  BY DEF NothingLeftBehind, SpawnFails
<1> QED
  BY <1>1, <1>2, <1>3, <1>4, <1>5

LEMMA HandshakeKeeps ==
  ASSUME AppInv, Handshake
  PROVE  AppInv'
<1> USE DesktopAssumption DEF AppInv
<1>1. AppTypeOK'
  BY DEF AppTypeOK, Handshake, rest
<1>2. Slots'
  BY DEF Slots, Running, ExitCodeIsCurrent, Handshake, rest
<1>3. Writing'
  BY DEF Writing, Handshake, rest
<1>4. Waiting'
  BY DEF Waiting, Handshake, rest
<1>5. NothingLeftBehind'
  BY DEF NothingLeftBehind, Handshake
<1> QED
  BY <1>1, <1>2, <1>3, <1>4, <1>5

LEMMA HandshakeFailsKeeps ==
  ASSUME AppInv, HandshakeFails
  PROVE  AppInv'
<1> USE DesktopAssumption DEF AppInv
<1>1. AppTypeOK'
  BY DEF AppTypeOK, HandshakeFails, rest
<1>2. Slots'
  BY DEF Slots, Running, ExitCodeIsCurrent, HandshakeFails, rest
<1>3. Writing'
  BY DEF Writing, HandshakeFails, rest
<1>4. Waiting'
  BY DEF Waiting, HandshakeFails, rest
<1>5. NothingLeftBehind'
  BY DEF NothingLeftBehind, HandshakeFails
<1> QED
  BY <1>1, <1>2, <1>3, <1>4, <1>5

LEMMA ServerExitsKeeps ==
  ASSUME AppInv, ServerExits
  PROVE  AppInv'
<1> USE DesktopAssumption DEF AppInv
<1>1. AppTypeOK'
  BY DEF AppTypeOK, ServerExits, rest
<1>2. Slots'
  BY DEF Slots, Running, ExitCodeIsCurrent, ServerExits, rest
<1>3. Writing'
  BY DEF Writing, ServerExits, rest
<1>4. Waiting'
  BY DEF Waiting, ServerExits, rest
<1>5. NothingLeftBehind'
  BY DEF NothingLeftBehind, Running, ServerExits, rest
<1> QED
  BY <1>1, <1>2, <1>3, <1>4, <1>5

\* The new training is the last one, nothing ran, and nobody waits.
LEMMA StartTrainingKeeps ==
  ASSUME AppInv, StartTraining
  PROVE  AppInv'
<1> USE DesktopAssumption DEF AppInv
<1>1. AppTypeOK'
  <2>1. PICK t \in Processes : proc' = [proc EXCEPT ![t] = "training"] /\ slot' = t
    BY DEF StartTraining
  <2>2. slot' \in 0 .. Trainings
    BY <2>1 DEF Processes
  <2> QED
    BY <2>1, <2>2 DEF AppTypeOK, StartTraining, life
<1>2. Slots'
  BY DEF AppTypeOK, Slots, Running, ExitCodeIsCurrent, Processes, StartTraining, CanStart, Active
<1>3. Writing'
  BY DEF Writing, StartTraining, CanStart, Ready
<1>4. Waiting'
  BY DEF Waiting, StartTraining, CanStart
<1>5. NothingLeftBehind'
  BY DEF NothingLeftBehind, StartTraining, CanStart, Ready, life
<1> QED
  BY <1>1, <1>2, <1>3, <1>4, <1>5

\* What is collected has exited, and is the last training.
LEMMA TrainingStatusKeeps ==
  ASSUME AppInv, TrainingStatus
  PROVE  AppInv'
<1> USE DesktopAssumption DEF AppInv
<1>1. AppTypeOK'
  BY DEF AppTypeOK, Processes, TrainingStatus, Collect, life, procs
<1>2. Slots'
  BY DEF AppTypeOK, Slots, Running, ExitCodeIsCurrent, Processes, TrainingStatus, Collect, procs
<1>3. Writing'
  BY DEF Writing, TrainingStatus, Ready
<1>4. Waiting'
  BY ExitStatus DEF Waiting, TrainingStatus, Collect
<1>5. NothingLeftBehind'
  BY DEF NothingLeftBehind, TrainingStatus, Ready, life
<1> QED
  BY <1>1, <1>2, <1>3, <1>4, <1>5

\* The byte is asked for when the last training runs and was not asked yet.
LEMMA StopTrainingKeeps ==
  ASSUME AppInv, StopTraining
  PROVE  AppInv'
<1> USE DesktopAssumption DEF AppInv
<1>1. AppTypeOK'
  BY DEF AppTypeOK, StopTraining, AskByte, life, state, procs
<1>2. Slots'
  BY DEF Slots, Running, ExitCodeIsCurrent, StopTraining, state, procs
<1>3. Writing'
  BY DEF Writing, StopTraining, AskByte, Active, Ready, life, state
<1>4. Waiting'
  BY DEF Waiting, StopTraining, state
<1>5. NothingLeftBehind'
  BY DEF NothingLeftBehind, StopTraining, Ready, life
<1> QED
  BY <1>1, <1>2, <1>3, <1>4, <1>5

\* Closing and quitting queue an event and change nothing else.
LEMMA CloseLaterKeeps ==
  ASSUME AppInv, CloseLater
  PROVE  AppInv'
<1> USE DesktopAssumption DEF AppInv
<1>1. AppTypeOK'
  BY DEF AppTypeOK, CloseLater, life, state, procs
<1>2. Slots'
  BY DEF Slots, Running, ExitCodeIsCurrent, CloseLater, state, procs
<1>3. Writing'
  BY DEF Writing, CloseLater, life, state
<1>4. Waiting'
  BY DEF Waiting, CloseLater, state
<1>5. NothingLeftBehind'
  BY DEF NothingLeftBehind, CloseLater, Ready, life
<1> QED
  BY <1>1, <1>2, <1>3, <1>4, <1>5

\* Nothing runs when the window goes.
LEMMA CloseNowKeeps ==
  ASSUME AppInv, CloseNow
  PROVE  AppInv'
<1> USE DesktopAssumption DEF AppInv
<1>1. AppTypeOK'
  <2>1. closes' \in 0 .. MaxCloses /\ exits' \in Nat
    BY DEF AppTypeOK, CloseNow
  <2>2. owed' \in 0 .. Trainings
    BY DEF CloseNow
  <2> QED
    BY <2>1, <2>2, CollectTypes DEF AppTypeOK, CloseNow, procs
<1>2. Slots'
  BY DEF AppTypeOK, Slots, Running, ExitCodeIsCurrent, Processes, CloseNow, Collect, procs
<1>3. Writing'
  BY DEF Writing, CloseNow, Ready
<1>4. Waiting'
  BY ExitStatus DEF Waiting, CloseNow, Collect
<1>5. NothingLeftBehind'
  BY DEF NothingLeftBehind, CloseNow, Ready
<1> QED
  BY <1>1, <1>2, <1>3, <1>4, <1>5

LEMMA QuitKeeps ==
  ASSUME AppInv, Quit
  PROVE  AppInv'
<1> USE DesktopAssumption DEF AppInv
<1>1. AppTypeOK'
  BY DEF AppTypeOK, Quit, life, state, procs
<1>2. Slots'
  BY DEF Slots, Running, ExitCodeIsCurrent, Quit, state, procs
<1>3. Writing'
  BY DEF Writing, Quit, life, state
<1>4. Waiting'
  BY DEF Waiting, Quit, state
<1>5. NothingLeftBehind'
  BY DEF NothingLeftBehind, Quit, life
<1> QED
  BY <1>1, <1>2, <1>3, <1>4, <1>5

\* The exit is prevented while the trainer that was asked still runs.
LEMMA ExitAskedKeeps ==
  ASSUME AppInv, ExitAsked
  PROVE  AppInv'
<1> USE DesktopAssumption DEF AppInv
<1>1. AppTypeOK'
  BY DEF AppTypeOK, ExitAsked, Prevent, procs
<1>2. Slots'
  BY DEF Slots, Running, ExitCodeIsCurrent, ExitAsked, procs
<1>3. Writing'
  BY DEF Writing, ExitAsked
<1>4. Waiting'
  BY DEF AppTypeOK, Waiting, ExitAsked, Active, Prevent
<1>5. NothingLeftBehind'
  BY DEF NothingLeftBehind, ExitAsked, Ready, Prevent
<1> QED
  BY <1>1, <1>2, <1>3, <1>4, <1>5

LEMMA ExitAsksKeeps ==
  ASSUME AppInv, ExitAsks
  PROVE  AppInv'
<1> USE DesktopAssumption DEF AppInv
<1>1. AppTypeOK'
  BY DEF AppTypeOK, ExitAsks, AskByte, life, state, procs
<1>2. Slots'
  BY DEF Slots, Running, ExitCodeIsCurrent, ExitAsks, state, procs
<1>3. Writing'
  BY DEF Writing, ExitAsks, Ready, AskByte, Active, life, state
<1>4. Waiting'
  BY DEF Waiting, ExitAsks, state
<1>5. NothingLeftBehind'
  BY DEF NothingLeftBehind, ExitAsks, Ready, life
<1> QED
  BY <1>1, <1>2, <1>3, <1>4, <1>5

\* The slot is empty or its process has exited, so nothing runs.
LEMMA ExitNowKeeps ==
  ASSUME AppInv, ExitNow
  PROVE  AppInv'
<1> USE DesktopAssumption DEF AppInv
<1>1. AppTypeOK'
  BY DEF AppTypeOK, ExitNow, state, procs
<1>2. Slots'
  BY DEF Slots, Running, ExitCodeIsCurrent, ExitNow, state, procs
<1>3. Writing'
  BY DEF Writing, ExitNow, Ready
<1>4. Waiting'
  BY DEF Waiting, ExitNow, state
<1>5. NothingLeftBehind'
  <2>1. \A t \in Processes : ~Running(t)
    BY DEF Slots, ExitNow, Active, Processes
  <2> QED
    BY <2>1 DEF NothingLeftBehind, Running, ExitNow, procs
<1> QED
  BY <1>1, <1>2, <1>3, <1>4, <1>5

LEMMA ExitDelayedKeeps ==
  ASSUME AppInv, ExitDelayed
  PROVE  AppInv'
<1> USE DesktopAssumption DEF AppInv
<1>1. AppTypeOK'
  BY DEF AppTypeOK, ExitDelayed, life, state, procs
<1>2. Slots'
  BY DEF Slots, Running, ExitCodeIsCurrent, ExitDelayed, state, procs
<1>3. Writing'
  BY DEF Writing, ExitDelayed, life, state
<1>4. Waiting'
  BY DEF Waiting, ExitDelayed, state
<1>5. NothingLeftBehind'
  BY DEF NothingLeftBehind, ExitDelayed, Ready, life
<1> QED
  BY <1>1, <1>2, <1>3, <1>4, <1>5

\* The trainer is asked before anybody waits for it.
LEMMA WriteByteKeeps ==
  ASSUME AppInv, WriteByte
  PROVE  AppInv'
<1> USE DesktopAssumption DEF AppInv
<1>1. AppTypeOK'
  BY DEF AppTypeOK, WriteByte, Prevent
<1>2. Slots'
  BY DEF Slots, Running, ExitCodeIsCurrent, WriteByte
<1>3. Writing'
  BY DEF Writing, WriteByte
<1>4. Waiting'
  BY DEF AppTypeOK, Waiting, Writing, WriteByte, Prevent
<1>5. NothingLeftBehind'
  BY DEF NothingLeftBehind, Writing, WriteByte, Prevent
<1> QED
  BY <1>1, <1>2, <1>3, <1>4, <1>5

\* Only the process in the slot can run, and it has exited.
LEMMA WriteTooLateKeeps ==
  ASSUME AppInv, WriteTooLate
  PROVE  AppInv'
<1> USE DesktopAssumption DEF AppInv
<1>1. AppTypeOK'
  BY DEF AppTypeOK, WriteTooLate, state, procs
<1>2. Slots'
  BY DEF Slots, Running, ExitCodeIsCurrent, WriteTooLate, state, procs
<1>3. Writing'
  BY DEF Writing, WriteTooLate
<1>4. Waiting'
  BY DEF Waiting, WriteTooLate, state
<1>5. NothingLeftBehind'
  BY DEF NothingLeftBehind, Running, Slots, WriteTooLate, procs
<1> QED
  BY <1>1, <1>2, <1>3, <1>4, <1>5

LEMMA WriteFailsKeeps ==
  ASSUME AppInv, WriteFails
  PROVE  AppInv'
<1> USE DesktopAssumption DEF AppInv
<1>1. AppTypeOK'
  BY DEF AppTypeOK, WriteFails, life, state, procs
<1>2. Slots'
  BY DEF Slots, Running, ExitCodeIsCurrent, WriteFails, state, procs
<1>3. Writing'
  BY DEF Writing, WriteFails
<1>4. Waiting'
  BY DEF Waiting, WriteFails, state
<1>5. NothingLeftBehind'
  BY DEF NothingLeftBehind, Writing, WriteFails, life
<1> QED
  BY <1>1, <1>2, <1>3, <1>4, <1>5

\* The slot is empty afterwards, with the status of whoever was in it.
LEMMA WaiterSeesKeeps ==
  ASSUME AppInv, NEW w \in Waiters, WaiterSees(w)
  PROVE  AppInv'
<1> USE DesktopAssumption DEF AppInv
<1>1. AppTypeOK'
  BY DEF AppTypeOK, Processes, WaiterSees, Collect, life, procs
<1>2. Slots'
  BY DEF AppTypeOK, Slots, Running, ExitCodeIsCurrent, Processes, WaiterSees, Collect, procs
<1>3. Writing'
  BY DEF Writing, WaiterSees
<1>4. Waiting'
  <2>1. slot' = 0
    BY DEF WaiterSees, Active, Collect
  <2>2. lastExit' # NoCode
    BY ExitStatus DEF Waiting, WaiterSees, Active, Collect
  <2> QED
    BY <2>1, <2>2 DEF Waiting, WaiterSees
<1>5. NothingLeftBehind'
  BY DEF NothingLeftBehind, Running, WaiterSees, life, procs
<1> QED
  BY <1>1, <1>2, <1>3, <1>4, <1>5

LEMMA WaiterLeavesKeeps ==
  ASSUME AppInv, NEW w \in Waiters, WaiterLeaves(w)
  PROVE  AppInv'
<1> USE DesktopAssumption DEF AppInv
<1>1. AppTypeOK'
  BY DEF AppTypeOK, WaiterLeaves
<1>2. Slots'
  BY DEF Slots, Running, ExitCodeIsCurrent, WaiterLeaves, state, procs
<1>3. Writing'
  BY DEF Writing, WaiterLeaves, life, state
<1>4. Waiting'
  BY DEF Waiting, WaiterLeaves, state
<1>5. NothingLeftBehind'
  BY DEF NothingLeftBehind, Running, WaiterLeaves, life, procs
<1> QED
  BY <1>1, <1>2, <1>3, <1>4, <1>5

\* The one thread that waits clears the flag.
LEMMA WaiterGivesUpKeeps ==
  ASSUME AppInv, NEW w \in Waiters, WaiterGivesUp(w)
  PROVE  AppInv'
<1> USE DesktopAssumption DEF AppInv
<1>1. AppTypeOK'
  <2>1. owed' \in 0 .. Trainings
    BY DEF WaiterGivesUp
  <2> QED
    BY <2>1 DEF AppTypeOK, WaiterGivesUp, life, procs
<1>2. Slots'
  BY DEF Slots, Running, ExitCodeIsCurrent, WaiterGivesUp, procs
<1>3. Writing'
  BY DEF Writing, WaiterGivesUp, life
<1>4. Waiting'
  BY DEF AppTypeOK, Waiting, WaiterGivesUp
<1>5. NothingLeftBehind'
  BY DEF NothingLeftBehind, Running, WaiterGivesUp, life, procs
<1> QED
  BY <1>1, <1>2, <1>3, <1>4, <1>5

\* The last steps touch the server only, which is gone when the application is.
LEMMA SendShutdownKeeps ==
  ASSUME AppInv, SendShutdown
  PROVE  AppInv'
<1> USE DesktopAssumption DEF AppInv
<1>1. AppTypeOK'
  BY DEF AppTypeOK, SendShutdown, quiet
<1>2. Slots'
  BY DEF Slots, Running, ExitCodeIsCurrent, SendShutdown, quiet
<1>3. Writing'
  BY DEF Writing, SendShutdown, quiet
<1>4. Waiting'
  BY DEF Waiting, SendShutdown, quiet
<1>5. NothingLeftBehind'
  BY DEF NothingLeftBehind, Running, SendShutdown, quiet
<1> QED
  BY <1>1, <1>2, <1>3, <1>4, <1>5

LEMMA PollServerKeeps ==
  ASSUME AppInv, PollServer
  PROVE  AppInv'
<1> USE DesktopAssumption DEF AppInv
<1>1. AppTypeOK'
  BY DEF AppTypeOK, PollServer, quiet
<1>2. Slots'
  BY DEF Slots, Running, ExitCodeIsCurrent, PollServer, quiet
<1>3. Writing'
  BY DEF Writing, PollServer, quiet
<1>4. Waiting'
  BY DEF Waiting, PollServer, quiet
<1>5. NothingLeftBehind'
  BY DEF NothingLeftBehind, Running, PollServer, quiet
<1> QED
  BY <1>1, <1>2, <1>3, <1>4, <1>5

LEMMA KillServerKeeps ==
  ASSUME AppInv, KillServer
  PROVE  AppInv'
<1> USE DesktopAssumption DEF AppInv
<1>1. AppTypeOK'
  BY DEF AppTypeOK, KillServer, quiet
<1>2. Slots'
  BY DEF Slots, Running, ExitCodeIsCurrent, KillServer, quiet
<1>3. Writing'
  BY DEF Writing, KillServer, quiet
<1>4. Waiting'
  BY DEF Waiting, KillServer, quiet
<1>5. NothingLeftBehind'
  BY DEF NothingLeftBehind, Running, KillServer, quiet
<1> QED
  BY <1>1, <1>2, <1>3, <1>4, <1>5

LEMMA ServerGoneKeeps ==
  ASSUME AppInv, ServerGone
  PROVE  AppInv'
<1> USE DesktopAssumption DEF AppInv
<1>1. AppTypeOK'
  BY DEF AppTypeOK, ServerGone, quiet
<1>2. Slots'
  BY DEF Slots, Running, ExitCodeIsCurrent, ServerGone, quiet
<1>3. Writing'
  BY DEF Writing, ServerGone, quiet
<1>4. Waiting'
  BY DEF Waiting, ServerGone, quiet
<1>5. NothingLeftBehind'
  BY DEF NothingLeftBehind, Running, ServerGone, quiet
<1> QED
  BY <1>1, <1>2, <1>3, <1>4, <1>5

\* A process in the slot may exit at any time; the slot keeps it.
LEMMA TrainerDoneKeeps ==
  ASSUME AppInv, NEW t \in Processes, TrainerDone(t)
  PROVE  AppInv'
<1> USE DesktopAssumption DEF AppInv
<1>1. AppTypeOK'
  BY DEF AppTypeOK, TrainerDone, others
<1>2. Slots'
  BY DEF Slots, Running, ExitCodeIsCurrent, TrainerDone, others
<1>3. Writing'
  BY DEF Writing, TrainerDone, others
<1>4. Waiting'
  BY DEF Waiting, TrainerDone, others
<1>5. NothingLeftBehind'
  BY DEF NothingLeftBehind, Running, TrainerDone, others
<1> QED
  BY <1>1, <1>2, <1>3, <1>4, <1>5

LEMMA TrainerFailsKeeps ==
  ASSUME AppInv, NEW t \in Processes, TrainerFails(t)
  PROVE  AppInv'
<1> USE DesktopAssumption DEF AppInv
<1>1. AppTypeOK'
  BY DEF AppTypeOK, TrainerFails, others, Exits
<1>2. Slots'
  BY DEF Slots, Running, ExitCodeIsCurrent, Processes, TrainerFails, others, Exits
<1>3. Writing'
  BY DEF Writing, TrainerFails, others
<1>4. Waiting'
  BY DEF Waiting, TrainerFails, others
<1>5. NothingLeftBehind'
  BY DEF NothingLeftBehind, TrainerFails, others
<1> QED
  BY <1>1, <1>2, <1>3, <1>4, <1>5

LEMMA TrainerSavedKeeps ==
  ASSUME AppInv, NEW t \in Processes, TrainerSaved(t)
  PROVE  AppInv'
<1> USE DesktopAssumption DEF AppInv
<1>1. AppTypeOK'
  BY DEF AppTypeOK, TrainerSaved, others, Exits
<1>2. Slots'
  BY DEF Slots, Running, ExitCodeIsCurrent, Processes, TrainerSaved, others, Exits
<1>3. Writing'
  BY DEF Writing, TrainerSaved, others
<1>4. Waiting'
  BY DEF Waiting, TrainerSaved, others
<1>5. NothingLeftBehind'
  BY DEF NothingLeftBehind, Running, TrainerSaved, others
<1> QED
  BY <1>1, <1>2, <1>3, <1>4, <1>5

-----------------------------------------------------------------------------
(* The invariant holds.                                                    *)

LEMMA Initially == AppInit => AppInv
<1> SUFFICES ASSUME AppInit PROVE AppInv
  OBVIOUS
<1> USE DesktopAssumption
<1>1. AppTypeOK
  <2>1. polls \in 0 .. Polls /\ closes \in 0 .. MaxCloses /\ {slot, owed} \subseteq 0 .. Trainings
    BY DEF AppInit
  <2> QED
    BY <2>1 DEF AppInit, AppTypeOK
<1>2. Slots /\ Writing /\ NothingLeftBehind
  BY DEF AppInit, Slots, Writing, NothingLeftBehind, Running, ExitCodeIsCurrent
<1>3. Waiting
  BY DEF AppInit, Waiting
<1> QED
  BY <1>1, <1>2, <1>3 DEF AppInv

LEMMA Stuttering ==
  ASSUME AppInv, UNCHANGED appVars
  PROVE  AppInv'
BY DEF AppInv, AppTypeOK, Slots, Writing, Waiting, NothingLeftBehind, Running, ExitCodeIsCurrent, appVars

LEMMA StepKeeps ==
  ASSUME AppInv, AppNext
  PROVE  AppInv'
<1>1. CASE Startup \/ ServerExits
  BY <1>1, SpawnServerKeeps, SpawnFailsKeeps, HandshakeKeeps, HandshakeFailsKeeps,
     ServerExitsKeeps DEF Startup
<1>2. CASE User
  BY <1>2, StartTrainingKeeps, TrainingStatusKeeps, StopTrainingKeeps, CloseLaterKeeps,
     CloseNowKeeps, QuitKeeps DEF User
<1>3. CASE HandleExit
  BY <1>3, ExitAskedKeeps, ExitAsksKeeps, ExitNowKeeps, ExitDelayedKeeps DEF HandleExit
<1>4. CASE Write
  BY <1>4, WriteByteKeeps, WriteTooLateKeeps, WriteFailsKeeps DEF Write
<1>5. CASE StopBackend
  BY <1>5, SendShutdownKeeps, PollServerKeeps, KillServerKeeps, ServerGoneKeeps DEF StopBackend
<1>6. CASE \E w \in Waiters : Wait(w)
  BY <1>6, WaiterSeesKeeps, WaiterLeavesKeeps, WaiterGivesUpKeeps DEF Wait
<1>7. CASE \E t \in Processes : TrainerDone(t) \/ TrainerFails(t) \/ TrainerSaved(t)
  BY <1>7, TrainerDoneKeeps, TrainerFailsKeeps, TrainerSavedKeeps
<1> QED
  BY <1>1, <1>2, <1>3, <1>4, <1>5, <1>6, <1>7 DEF AppNext

\* The inductive invariant of the application: what the slot, the flag, the
\* waiting thread and the main thread say of one another.
THEOREM AppInvariance == AppSpec => []AppInv
<1>1. AppInit => AppInv
  BY Initially
<1>2. AppInv /\ [AppNext]_appVars => AppInv'
  BY StepKeeps, Stuttering
<1> QED
  BY <1>1, <1>2, PTL DEF AppSpec

-----------------------------------------------------------------------------
(* What it implies.                                                        *)

\* Whatever commands, exits and requests to leave come in which order: at most
\* one trainer runs, the application holds it, and the exit status shown is
\* that of the training started last.
THEOREM TrainersRunAlone == AppSpec => []OneTrainer
<1>1. AppInv => OneTrainer
  BY DEF AppInv, OneTrainer, Slots
<1> QED
  BY <1>1, AppInvariance, PTL

\* The flag exit_waiter is set exactly while one thread waits or has seen that
\* all is saved, and whoever is waited for was asked to stop.
THEOREM WaitersWaitAlone == AppSpec => []OneWaiter
<1> DEFINE busy == {w \in Waiters : waiter[w] # "none"}
<1>1. ASSUME AppInv PROVE Cardinality(busy) <= 1
  <2>1. CASE busy = {}
    BY <2>1, FS_EmptySet
  <2>2. CASE busy # {}
    <3>1. PICK w \in busy : TRUE
      BY <2>2
    <3>2. busy = {w}
      BY <1>1, <3>1 DEF AppInv, Waiting
    <3> QED
      BY <3>2, FS_Singleton
  <2> QED
    BY <2>1, <2>2
<1>2. ASSUME AppInv PROVE OneWaiter
  <2>1. exitWaiter <=> busy # {}
    BY <1>2 DEF AppInv, Waiting
  <2>2. \A w \in Waiters : waiter[w] = "read" => slot = 0 /\ lastExit # NoCode
    BY <1>2 DEF AppInv, Waiting
  <2> QED
    BY <1>1, <1>2, <2>1, <2>2 DEF AppInv, Waiting, OneWaiter
<1> QED
  BY <1>2, AppInvariance, PTL

\* The application never leaves while a trainer runs, and an application that
\* has left or could not start leaves no server behind.
THEOREM LeavesNothingBehind == AppSpec => []NothingLeftBehind
<1>1. AppInv => NothingLeftBehind
  BY DEF AppInv
<1> QED
  BY <1>1, AppInvariance, PTL
=============================================================================
