------------------------------ MODULE RowPool -------------------------------
(***************************************************************************)
(* The epoch pool that runs matrix rows on persistent worker threads:      *)
(* nya_train_executor (src/backend/core/train_executor.c) for training and *)
(* the same code in cpu_backend.c for inference.  A caller publishes a job *)
(* by advancing the epoch, computes share 0 itself and returns when every  *)
(* worker has counted itself out.  Workers read the job after they         *)
(* released the mutex, so its fields must not change under them.  Each     *)
(* action is one critical section, or one step between two of them.        *)
(***************************************************************************)
EXTENDS Integers, FiniteSets

CONSTANTS NThreads,    \* worker threads asked for, the caller not counted
          MaxRows,     \* rows of the largest job (bound)
          MaxJobs,     \* jobs of one run (bound)
          EpochCount,  \* values of the epoch counter (2^64 in the code)
          NoJob        \* task == NULL, attention_job == NULL

ASSUME PoolAssumption == /\ NThreads \in Nat
                         /\ MaxRows \in Nat \ {0}
                         /\ MaxJobs \in Nat \ {0}
                         /\ EpochCount \in Nat /\ EpochCount >= 2
                         /\ NoJob \notin 1 .. MaxJobs

Threads == 1 .. NThreads
Jobs    == 1 .. MaxJobs

VARIABLES
  count,          \* worker threads that were created
  epoch, pending, stopping,
  job, rows,      \* the published job: task and argument, or the matrix fields
  seen,           \* each worker's local copy of the epoch
  pc, has, todo,  \* where each worker is, the job it fetched, rows it has left
  callpc, mine,   \* where the caller is, rows of its own share left
  asked,          \* the job the caller is computing now
  hits            \* how often each row of that job has been computed for it

shared == <<count, epoch, pending, stopping>>
fields == <<job, rows>>
worker == <<seen, pc, has, todo>>
caller == <<callpc, mine, asked>>
poolVars == <<count, epoch, pending, stopping, job, rows, seen, pc, has, todo,
              callpc, mine, asked, hits>>

Min2(a, b) == IF a < b THEN a ELSE b

\* Mutant: the remainder is given to the first shares but not skipped after.
BeginNoTail(n, k, parts) == k * (n \div parts)

\* nya_train_partition, and the same expressions in cpu_rows.
ShareBegin(n, k, parts) == k * (n \div parts) + Min2(k, n % parts)
ShareEnd(n, k, parts) ==
  ShareBegin(n, k, parts) + (n \div parts) + (IF k < n % parts THEN 1 ELSE 0)

Share(n, k, parts) == ShareBegin(n, k, parts) .. ShareEnd(n, k, parts) - 1

PoolInit == /\ count = 0
            /\ epoch = 0 /\ pending = 0 /\ stopping = FALSE
            /\ job = NoJob /\ rows = 0
            /\ seen = [t \in Threads |-> 0]
            /\ pc = [t \in Threads |-> "unborn"]
            /\ has = [t \in Threads |-> NoJob]
            /\ todo = [t \in Threads |-> {}]
            /\ callpc = "create" /\ mine = {} /\ asked = 0
            /\ hits = [r \in 0 .. MaxRows - 1 |-> 0]

-----------------------------------------------------------------------------
(* nya_train_executor_create and cpu_create.                               *)

CreateThread == /\ callpc = "create"
                /\ count < NThreads
                /\ count' = count + 1
                /\ pc' = [pc EXCEPT ![count + 1] = "top"]
                /\ UNCHANGED <<epoch, pending, stopping, fields, seen, has, todo,
                               caller, hits>>

\* All threads run; or one failed, and the inference pool works with fewer.
CreateDone == /\ callpc = "create"
              /\ callpc' = "idle"
              /\ UNCHANGED <<shared, fields, worker, mine, asked, hits>>

\* One failed: the training pool frees what it has and reports the failure.
CreateFails == /\ callpc = "create"
               /\ count < NThreads
               /\ callpc' = "close"
               /\ UNCHANGED <<shared, fields, worker, mine, asked, hits>>

-----------------------------------------------------------------------------
(* nya_train_execute; cpu_matmul, cpu_attention and cpu_dispatch.           *)

\* The job's fields are written before the mutex is taken.
Prepare(n) == /\ callpc = "idle"
              /\ asked < MaxJobs
              /\ asked' = asked + 1
              /\ job' = asked + 1
              /\ rows' = n
              /\ hits' = [r \in 0 .. MaxRows - 1 |-> 0]
              /\ callpc' = "dispatch"
              /\ UNCHANGED <<shared, worker, mine>>

\* No worker, or a job too small to be shared: the caller computes it all.
Serial == /\ callpc = "dispatch"
          /\ mine' = Share(rows, 0, 1)
          /\ callpc' = "alone"
          /\ UNCHANGED <<shared, fields, worker, asked, hits>>

\* Mutant: the epoch is published one worker short.
PublishShort == /\ callpc = "dispatch"
                /\ count > 0
                /\ pending' = count - 1
                /\ epoch' = (epoch + 1) % EpochCount
                /\ pc' = [t \in Threads |-> IF pc[t] = "wait" THEN "top" ELSE pc[t]]
                /\ mine' = Share(rows, 0, count + 1)
                /\ callpc' = "own"
                /\ UNCHANGED <<count, stopping, fields, seen, has, todo, asked, hits>>

\* One critical section: pending, epoch, broadcast.
Publish == /\ callpc = "dispatch"
           /\ count > 0
           /\ pending' = count
           /\ epoch' = (epoch + 1) % EpochCount
           /\ pc' = [t \in Threads |-> IF pc[t] = "wait" THEN "top" ELSE pc[t]]
           /\ mine' = Share(rows, 0, count + 1)
           /\ callpc' = "own"
           /\ UNCHANGED <<count, stopping, fields, seen, has, todo, asked, hits>>

Hit(r) == hits' = [hits EXCEPT ![r] = @ + 1]

\* The caller computes a row of its share.
OwnRow(r) == /\ callpc \in {"own", "alone"}
             /\ r \in mine
             /\ mine' = mine \ {r}
             /\ Hit(r)
             /\ UNCHANGED <<shared, fields, worker, callpc, asked>>

OwnDone == /\ callpc \in {"own", "alone"}
           /\ mine = {}
           /\ callpc' = IF callpc = "own" THEN "join" ELSE "done"
           /\ UNCHANGED <<shared, fields, worker, mine, asked, hits>>

\* while (pending) wait: the caller sleeps on its own condition variable.
JoinWait == /\ callpc = "join"
            /\ pending # 0
            /\ callpc' = "asleep"
            /\ UNCHANGED <<shared, fields, worker, mine, asked, hits>>

JoinDone == /\ callpc = "join"
            /\ pending = 0
            /\ callpc' = "done"
            /\ UNCHANGED <<shared, fields, worker, mine, asked, hits>>

\* The call returns; the published fields are cleared.
EndCall == /\ callpc = "done"
           /\ job' = NoJob
           /\ callpc' = "idle"
           /\ UNCHANGED <<shared, rows, worker, mine, asked, hits>>

SpuriousCaller == /\ callpc = "asleep"
                  /\ callpc' = "join"
                  /\ UNCHANGED <<shared, fields, worker, mine, asked, hits>>

-----------------------------------------------------------------------------
(* nya_train_executor_free and cpu_destroy.                                *)

Close == /\ callpc = "idle"
         /\ callpc' = "close"
         /\ UNCHANGED <<shared, fields, worker, mine, asked, hits>>

StopAll == /\ callpc = "close"
           /\ stopping' = TRUE
           /\ pc' = [t \in Threads |-> IF pc[t] = "wait" THEN "top" ELSE pc[t]]
           /\ callpc' = "reap"
           /\ UNCHANGED <<count, epoch, pending, fields, seen, has, todo, mine, asked, hits>>

\* Every thread is joined, then the pool is freed.
Reap == /\ callpc = "reap"
        /\ \A t \in 1 .. count : pc[t] = "exited"
        /\ callpc' = "freed"
        /\ UNCHANGED <<shared, fields, worker, mine, asked, hits>>

-----------------------------------------------------------------------------
(* train_worker_main and cpu_worker.                                       *)

\* Mutant: the worker does not remember the epoch it answers.
LoopForgetful(t) == /\ pc' = [pc EXCEPT ![t] = IF stopping THEN "exited"
                                               ELSE IF epoch = seen[t] THEN "wait" ELSE "fetch"]
                    /\ seen' = seen

\* The loop head: leave, sleep, or answer a new epoch.
Loop(t) == /\ pc' = [pc EXCEPT ![t] = IF stopping THEN "exited"
                                      ELSE IF epoch = seen[t] THEN "wait" ELSE "fetch"]
           /\ seen' = IF stopping THEN seen ELSE [seen EXCEPT ![t] = epoch]

Enter(t) == /\ pc[t] = "top"
            /\ Loop(t)
            /\ UNCHANGED <<shared, fields, has, todo, caller, hits>>

\* task, argument and count are read without the mutex.
Fetch(t) == /\ pc[t] = "fetch"
            /\ has' = [has EXCEPT ![t] = job]
            /\ todo' = [todo EXCEPT ![t] = Share(rows, t, count + 1)]
            /\ pc' = [pc EXCEPT ![t] = "rows"]
            /\ UNCHANGED <<shared, fields, seen, caller, hits>>

WorkerRow(t, r) == /\ pc[t] = "rows"
                   /\ r \in todo[t]
                   /\ todo' = [todo EXCEPT ![t] = @ \ {r}]
                   /\ Hit(r)
                   /\ UNCHANGED <<shared, fields, seen, pc, has, caller>>

\* Mutant: the last worker out does not signal.
CountOutQuietly(t) == /\ pc[t] = "rows"
                      /\ todo[t] = {}
                      /\ pending' = pending - 1
                      /\ callpc' = callpc
                      /\ has' = [has EXCEPT ![t] = NoJob]
                      /\ Loop(t)
                      /\ UNCHANGED <<count, epoch, stopping, fields, todo, mine, asked, hits>>

\* The worker counts itself out; the last one signals.  It still holds the
\* mutex when it is back at the loop head.
CountOut(t) == /\ pc[t] = "rows"
               /\ todo[t] = {}
               /\ pending' = pending - 1
               /\ callpc' = IF pending = 1 /\ callpc = "asleep" THEN "join" ELSE callpc
               /\ has' = [has EXCEPT ![t] = NoJob]
               /\ Loop(t)
               /\ UNCHANGED <<count, epoch, stopping, fields, todo, mine, asked, hits>>

SpuriousWorker(t) == /\ pc[t] = "wait"
                     /\ pc' = [pc EXCEPT ![t] = "top"]
                     /\ UNCHANGED <<shared, fields, seen, has, todo, caller, hits>>

-----------------------------------------------------------------------------
Caller == \/ CreateThread \/ CreateDone \/ CreateFails
          \/ \E n \in 1 .. MaxRows : Prepare(n)
          \/ Serial \/ Publish
          \/ \E r \in 0 .. MaxRows - 1 : OwnRow(r)
          \/ OwnDone \/ JoinWait \/ JoinDone \/ EndCall
          \/ Close \/ StopAll \/ Reap

Worker(t) == \/ Enter(t) \/ Fetch(t)
             \/ \E r \in 0 .. MaxRows - 1 : WorkerRow(t, r)
             \/ CountOut(t)

Spurious == SpuriousCaller \/ \E t \in Threads : SpuriousWorker(t)

Terminated == callpc = "freed" /\ UNCHANGED poolVars

PoolNext == Caller \/ (\E t \in Threads : Worker(t)) \/ Spurious \/ Terminated

RowPoolSpec == PoolInit /\ [][PoolNext]_poolVars

(* Threads are scheduled and a row's arithmetic ends.  No critical section *)
(* lasts longer than one action, so weak fairness is enough.               *)
RowPoolFairSpec == RowPoolSpec /\ WF_poolVars(Caller) /\ \A t \in Threads : WF_poolVars(Worker(t))

-----------------------------------------------------------------------------
(* Properties                                                              *)

CallPC == {"create", "idle", "dispatch", "own", "alone", "join", "asleep", "done",
           "close", "reap", "freed"}

PoolTypeOK == /\ count \in 0 .. NThreads
              /\ epoch \in 0 .. EpochCount - 1
              /\ pending \in 0 .. NThreads
              /\ stopping \in BOOLEAN
              /\ job \in Jobs \union {NoJob}
              /\ rows \in 0 .. MaxRows
              /\ seen \in [Threads -> 0 .. EpochCount - 1]
              /\ pc \in [Threads -> {"unborn", "top", "wait", "fetch", "rows", "exited"}]
              /\ has \in [Threads -> Jobs \union {NoJob}]
              /\ todo \in [Threads -> SUBSET (0 .. MaxRows - 1)]
              /\ callpc \in CallPC
              /\ mine \subseteq 0 .. MaxRows - 1
              /\ asked \in 0 .. MaxJobs
              /\ hits \in [0 .. MaxRows - 1 -> Nat]

Busy == {t \in Threads : pc[t] \in {"fetch", "rows"}}

(* Nobody touches a job outside the caller's parallel section: when the    *)
(* caller prepares, clears or frees the fields, no worker reads them, and  *)
(* a worker always computes the job that the caller waits for.             *)
JobIsPinned ==
  /\ Busy # {} => callpc \in {"own", "join", "asleep"}
  /\ \A t \in Threads : pc[t] = "rows" => has[t] = asked
  /\ callpc = "freed" => \A t \in Threads : pc[t] \in {"unborn", "exited"}

(* When a call returns every row of its job has been computed exactly once, *)
(* and no row ever twice: shares neither overlap nor leave a gap, no worker *)
(* runs a job twice, none is missed when the counter wraps.                 *)
EveryRowOnce ==
  /\ \A r \in 0 .. MaxRows - 1 : hits[r] =< (IF r < rows THEN 1 ELSE 0)
  /\ callpc = "done" => \A r \in 0 .. rows - 1 : hits[r] = 1

(* A dispatched job returns, and freeing the pool ends every thread.        *)
CallsReturn == /\ (callpc = "dispatch") ~> (callpc = "idle")
               /\ (callpc = "close") ~> (callpc = "freed")
=============================================================================
