------------------------------ MODULE Desktop -------------------------------
(***************************************************************************)
(* The desktop application (src/frontend/src-tauri/src/lib.rs): it starts  *)
(* the inference server, starts and stops training processes and must save *)
(* the training under way before it exits.  Commands and window events run *)
(* one at a time on the main thread; trainer processes, the server and the *)
(* thread that waits for a trainer run beside it, so a process may exit    *)
(* between two looks at it.                                                *)
(* Its Init, Next and Spec have names of their own, so that TrainingProofs  *)
(* can extend this module together with TrainRun.                          *)
(***************************************************************************)
EXTENDS Integers, FiniteSets

CONSTANTS Trainings,   \* training processes of one session, in order 1..N
          Waiters,     \* threads the session may start to wait for a trainer
          MaxCloses,   \* how often the user closes or quits (bound)
          Polls,       \* looks at the server before it is killed (20)
          NoCode       \* last_exit == None

ASSUME DesktopAssumption == /\ Trainings \in Nat \ {0}
                            /\ IsFiniteSet(Waiters)
                            /\ MaxCloses \in Nat
                            /\ Polls \in Nat
                            /\ NoCode \notin Int

Processes == 1 .. Trainings

VARIABLES
  app,        \* "starting", "running", "stopping" (RunEvent::Exit), "gone"
              \* or "failed"
  server,     \* the server process
  polls,      \* looks at the server that are left
  window,     \* the window exists
  exits,      \* ExitRequested events that wait for the main thread
  closes,     \* how often the user has closed or quit
  main,       \* "idle", or who asked for the "S" that is being written
  slot,       \* Trainer.child: the process held, 0 for None
  asked,      \* TrainingProcess.stopping of the process held
  lastExit,   \* Trainer.last_exit
  exitWaiter, \* Trainer.exit_waiter
  waiter,     \* where each waiting thread is
  proc,       \* what each training process does
  code,       \* its exit status
  byte,       \* "S" has been written to its pipe
  owed        \* history: the training that was saving when the window was
              \* closed, until its failure is shown, or 0

state == <<slot, asked, lastExit, exitWaiter>>
procs == <<proc, code, byte>>
life == <<app, server, polls, window>>
appVars == <<app, server, polls, window, exits, closes, main, slot, asked,
             lastExit, exitWaiter, waiter, proc, code, byte, owed>>

AppInit == /\ app = "starting" /\ server = "none" /\ polls = Polls
           /\ window = FALSE /\ exits = 0 /\ closes = 0 /\ main = "idle"
           /\ slot = 0 /\ asked = FALSE /\ lastExit = NoCode
           /\ exitWaiter = FALSE
           /\ waiter = [w \in Waiters |-> "none"]
           /\ proc = [t \in Processes |-> "none"]
           /\ code = [t \in Processes |-> 0]
           /\ byte = [t \in Processes |-> FALSE]
           /\ owed = 0

Running(t) == proc[t] \in {"training", "saving"}
Ready == app = "running" /\ main = "idle"

\* The slot holds a process and try_wait says that it has not exited.
Active == slot # 0 /\ Running(slot)

-----------------------------------------------------------------------------
(* setup and spawn_backend.                                                *)

rest == <<exits, closes, main, slot, asked, lastExit, exitWaiter, waiter,
          proc, code, byte, owed, polls>>

SpawnServer == /\ app = "starting" /\ server = "none"
               /\ server' = "up" /\ UNCHANGED <<app, window>> /\ UNCHANGED rest

\* No executable for the server or the trainer, or it cannot be started.
SpawnFails == /\ app = "starting" /\ server = "none"
              /\ app' = "failed" /\ UNCHANGED <<server, window>>
              /\ UNCHANGED rest

\* The FYODOR_READY line with an address and a token arrived in time.
Handshake == /\ app = "starting" /\ server \in {"up", "exited"}
             /\ app' = "running" /\ window' = TRUE /\ UNCHANGED server
             /\ UNCHANGED rest

\* Timeout, a read error or an invalid line: kill and wait.
HandshakeFails == /\ app = "starting" /\ server \in {"up", "exited"}
                  /\ app' = "failed" /\ server' = "exited" /\ UNCHANGED window
                  /\ UNCHANGED rest

\* It crashed, or answered /shutdown.
ServerExits == /\ server \in {"up", "asked"} /\ server' = "exited"
               /\ UNCHANGED <<app, window>> /\ UNCHANGED rest

-----------------------------------------------------------------------------
(* Commands.                                                               *)

\* Mutant: only the closing of the application refuses a second training.
CanStartTwice == Ready /\ window /\ ~exitWaiter

\* start_training: no training is active, and none is being waited for.
CanStart == /\ Ready /\ window
            /\ ~Active
            /\ ~exitWaiter

\* An exited process that nobody looked at is replaced.
StartTraining ==
  /\ CanStart
  /\ \E t \in Processes :
       /\ \A u \in Processes : (u < t) <=> proc[u] # "none"
       /\ proc' = [proc EXCEPT ![t] = "training"]
       /\ slot' = t
  /\ asked' = FALSE /\ lastExit' = NoCode
  /\ UNCHANGED <<exitWaiter, code, byte, exits, closes, main, waiter, owed>>
  /\ UNCHANGED life

\* collect_training_status when try_wait answers: an exited process is reaped.
Collect == IF slot # 0 /\ ~Running(slot)
           THEN slot' = 0 /\ lastExit' = code[slot]
           ELSE UNCHANGED <<slot, lastExit>>

TrainingStatus == /\ Ready /\ window /\ Collect
                  /\ UNCHANGED <<asked, exitWaiter, exits, closes, main,
                                 waiter, owed>>
                  /\ UNCHANGED life /\ UNCHANGED procs

\* request_training_stop up to the write, which is only needed once.
AskByte(who) == /\ Active /\ ~asked
                /\ main' = who

StopTraining == /\ Ready /\ window /\ AskByte("command")
                /\ UNCHANGED <<exits, closes, waiter, owed>>
                /\ UNCHANGED life /\ UNCHANGED state /\ UNCHANGED procs

-----------------------------------------------------------------------------
(* Closing the window and leaving.                                         *)

\* CloseRequested while a trainer runs, or cannot be observed: the window
\* stays and exit(0) asks for ExitRequested.
CloseLater ==
  /\ Ready /\ window /\ closes < MaxCloses /\ slot # 0
  /\ closes' = closes + 1 /\ exits' = exits + 1
  /\ owed' = IF proc[slot] = "saving" THEN slot ELSE owed
  /\ UNCHANGED <<main, waiter>>
  /\ UNCHANGED life /\ UNCHANGED state /\ UNCHANGED procs

\* CloseRequested otherwise: closing the last window asks for ExitRequested.
CloseNow ==
  /\ Ready /\ window /\ closes < MaxCloses
  /\ ~Active
  /\ closes' = closes + 1 /\ exits' = exits + 1 /\ window' = FALSE
  /\ Collect
  /\ owed' = 0
  /\ UNCHANGED <<app, server, polls, main, asked, exitWaiter, waiter>>
  /\ UNCHANGED procs

\* The application menu or the system asks to quit.
Quit == /\ app = "running" /\ closes < MaxCloses
        /\ closes' = closes + 1 /\ exits' = exits + 1
        /\ UNCHANGED <<main, waiter, owed>>
        /\ UNCHANGED life /\ UNCHANGED state /\ UNCHANGED procs

\* Mutant: every request to leave starts a thread that waits.
PreventAlways ==
  /\ exitWaiter' = TRUE
  /\ \E w \in Waiters : /\ waiter[w] = "none"
                        /\ waiter' = [waiter EXCEPT ![w] = "loop"]
  /\ UNCHANGED app

\* Ok(true): prevent_exit, and one thread waits for the trainer.
Prevent == /\ exitWaiter' = TRUE
           /\ IF exitWaiter THEN UNCHANGED waiter
              ELSE \E w \in Waiters :
                     /\ waiter[w] = "none"
                     /\ waiter' = [waiter EXCEPT ![w] = "loop"]
           /\ UNCHANGED app

\* ExitRequested, when the trainer has already been asked to stop.
ExitAsked == /\ Ready /\ exits > 0
             /\ Active /\ asked
             /\ exits' = exits - 1 /\ Prevent
             /\ UNCHANGED <<server, polls, window, closes, main, slot, asked,
                            lastExit, owed>>
             /\ UNCHANGED procs

\* ExitRequested, when it has not: the byte is written next.
ExitAsks == /\ Ready /\ exits > 0 /\ AskByte("exit")
            /\ exits' = exits - 1
            /\ UNCHANGED <<closes, waiter, owed>>
            /\ UNCHANGED life /\ UNCHANGED state /\ UNCHANGED procs

\* Ok(false): there is no trainer or it has exited; RunEvent::Exit follows.
ExitNow == /\ Ready /\ exits > 0
           /\ ~Active
           /\ exits' = exits - 1 /\ app' = "stopping"
           /\ UNCHANGED <<server, polls, window, closes, main, waiter, owed>>
           /\ UNCHANGED state /\ UNCHANGED procs

\* Err: the trainer cannot be observed; "close delayed" is logged.
ExitDelayed == /\ Ready /\ exits > 0 /\ slot # 0
               /\ exits' = exits - 1 /\ owed' = 0
               /\ UNCHANGED <<closes, main, waiter>>
               /\ UNCHANGED life /\ UNCHANGED state /\ UNCHANGED procs

-----------------------------------------------------------------------------
(* The write of "S", with the mutex of the slot held.                      *)

\* The pipe takes the byte.  Its reader may have exited since try_wait, but
\* then the write fails.
WriteByte ==
  /\ main # "idle" /\ Running(slot)
  /\ main' = "idle" /\ asked' = TRUE
  /\ byte' = [byte EXCEPT ![slot] = TRUE]
  /\ IF main = "exit" THEN Prevent ELSE UNCHANGED <<exitWaiter, waiter, app>>
  /\ UNCHANGED <<server, polls, window, exits, closes, slot, lastExit, proc,
                 code, owed>>

\* The trainer exited in between: Ok(false), as if it had not been there.
WriteTooLate ==
  /\ main # "idle" /\ ~Running(slot)
  /\ main' = "idle"
  /\ app' = IF main = "exit" THEN "stopping" ELSE app
  /\ UNCHANGED <<server, polls, window, exits, closes, waiter, owed>>
  /\ UNCHANGED state /\ UNCHANGED procs

\* Mutant: any failed write counts as a trainer that has exited.
WriteFailsLeaving ==
  /\ main # "idle"
  /\ main' = "idle"
  /\ app' = IF main = "exit" THEN "stopping" ELSE app
  /\ UNCHANGED <<server, polls, window, exits, closes, waiter, owed>>
  /\ UNCHANGED state /\ UNCHANGED procs

\* The write fails and the process has not exited, or cannot be observed.
WriteFails == /\ main # "idle"
              /\ main' = "idle"
              /\ owed' = IF main = "exit" THEN 0 ELSE owed
              /\ UNCHANGED <<exits, closes, waiter>>
              /\ UNCHANGED life /\ UNCHANGED state /\ UNCHANGED procs

-----------------------------------------------------------------------------
(* The waiting thread; it needs the mutex of the slot to look.             *)

\* The loop ends when the process has exited, whoever reaped it.
WaiterSees(w) == /\ waiter[w] = "loop" /\ main = "idle" /\ app # "gone"
                 /\ ~Active
                 /\ Collect
                 /\ waiter' = [waiter EXCEPT ![w] = "read"]
                 /\ UNCHANGED <<asked, exitWaiter, exits, closes, main, owed>>
                 /\ UNCHANGED life /\ UNCHANGED procs

\* Saved: exit(0) asks for ExitRequested again, and nothing can be started.
WaiterLeaves(w) == /\ waiter[w] = "read" /\ lastExit = 0 /\ app # "gone"
                   /\ exits' = exits + 1
                   /\ waiter' = [waiter EXCEPT ![w] = "end"]
                   /\ UNCHANGED <<closes, main, owed>>
                   /\ UNCHANGED life /\ UNCHANGED state /\ UNCHANGED procs

\* Mutant: after a failure the flag is not cleared.
WaiterGivesUpQuietly(w) ==
  /\ waiter[w] = "read" /\ lastExit # 0
  /\ waiter' = [waiter EXCEPT ![w] = "none"]
  /\ UNCHANGED <<closes, main, exits, owed>>
  /\ UNCHANGED life /\ UNCHANGED state /\ UNCHANGED procs

\* Not saved: the application stays open and shows the log.
WaiterGivesUp(w) == /\ waiter[w] = "read" /\ lastExit # 0 /\ app # "gone"
                    /\ exitWaiter' = FALSE
                    /\ waiter' = [waiter EXCEPT ![w] = "none"]
                    /\ owed' = 0
                    /\ UNCHANGED <<closes, main, exits, slot, asked, lastExit>>
                    /\ UNCHANGED life /\ UNCHANGED procs

-----------------------------------------------------------------------------
(* The training processes, as TrainRun describes them: they save when they *)
(* are done or when they were asked, or fail; they exit with 0 if saved.   *)

Exits(t, status) == /\ proc' = [proc EXCEPT ![t] = "exited"]
                    /\ code' = [code EXCEPT ![t] = status]
                    /\ UNCHANGED byte

others == <<app, server, polls, window, exits, closes, main, slot, asked,
            lastExit, exitWaiter, waiter, owed>>

TrainerDone(t) == /\ proc[t] = "training"
                  /\ proc' = [proc EXCEPT ![t] = "saving"]
                  /\ UNCHANGED <<code, byte>> /\ UNCHANGED others

TrainerStops(t) == byte[t] /\ TrainerDone(t)

\* Any status but 0 is 1 here; a process killed by a signal has status -1.
TrainerFails(t) == Running(t) /\ Exits(t, 1) /\ UNCHANGED others

TrainerSaved(t) == proc[t] = "saving" /\ Exits(t, 0) /\ UNCHANGED others

\* A process that has begun to save exits.
TrainerEnds(t) == proc[t] = "saving" /\ (TrainerFails(t) \/ TrainerSaved(t))

-----------------------------------------------------------------------------
(* stop_backend, run by RunEvent::Exit.                                    *)

quiet == <<exits, closes, main, slot, asked, lastExit, exitWaiter, waiter,
           proc, code, byte, owed, window>>

\* POST /shutdown, unless it cannot be delivered.
SendShutdown == /\ app = "stopping" /\ server = "up" /\ polls = Polls
                /\ server' = "asked" /\ UNCHANGED <<app, polls>>
                /\ UNCHANGED quiet

PollServer == /\ app = "stopping" /\ server # "exited" /\ polls > 0
              /\ polls' = polls - 1 /\ UNCHANGED <<app, server>>
              /\ UNCHANGED quiet

KillServer == /\ app = "stopping" /\ server # "exited" /\ polls = 0
              /\ server' = "exited" /\ app' = "gone" /\ UNCHANGED polls
              /\ UNCHANGED quiet

ServerGone == /\ app = "stopping" /\ server = "exited"
              /\ app' = "gone" /\ UNCHANGED <<server, polls>>
              /\ UNCHANGED quiet

-----------------------------------------------------------------------------
Startup == SpawnServer \/ SpawnFails \/ Handshake \/ HandshakeFails
User == StartTraining \/ TrainingStatus \/ StopTraining
        \/ CloseLater \/ CloseNow \/ Quit
HandleExit == ExitAsked \/ ExitAsks \/ ExitNow \/ ExitDelayed
Write == WriteByte \/ WriteTooLate \/ WriteFails
Wait(w) == WaiterSees(w) \/ WaiterLeaves(w) \/ WaiterGivesUp(w)
StopBackend == SendShutdown \/ PollServer \/ KillServer \/ ServerGone

AppNext == \/ Startup \/ User \/ HandleExit \/ Write \/ StopBackend
           \/ ServerExits
           \/ \E w \in Waiters : Wait(w)
           \/ \E t \in Processes : \/ TrainerDone(t) \/ TrainerFails(t)
                                   \/ TrainerSaved(t)

AppSpec == AppInit /\ [][AppNext]_appVars

\* The main thread takes every queued event in its turn, between commands
\* (hence strong fairness), and the waiting thread keeps running.  A trainer that was
\* asked to stop does so and ends (RunsEnd of TrainRun); one that was not may
\* train for ever.
AppFairSpec == /\ AppSpec
               /\ SF_appVars(HandleExit) /\ WF_appVars(Write) /\ WF_appVars(StopBackend)
               /\ \A w \in Waiters : WF_appVars(Wait(w))
               /\ \A t \in Processes :
                    /\ WF_appVars(TrainerStops(t))
                    /\ WF_appVars(TrainerEnds(t))

-----------------------------------------------------------------------------
(* Properties.                                                             *)

\* Every variable keeps its type: the look counter ends at 0, the slot names a
\* started process and an exit status is 0 or 1.
AppTypeOK ==
  /\ app \in {"starting", "running", "stopping", "gone", "failed"}
  /\ server \in {"none", "up", "asked", "exited"}
  /\ polls \in 0 .. Polls /\ window \in BOOLEAN
  /\ exits \in Nat /\ closes \in 0 .. MaxCloses
  /\ main \in {"idle", "command", "exit"}
  /\ slot \in 0 .. Trainings /\ asked \in BOOLEAN
  /\ lastExit \in {NoCode, 0, 1} /\ exitWaiter \in BOOLEAN
  /\ waiter \in [Waiters -> {"none", "loop", "read", "end"}]
  /\ proc \in [Processes -> {"none", "training", "saving", "exited"}]
  /\ code \in [Processes -> {0, 1}]
  /\ byte \in [Processes -> BOOLEAN]
  /\ owed \in 0 .. Trainings

\* exit_waiter is set exactly while one thread waits, or after it saw that
\* everything was saved; while it is set the trainer waited for was asked to
\* stop, so that the wait ends, and nothing new can be started.
OneWaiter ==
  LET busy == {w \in Waiters : waiter[w] # "none"} IN
    /\ Cardinality(busy) <= 1
    /\ exitWaiter <=> busy # {}
    /\ exitWaiter /\ slot # 0 => asked
    /\ \A w \in Waiters : waiter[w] = "read" => slot = 0 /\ lastExit # NoCode

\* The exit status shown is that of the training started last.
ExitCodeIsCurrent ==
  slot = 0 => \A t \in Processes :
    (/\ proc[t] # "none"
     /\ \A u \in Processes : u > t => proc[u] = "none")
      => lastExit = code[t]

\* At most one trainer runs, the application still holds it, and once it is
\* gone the exit status shown is its own.
OneTrainer == /\ AppTypeOK
              /\ \A t \in Processes : Running(t) => t = slot
              /\ ExitCodeIsCurrent

\* The application never leaves while a trainer runs, and one that left, or
\* could not start, leaves no server behind.
NothingLeftBehind ==
  /\ app \in {"stopping", "gone"} => \A t \in Processes : ~Running(t)
  /\ app \in {"gone", "failed"} => server \in {"none", "exited"}

\* A request to leave is answered: the application leaves, or it stays open
\* with nobody waiting, so that a training can be started again.
LeavingEnds ==
  exits > 0 ~> app = "gone" \/ (exits = 0 /\ main = "idle" /\ ~exitWaiter)

\* "A failed training save keeps the window open with the error log"
\* (frontend/README.md): once the window was asked to close while a trainer
\* saved, the application leaves only if that save succeeded.
FailedSaveKeepsWindow ==
  app = "stopping" /\ owed # 0 => code[owed] = 0
=============================================================================
