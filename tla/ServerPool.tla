----------------------------- MODULE ServerPool -----------------------------
(***************************************************************************)
(* The accepting thread, the socket ring and the worker threads of         *)
(* src/backend/core/server.c, from nya_server_workers_init to the frees of *)
(* nya_server_workers_shutdown.  One action per step between two points    *)
(* where another thread can run.  queue_mutex is the variable holder:      *)
(* sections that touch only state the mutex protects are one action that   *)
(* needs it free; sections that also touch the kernel's descriptor table,  *)
(* which other threads use without the mutex, hold it over several steps.  *)
(***************************************************************************)
EXTENDS Integers, FiniteSets

CONSTANTS Conns,          \* connections clients may open in one run (bound)
          Fds,            \* descriptor numbers the kernel hands out (bound)
          NWorkers,       \* server.worker_threads
          QueueCapacity,  \* server.queue_capacity
          NoFd,           \* NYA_INVALID_SOCKET
          Free,           \* a descriptor number that is not open
          Foreign,        \* a descriptor some other component opened
          Listening,      \* the descriptor clients connect to
          Main, Nobody    \* holders of queue_mutex besides the workers

Workers == 1 .. NWorkers
Slots   == 0 .. QueueCapacity - 1

\* nya_config_validate: 1..64 workers, and a ring at least as large.
ASSUME SizesAssumption == /\ NWorkers \in Nat \ {0}
                          /\ QueueCapacity \in Nat \ {0}
                          /\ NWorkers =< QueueCapacity
ASSUME NamesAssumption == /\ NoFd \notin Fds
                          /\ Free \notin Conns
                          /\ Foreign \notin Conns
                          /\ Listening \notin Conns
                          /\ Free # Foreign
                          /\ Listening \notin {Free, Foreign}
                          /\ Main # Nobody
                          /\ Main \notin Workers
                          /\ Nobody \notin Workers

VARIABLES
  queue, head, tail, count,  \* internal->queue and its indices
  shutting_down,             \* internal->shutting_down
  started,                   \* internal->started_threads
  client,                    \* internal->workers[w].client
  stop_requested,            \* server->stop_requested
  listener,                  \* server->socket_handle
  signalled,                 \* *config.external_stop_requested (main.c)
  holder,                    \* owner of queue_mutex
  pc,                        \* where each worker is
  mainpc, index, held,       \* where the accepting thread is, its locals
  table,                     \* the process's descriptors, as the kernel sees them
  ask,                       \* the request each worker has read
  cut,                       \* what shutdown() has been called on
  fate                       \* what became of each connection

ring    == <<queue, head, tail, count>>
control == <<shutting_down, started, stop_requested, signalled, listener>>
mainly  == <<mainpc, index, held>>
vars == <<queue, head, tail, count, shutting_down, started, client,
          stop_requested, signalled, listener, holder, pc, mainpc, index, held,
          table, ask, cut, fate>>

WorkerPC == {"unstarted", "top", "wait", "recv", "handle", "reply", "send",
             "halt", "close", "clear", "exited"}
MainPC   == {"start", "run", "select", "offer", "refuse", "stop", "unlisten",
             "shut", "scan", "drain", "join", "done"}
Fates    == {"new", "open", "sent", "lost", "cut", "busy", "dropped"}

\* Program points at which a worker owns the descriptor in its slot.
InService == {"recv", "handle", "reply", "send", "halt", "close"}

\* Mutant: the ring index is not reduced.
WrapLost(i) == i + 1

\* The next ring position.
Wrap(i) == (i + 1) % QueueCapacity

Init == /\ queue = [i \in Slots |-> NoFd]
        /\ head = 0 /\ tail = 0 /\ count = 0
        /\ shutting_down = FALSE
        /\ started = 0
        /\ client = [w \in Workers |-> NoFd]
        /\ stop_requested = FALSE
        /\ signalled = FALSE
        /\ holder = Nobody
        /\ pc = [w \in Workers |-> "unstarted"]
        /\ mainpc = "start" /\ index = 1 /\ held = NoFd
        /\ listener \in Fds
        /\ table = [d \in Fds |-> IF d = listener THEN Listening ELSE Free]
        /\ ask = [w \in Workers |-> "none"]
        /\ cut = {}
        /\ fate = [c \in Conns |-> "new"]

-----------------------------------------------------------------------------
(* The environment: the console signal handler of main.c, and descriptors  *)
(* the handlers open and close for model files, devices and logs.          *)

Signal == /\ ~ signalled
          /\ signalled' = TRUE
          /\ UNCHANGED <<ring, shutting_down, started, client, stop_requested,
                         listener, holder, pc, mainly, table, ask, cut, fate>>

OtherOpen(d) == /\ table[d] = Free
                /\ table' = [table EXCEPT ![d] = Foreign]
                /\ UNCHANGED <<ring, control, client, holder, pc, mainly, ask, cut, fate>>

OtherClose(d) == /\ table[d] = Foreign
                 /\ table' = [table EXCEPT ![d] = Free]
                 /\ UNCHANGED <<ring, control, client, holder, pc, mainly, ask, cut, fate>>

-----------------------------------------------------------------------------
(* nya_server_workers_init: threads are created one by one; the first      *)
(* failure sends nya_server_init to nya_server_shutdown.                   *)

StartWorker == /\ mainpc = "start"
               /\ started < NWorkers
               /\ started' = started + 1
               /\ pc' = [pc EXCEPT ![started + 1] = "top"]
               /\ UNCHANGED <<ring, shutting_down, client, stop_requested, signalled,
                              listener, holder, mainly, table, ask, cut, fate>>

StartDone == /\ mainpc = "start"
             /\ started = NWorkers
             /\ mainpc' = "run"
             /\ UNCHANGED <<ring, control, client, holder, pc, index, held,
                            table, ask, cut, fate>>

StartFails == /\ mainpc = "start"
              /\ started < NWorkers
              /\ mainpc' = "stop"
              /\ UNCHANGED <<ring, control, client, holder, pc, index, held,
                             table, ask, cut, fate>>

-----------------------------------------------------------------------------
(* nya_server_run                                                          *)

\* The loop condition: either stop flag ends the loop.
RunCheck == /\ mainpc = "run"
            /\ mainpc' = IF stop_requested \/ signalled THEN "stop" ELSE "select"
            /\ UNCHANGED <<ring, control, client, holder, pc, index, held,
                           table, ask, cut, fate>>

\* A timeout, EINTR or a failed accept continues; another error returns -1.
SelectIdle == /\ mainpc = "select"
              /\ mainpc' \in {"run", "stop"}
              /\ UNCHANGED <<ring, control, client, holder, pc, index, held,
                             table, ask, cut, fate>>

\* The kernel gives the connection any descriptor number that is free now.
Accept(c, d) == /\ mainpc = "select"
                /\ fate[c] = "new"
                /\ table[d] = Free
                /\ table' = [table EXCEPT ![d] = c]
                /\ fate' = [fate EXCEPT ![c] = "open"]
                /\ held' = d
                /\ mainpc' = "offer"
                /\ UNCHANGED <<ring, control, client, holder, pc, index, ask, cut>>

ConfigureFails == /\ mainpc = "offer"
                  /\ fate' = [fate EXCEPT ![table[held]] = "dropped"]
                  /\ table' = [table EXCEPT ![held] = Free]
                  /\ held' = NoFd
                  /\ mainpc' = "run"
                  /\ UNCHANGED <<ring, control, client, holder, pc, index, ask, cut>>

Waiting == {w \in Workers : pc[w] = "wait"}

\* Mutant: the accepting thread does not signal.
WakeNone == pc' = pc

\* nya_condition_signal: one waiter, if there is one, runs again.
WakeOne == IF Waiting = {}
             THEN pc' = pc
             ELSE \E w \in Waiting : pc' = [pc EXCEPT ![w] = "top"]

\* Mutant: room is tested with =< instead of <.
OfferOneTooMany == /\ mainpc = "offer"
                   /\ holder = Nobody
                   /\ ~ shutting_down
                   /\ count =< QueueCapacity
                   /\ queue' = [queue EXCEPT ![tail] = held]
                   /\ tail' = Wrap(tail)
                   /\ count' = count + 1
                   /\ WakeOne
                   /\ held' = NoFd
                   /\ mainpc' = "run"
                   /\ UNCHANGED <<head, control, client, holder, index, table, ask,
                                  cut, fate>>

\* nya_server_queue_client, the branch that succeeds.
Offer == /\ mainpc = "offer"
         /\ holder = Nobody
         /\ ~ shutting_down
         /\ count < QueueCapacity
         /\ queue' = [queue EXCEPT ![tail] = held]
         /\ tail' = Wrap(tail)
         /\ count' = count + 1
         /\ WakeOne
         /\ held' = NoFd
         /\ mainpc' = "run"
         /\ UNCHANGED <<head, control, client, holder, index, table, ask, cut, fate>>

\* ... and the branch that fails.
OfferFails == /\ mainpc = "offer"
              /\ holder = Nobody
              /\ shutting_down \/ count >= QueueCapacity
              /\ mainpc' = "refuse"
              /\ UNCHANGED <<ring, control, client, holder, pc, index, held,
                             table, ask, cut, fate>>

\* One best-effort 503, then close.
Refuse == /\ mainpc = "refuse"
          /\ fate' = [fate EXCEPT ![table[held]] = "busy"]
          /\ table' = [table EXCEPT ![held] = Free]
          /\ held' = NoFd
          /\ mainpc' = "run"
          /\ UNCHANGED <<ring, control, client, holder, pc, index, ask, cut>>

-----------------------------------------------------------------------------
(* nya_server_shutdown and nya_server_workers_shutdown                     *)

Stop == /\ mainpc = "stop"
        /\ stop_requested' = TRUE
        /\ mainpc' = "unlisten"
        /\ UNCHANGED <<ring, shutting_down, started, signalled, listener, client, holder,
                       pc, index, held, table, ask, cut, fate>>

\* The port is given up before the workers are: they may still be answering.
CloseListener == /\ mainpc = "unlisten"
                 /\ table' = [table EXCEPT ![listener] = Free]
                 /\ listener' = NoFd
                 /\ mainpc' = "shut"
                 /\ UNCHANGED <<ring, shutting_down, started, stop_requested, signalled,
                                client, holder, pc, index, held, ask, cut, fate>>

ShutLock == /\ mainpc = "shut"
            /\ holder = Nobody
            /\ holder' = Main
            /\ shutting_down' = TRUE
            /\ index' = 1
            /\ mainpc' = "scan"
            /\ UNCHANGED <<ring, started, stop_requested, signalled, listener, client, pc,
                           held, table, ask, cut, fate>>

\* shutdown() acts on whatever the descriptor number denotes at this moment.
Scan == /\ mainpc = "scan"
        /\ index =< started
        /\ cut' = IF client[index] = NoFd THEN cut
                                          ELSE cut \union {table[client[index]]}
        /\ index' = index + 1
        /\ UNCHANGED <<ring, control, client, holder, pc, mainpc, held, table, ask, fate>>

ScanDone == /\ mainpc = "scan"
            /\ index > started
            /\ mainpc' = "drain"
            /\ UNCHANGED <<ring, control, client, holder, pc, index, held,
                           table, ask, cut, fate>>

Drain == /\ mainpc = "drain"
         /\ count > 0
         /\ fate' = [fate EXCEPT ![table[queue[head]]] = "dropped"]
         /\ table' = [table EXCEPT ![queue[head]] = Free]
         /\ head' = Wrap(head)
         /\ count' = count - 1
         /\ UNCHANGED <<queue, tail, control, client, holder, pc, mainly, ask, cut>>

\* Mutant: shutdown signals one worker instead of all.
BroadcastToOne == /\ mainpc = "drain"
                  /\ count = 0
                  /\ WakeOne
                  /\ holder' = Nobody
                  /\ index' = 1
                  /\ mainpc' = "join"
                  /\ UNCHANGED <<ring, control, client, held, table, ask, cut, fate>>

\* nya_condition_broadcast and the unlock.
Broadcast == /\ mainpc = "drain"
             /\ count = 0
             /\ pc' = [w \in Workers |-> IF pc[w] = "wait" THEN "top" ELSE pc[w]]
             /\ holder' = Nobody
             /\ index' = 1
             /\ mainpc' = "join"
             /\ UNCHANGED <<ring, control, client, held, table, ask, cut, fate>>

\* Mutant: the threads are detached instead of joined.
JoinNobody == /\ mainpc = "join"
              /\ index =< started
              /\ index' = index + 1
              /\ UNCHANGED <<ring, control, client, holder, pc, mainpc, held,
                             table, ask, cut, fate>>

\* nya_thread_join returns once that worker has returned.
Join == /\ mainpc = "join"
        /\ index =< started
        /\ pc[index] = "exited"
        /\ index' = index + 1
        /\ UNCHANGED <<ring, control, client, holder, pc, mainpc, held,
                       table, ask, cut, fate>>

\* The mutexes, the condition, the ring and the slots are released here.
Destroy == /\ mainpc = "join"
           /\ index > started
           /\ mainpc' = "done"
           /\ UNCHANGED <<ring, control, client, holder, pc, index, held,
                          table, ask, cut, fate>>

-----------------------------------------------------------------------------
(* nya_server_worker                                                       *)

\* The critical section at the top of the loop, one disjunct per way out.
WorkerExit(w) == /\ pc[w] = "top"
                 /\ holder = Nobody
                 /\ shutting_down
                 /\ pc' = [pc EXCEPT ![w] = "exited"]
                 /\ UNCHANGED <<ring, control, client, holder, mainly, table, ask, cut, fate>>

WorkerWait(w) == /\ pc[w] = "top"
                 /\ holder = Nobody
                 /\ ~ shutting_down
                 /\ count = 0
                 /\ pc' = [pc EXCEPT ![w] = "wait"]
                 /\ UNCHANGED <<ring, control, client, holder, mainly, table, ask, cut, fate>>

\* Mutant: the newest client is taken, from the tail of the ring.
WorkerTakeNewest(w) == LET last == (tail + QueueCapacity - 1) % QueueCapacity
                       IN /\ pc[w] = "top"
                          /\ holder = Nobody
                          /\ ~ shutting_down
                          /\ count > 0
                          /\ client' = [client EXCEPT ![w] = queue[last]]
                          /\ tail' = last
                          /\ count' = count - 1
                          /\ pc' = [pc EXCEPT ![w] = "recv"]
                          /\ UNCHANGED <<queue, head, control, holder, mainly, table,
                                         ask, cut, fate>>

WorkerTake(w) == /\ pc[w] = "top"
                 /\ holder = Nobody
                 /\ ~ shutting_down
                 /\ count > 0
                 /\ client' = [client EXCEPT ![w] = queue[head]]
                 /\ head' = Wrap(head)
                 /\ count' = count - 1
                 /\ pc' = [pc EXCEPT ![w] = "recv"]
                 /\ UNCHANGED <<queue, tail, control, holder, mainly, table, ask, cut, fate>>

\* A condition variable may wake its waiter for no reason.
SpuriousWakeup(w) == /\ pc[w] = "wait"
                     /\ pc' = [pc EXCEPT ![w] = "top"]
                     /\ UNCHANGED <<ring, control, client, holder, mainly, table,
                                    ask, cut, fate>>

\* nya_http_receive succeeds: nya_socket_wait saw no stop request.
Receive(w) == /\ pc[w] = "recv"
              /\ ~ stop_requested
              /\ \E r \in {"work", "shutdown"} : ask' = [ask EXCEPT ![w] = r]
              /\ pc' = [pc EXCEPT ![w] = "handle"]
              /\ UNCHANGED <<ring, control, client, holder, mainly, table, cut, fate>>

\* It fails (deadline, stop, malformed or closed): an error reply is tried.
ReceiveFails(w) == /\ pc[w] = "recv"
                   /\ pc' = [pc EXCEPT ![w] = "reply"]
                   /\ UNCHANGED <<ring, control, client, holder, mainly, table,
                                  ask, cut, fate>>

\* The routed handler computes a response; ModelServing opens this step up.
Handle(w) == /\ pc[w] = "handle"
             /\ pc' = [pc EXCEPT ![w] = "reply"]
             /\ UNCHANGED <<ring, control, client, holder, mainly, table, ask, cut, fate>>

\* nya_http_dispatch: only POST /shutdown goes on to request a stop.
AfterReply(w) == IF ask[w] = "shutdown" THEN "halt" ELSE "close"

Undelivered(w) == IF ask[w] = "none" THEN "lost" ELSE "cut"

\* nya_socket_send_all waits for room first, and gives up once stop is seen.
ReplyWait(w) == /\ pc[w] = "reply"
                /\ IF stop_requested
                     THEN /\ fate' = [fate EXCEPT ![table[client[w]]] = Undelivered(w)]
                          /\ pc' = [pc EXCEPT ![w] = AfterReply(w)]
                     ELSE /\ pc' = [pc EXCEPT ![w] = "send"]
                          /\ fate' = fate
                /\ UNCHANGED <<ring, control, client, holder, mainly, table, ask, cut>>

\* send() fails on an interrupted socket, and may fail on any other.
ReplySend(w) == LET c == table[client[w]]
                IN /\ pc[w] = "send"
                   /\ fate' \in IF c \in cut THEN {[fate EXCEPT ![c] = Undelivered(w)]}
                                ELSE {[fate EXCEPT ![c] = f] : f \in {"sent", "lost"}}
                   /\ pc' = [pc EXCEPT ![w] = AfterReply(w)]
                   /\ UNCHANGED <<ring, control, client, holder, mainly, table, ask, cut>>

\* nya_server_request_stop, whatever became of the reply.
RequestStop(w) == /\ pc[w] = "halt"
                  /\ stop_requested' = TRUE
                  /\ pc' = [pc EXCEPT ![w] = "close"]
                  /\ UNCHANGED <<ring, shutting_down, started, signalled, listener, client,
                                 holder, mainly, table, ask, cut, fate>>

\* Mutant: the descriptor is closed before the mutex is taken.
CloseUnlocked(w) == /\ pc[w] = "close"
                    /\ table' = [table EXCEPT ![client[w]] = Free]
                    /\ pc' = [pc EXCEPT ![w] = "clear"]
                    /\ UNCHANGED <<ring, control, client, holder, mainly, ask, cut, fate>>

\* The descriptor is closed under the mutex, then its slot is cleared.
CloseClient(w) == /\ pc[w] = "close"
                  /\ holder = Nobody
                  /\ holder' = w
                  /\ table' = [table EXCEPT ![client[w]] = Free]
                  /\ pc' = [pc EXCEPT ![w] = "clear"]
                  /\ UNCHANGED <<ring, control, client, mainly, ask, cut, fate>>

ClearClient(w) == /\ pc[w] = "clear"
                  /\ client' = [client EXCEPT ![w] = NoFd]
                  /\ ask' = [ask EXCEPT ![w] = "none"]
                  /\ holder' = Nobody
                  /\ pc' = [pc EXCEPT ![w] = "top"]
                  /\ UNCHANGED <<ring, control, mainly, table, cut, fate>>

-----------------------------------------------------------------------------
MainStep == \/ StartWorker \/ StartDone \/ StartFails
            \/ RunCheck \/ SelectIdle
            \/ \E c \in Conns, d \in Fds : Accept(c, d)
            \/ ConfigureFails \/ Offer \/ OfferFails \/ Refuse
            \/ Stop \/ CloseListener \/ ShutLock \/ Scan \/ ScanDone \/ Drain \/ Broadcast
            \/ Join \/ Destroy

WorkerStep(w) == \/ WorkerExit(w) \/ WorkerWait(w) \/ WorkerTake(w)
                 \/ Receive(w) \/ ReceiveFails(w) \/ Handle(w)
                 \/ ReplyWait(w) \/ ReplySend(w) \/ RequestStop(w)
                 \/ CloseClient(w) \/ ClearClient(w)

Environment == \/ Signal
               \/ \E d \in Fds : OtherOpen(d) \/ OtherClose(d)
               \/ \E w \in Workers : SpuriousWakeup(w)

\* The process leaves main() after nya_server_shutdown.
Terminated == mainpc = "done" /\ UNCHANGED vars

Next == MainStep \/ (\E w \in Workers : WorkerStep(w)) \/ Environment \/ Terminated

Spec == Init /\ [][Next]_vars

(* Every thread is scheduled, a computation ends, and a thread that asks   *)
(* for queue_mutex again and again gets it (strong fairness: the mutex is  *)
(* released between its critical sections).  Socket waits end by their     *)
(* deadline.  Nothing is assumed of clients, signals or spurious wakeups.  *)
Fairness == SF_vars(MainStep) /\ \A w \in Workers : SF_vars(WorkerStep(w))

FairSpec == Spec /\ Fairness

-----------------------------------------------------------------------------
(* Properties                                                              *)

TypeOK ==
  /\ queue \in [Slots -> Fds \union {NoFd}]
  /\ head \in Slots /\ tail \in Slots
  /\ count \in 0 .. QueueCapacity
  /\ shutting_down \in BOOLEAN /\ stop_requested \in BOOLEAN /\ signalled \in BOOLEAN
  /\ started \in 0 .. NWorkers
  /\ client \in [Workers -> Fds \union {NoFd}]
  /\ holder \in Workers \union {Main, Nobody}
  /\ pc \in [Workers -> WorkerPC]
  /\ mainpc \in MainPC
  /\ index \in 1 .. NWorkers + 1
  /\ held \in Fds \union {NoFd}
  /\ listener \in Fds \union {NoFd}
  /\ table \in [Fds -> Conns \union {Free, Foreign, Listening}]
  /\ ask \in [Workers -> {"none", "work", "shutdown"}]
  /\ cut \subseteq Conns \union {Free, Foreign, Listening}
  /\ fate \in [Conns -> Fates]

\* The ring positions that hold a queued client.
OccupiedFrom(h, n) == IF h + n =< QueueCapacity
                        THEN {i \in Slots : h =< i /\ i < h + n}
                        ELSE {i \in Slots : h =< i \/ i < h + n - QueueCapacity}

Occupied == OccupiedFrom(head, count)

Queued    == {queue[i] : i \in Occupied}
Serving   == {w \in Workers : pc[w] \in InService}
InHand    == IF held = NoFd THEN {} ELSE {held}

ClientOwner ==
  /\ \A d \in Queued \union InHand : table[d] \in Conns
  /\ \A w \in Serving : table[client[w]] \in Conns
  /\ \A i, j \in Occupied : i # j => queue[i] # queue[j]
  /\ \A v, w \in Serving : v # w => client[v] # client[w]
  /\ \A w \in Serving : client[w] \notin Queued \union InHand
  /\ Queued \intersect InHand = {}

(* Every descriptor number the pool still owns (in the ring, in a worker's *)
(* slot, in the accepting thread's hand) denotes one live connection, and  *)
(* has one owner: nothing is closed or answered twice, and no request is   *)
(* answered on another client's connection after the number was recycled.  *)
(* The server's own number denotes its listening socket until the shutdown *)
(* closes it.                                                              *)
OneOwner ==
  /\ ClientOwner
  /\ mainpc \in {"start", "run", "select", "offer", "refuse", "stop", "unlisten"}
       => listener # NoFd /\ table[listener] = Listening

(* Shutdown's scan interrupts only connections a worker was serving: never *)
(* a closed descriptor, one another component opened, or a connection that *)
(* still waits for a worker (the comment above nya_server_worker's close). *)
NoStrayInterrupt ==
  \A c \in cut : /\ c \in Conns
                 /\ \A d \in Queued \union InHand : table[d] # c

(* While a client waits in the ring, some worker is awake and will look at *)
(* the ring again; and once shutdown released the mutex nobody sleeps.     *)
NoLostWakeup ==
  /\ count > 0 /\ mainpc # "drain" /\ mainpc # "scan"
       => \E w \in Workers : pc[w] \notin {"unstarted", "wait", "exited"}
  /\ mainpc \in {"join", "done"} => Waiting = {}

(* When the pool's memory and mutexes are released no worker can touch     *)
(* them again, no accepted connection is left open or without a fate, and  *)
(* the listening socket is closed, also when a thread failed to start.     *)
CleanShutdown ==
  mainpc = "done" =>
    /\ \A w \in Workers : pc[w] \in {"unstarted", "exited"}
    /\ holder = Nobody
    /\ \A d \in Fds : table[d] \notin Conns \union {Listening}
    /\ \A c \in Conns : fate[c] # "open"

(* The comment in nya_server_shutdown: "Workers finish active requests".   *)
(* A request that was received whole and whose client is still there would *)
(* never lose its response to the shutdown itself.                         *)
ActiveRequestsFinish == \A c \in Conns : fate[c] # "cut"

(* A queued client is taken by a worker or closed by shutdown, eventually. *)
QueuedIsServed ==
  \A c \in Conns : (c \in {table[d] : d \in Queued}) ~> (c \notin {table[d] : d \in Queued})

(* Once a stop is requested, by a client or by a signal, the shutdown runs *)
(* to its end: every thread is joined, whatever the clients do.            *)
StopTerminates == (stop_requested \/ signalled) ~> (mainpc = "done")

(* The pool the clients see. *)
Pool == INSTANCE ConnPool WITH
          Capacity  <- QueueCapacity,
          line      <- [i \in 1 .. count |-> table[queue[(head + i - 1) % QueueCapacity]]],
          serving   <- {table[client[w]] : w \in Serving},
          accepting <- ~ shutting_down

PoolSpec == Pool!Spec
=============================================================================
