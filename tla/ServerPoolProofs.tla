-------------------------- MODULE ServerPoolProofs --------------------------
(***************************************************************************)
(* Theorems about ServerPool, for every number of workers, every ring size *)
(* at least as large, every set of connections and of descriptor numbers.  *)
(***************************************************************************)
EXTENDS ServerPool, TLAPS, SequenceTheorems, FiniteSetTheorems

-----------------------------------------------------------------------------
(* The inductive invariant.                                                *)

TailInv == tail = IF head + count < QueueCapacity THEN head + count
                                                  ELSE head + count - QueueCapacity

\* Where each thread is, and what that says of the flags they share.
HolderInv == /\ holder = Main <=> mainpc \in {"scan", "drain"}
             /\ \A w \in Workers : holder = w <=> pc[w] = "clear"

StartInv == /\ \A w \in Workers : pc[w] = "unstarted" <=> w > started
            /\ mainpc \in {"run", "select", "offer", "refuse"} => started = NWorkers
            /\ count > 0 => started > 0

StopInv == /\ shutting_down <=> mainpc \in {"scan", "drain", "join", "done"}
           /\ \A w \in Workers : pc[w] = "exited" => shutting_down
           /\ mainpc \in {"join", "done"} => count = 0
           /\ mainpc = "join" => /\ index =< started + 1
                                 /\ \A w \in Workers : w < index => pc[w] = "exited"
           /\ mainpc = "done" => \A w \in Workers : pc[w] \in {"unstarted", "exited"}

HeldInv == held # NoFd <=> mainpc \in {"offer", "refuse"}

ControlInv == TailInv /\ HolderInv /\ StartInv /\ StopInv /\ HeldInv /\ NoLostWakeup

\* Who owns which descriptor, and what the kernel's table says of it.
ClientInv == \A w \in Workers : client[w] # NoFd <=> pc[w] \in InService \union {"clear"}

LiveOwned == \A d \in Fds : table[d] \in Conns =>
               \/ d \in Queued \union InHand
               \/ \E w \in Serving : client[w] = d

OneDescriptor == \A d, e \in Fds : table[d] \in Conns /\ table[d] = table[e] => d = e

FateInv == /\ \A c \in Conns : fate[c] = "new" => c \notin cut /\ \A d \in Fds : table[d] # c
           /\ \A c \in Conns : fate[c] = "open" => \E d \in Fds : table[d] = c
           /\ \A w \in Serving : pc[w] \in {"halt", "close"} => fate[table[client[w]]] # "open"

OwnInv == /\ Queued \subseteq Fds
          /\ ClientInv /\ ClientOwner /\ LiveOwned /\ OneDescriptor /\ FateInv
          /\ NoStrayInterrupt

\* The listening socket is open until the shutdown closes it, and no other
\* number is taken for it.
ListenInv ==
  /\ listener # NoFd <=> mainpc \in {"start", "run", "select", "offer", "refuse", "stop",
                                    "unlisten"}
  /\ listener # NoFd => table[listener] = Listening
  /\ \A d \in Fds : table[d] = Listening => d = listener

IInv == TypeOK /\ ControlInv /\ OwnInv /\ ListenInv

-----------------------------------------------------------------------------
(* Ring arithmetic.                                                        *)

\* The modulus of the source is a comparison on ring positions.
LEMMA WrapStep ==
  ASSUME NEW i \in Slots
  PROVE  /\ Wrap(i) \in Slots
         /\ Wrap(i) = IF i + 1 = QueueCapacity THEN 0 ELSE i + 1
  BY SizesAssumption, SMT DEF Wrap, Slots

\* Enqueueing at the tail occupies one more position, one that was free.
LEMMA OccupyTail ==
  ASSUME NEW h \in Slots, NEW n \in 0 .. QueueCapacity, n < QueueCapacity,
         NEW t, t = IF h + n < QueueCapacity THEN h + n ELSE h + n - QueueCapacity
  PROVE  /\ t \in Slots
         /\ t \notin OccupiedFrom(h, n)
         /\ OccupiedFrom(h, n + 1) = OccupiedFrom(h, n) \union {t}
         /\ Wrap(t) = IF h + (n + 1) < QueueCapacity THEN h + (n + 1)
                                                     ELSE h + (n + 1) - QueueCapacity
<1>1. t \in Slots
  BY SizesAssumption DEF Slots
<1>2. t \notin OccupiedFrom(h, n)
  BY SizesAssumption DEF Slots, OccupiedFrom
<1>3. ASSUME NEW i \in Slots
      PROVE  i \in OccupiedFrom(h, n + 1) <=> i \in OccupiedFrom(h, n) \union {t}
  BY SizesAssumption DEF Slots, OccupiedFrom
<1>4. /\ OccupiedFrom(h, n + 1) \subseteq Slots
      /\ OccupiedFrom(h, n) \subseteq Slots
  BY DEF OccupiedFrom
<1>5. OccupiedFrom(h, n + 1) = OccupiedFrom(h, n) \union {t}
  BY <1>1, <1>3, <1>4
<1>6. Wrap(t) = IF h + (n + 1) < QueueCapacity THEN h + (n + 1)
                                              ELSE h + (n + 1) - QueueCapacity
  BY <1>1, WrapStep, SizesAssumption DEF Slots
<1> QED
  BY <1>1, <1>2, <1>5, <1>6

\* Dequeueing frees the head and nothing else.
LEMMA VacateHead ==
  ASSUME NEW h \in Slots, NEW n \in 0 .. QueueCapacity, n > 0
  PROVE  /\ h \in OccupiedFrom(h, n)
         /\ OccupiedFrom(Wrap(h), n - 1) = OccupiedFrom(h, n) \ {h}
         /\ LET t == IF h + n < QueueCapacity THEN h + n ELSE h + n - QueueCapacity
            IN  t = IF Wrap(h) + (n - 1) < QueueCapacity
                      THEN Wrap(h) + (n - 1) ELSE Wrap(h) + (n - 1) - QueueCapacity
<1>1. h \in OccupiedFrom(h, n)
  BY SizesAssumption DEF Slots, OccupiedFrom
<1>2. ASSUME NEW i \in Slots
      PROVE  i \in OccupiedFrom(Wrap(h), n - 1) <=> i \in OccupiedFrom(h, n) \ {h}
  BY WrapStep, SizesAssumption DEF Slots, OccupiedFrom
<1>3. /\ OccupiedFrom(Wrap(h), n - 1) \subseteq Slots
      /\ OccupiedFrom(h, n) \subseteq Slots
  BY DEF OccupiedFrom
<1>4. OccupiedFrom(Wrap(h), n - 1) = OccupiedFrom(h, n) \ {h}
  BY <1>2, <1>3
<1> QED
  BY <1>1, <1>4, WrapStep, SizesAssumption DEF Slots

-----------------------------------------------------------------------------
(* Types.                                                                  *)

LEMMA TypeInit == Init => TypeOK
<1> SUFFICES ASSUME Init PROVE TypeOK
  OBVIOUS
<1>1. head \in Slots /\ tail \in Slots /\ count \in 0 .. QueueCapacity
  BY SizesAssumption DEF Init, Slots
<1>2. started \in 0 .. NWorkers /\ index \in 1 .. NWorkers + 1
  BY SizesAssumption DEF Init
<1>3. pc \in [Workers -> WorkerPC] /\ mainpc \in MainPC /\ fate \in [Conns -> Fates]
  BY DEF Init, WorkerPC, MainPC, Fates
<1> QED
  BY <1>1, <1>2, <1>3 DEF Init, TypeOK

LEMMA TypeMain == ASSUME TypeOK, MainStep PROVE TypeOK'
<1> USE SizesAssumption, WrapStep
<1> USE DEF TypeOK, ring, control, mainly, WorkerPC, MainPC, Fates
<1>1. CASE StartWorker BY <1>1 DEF StartWorker, Workers
<1>2. CASE StartDone BY <1>2 DEF StartDone
<1>3. CASE StartFails BY <1>3 DEF StartFails
<1>4. CASE RunCheck BY <1>4 DEF RunCheck
<1>5. CASE SelectIdle BY <1>5 DEF SelectIdle
<1>6. ASSUME NEW c \in Conns, NEW d \in Fds, Accept(c, d) PROVE TypeOK'
  BY <1>6 DEF Accept
<1>7. CASE ConfigureFails BY <1>7 DEF ConfigureFails
<1>8. CASE Offer BY <1>8 DEF Offer, WakeOne, Waiting
<1>9. CASE OfferFails BY <1>9 DEF OfferFails
<1>10. CASE Refuse BY <1>10 DEF Refuse
<1>11. CASE Stop BY <1>11 DEF Stop
<1>12. CASE ShutLock BY <1>12 DEF ShutLock
<1>13. CASE Scan BY <1>13 DEF Scan, Workers
<1>14. CASE ScanDone BY <1>14 DEF ScanDone
<1>15. CASE Drain
  <2>1. head' \in Slots /\ count' \in 0 .. QueueCapacity
    BY <1>15 DEF Drain
  <2>2. table' \in [Fds -> Conns \union {Free, Foreign, Listening}]
    BY <1>15 DEF Drain
  <2>3. fate' \in [Conns -> Fates]
    BY <1>15 DEF Drain
  <2> QED
    BY <1>15, <2>1, <2>2, <2>3 DEF Drain
<1>16. CASE Broadcast BY <1>16 DEF Broadcast
<1>17. CASE Join BY <1>17 DEF Join
<1>18. CASE Destroy BY <1>18 DEF Destroy
<1>19. CASE CloseListener BY <1>19 DEF CloseListener
<1> QED
  BY <1>1, <1>2, <1>3, <1>4, <1>5, <1>6, <1>7, <1>8, <1>9, <1>10, <1>11, <1>12,
     <1>13, <1>14, <1>15, <1>16, <1>17, <1>18, <1>19 DEF MainStep

LEMMA TypeWorker == ASSUME TypeOK, NEW w \in Workers, WorkerStep(w) PROVE TypeOK'
<1> USE SizesAssumption, WrapStep
<1> USE DEF TypeOK, ring, control, mainly, WorkerPC, MainPC, Fates
<1>1. CASE WorkerExit(w) BY <1>1 DEF WorkerExit
<1>2. CASE WorkerWait(w) BY <1>2 DEF WorkerWait
<1>3. CASE WorkerTake(w) BY <1>3 DEF WorkerTake
<1>4. CASE Receive(w) BY <1>4 DEF Receive
<1>5. CASE ReceiveFails(w) BY <1>5 DEF ReceiveFails
<1>6. CASE Handle(w) BY <1>6 DEF Handle
<1>7. CASE ReplyWait(w) BY <1>7 DEF ReplyWait, AfterReply, Undelivered
<1>8. CASE ReplySend(w) BY <1>8 DEF ReplySend, AfterReply, Undelivered
<1>9. CASE RequestStop(w) BY <1>9 DEF RequestStop
<1>10. CASE CloseClient(w) BY <1>10 DEF CloseClient
<1>11. CASE ClearClient(w) BY <1>11 DEF ClearClient
<1> QED
  BY <1>1, <1>2, <1>3, <1>4, <1>5, <1>6, <1>7, <1>8, <1>9, <1>10, <1>11 DEF WorkerStep

LEMMA TypeEnvironment == ASSUME TypeOK, Environment PROVE TypeOK'
<1> USE DEF TypeOK, ring, control, mainly, WorkerPC
<1>1. CASE Signal BY <1>1 DEF Signal
<1>2. ASSUME NEW d \in Fds, OtherOpen(d) \/ OtherClose(d) PROVE TypeOK'
  BY <1>2 DEF OtherOpen, OtherClose
<1>3. ASSUME NEW w \in Workers, SpuriousWakeup(w) PROVE TypeOK'
  BY <1>3 DEF SpuriousWakeup
<1> QED
  BY <1>1, <1>2, <1>3 DEF Environment

(* Every variable keeps its type: the ring indices stay inside the array,  *)
(* the count never passes the capacity, no index passes the worker array.  *)
THEOREM Typing == Spec => []TypeOK
<1>1. TypeOK /\ [Next]_vars => TypeOK'
  <2> SUFFICES ASSUME TypeOK, [Next]_vars PROVE TypeOK'
    OBVIOUS
  <2>1. CASE MainStep BY <2>1, TypeMain
  <2>2. CASE \E w \in Workers : WorkerStep(w) BY <2>2, TypeWorker
  <2>3. CASE Environment BY <2>3, TypeEnvironment
  <2>4. CASE UNCHANGED vars BY <2>4 DEF vars, TypeOK
  <2> QED
    BY <2>1, <2>2, <2>3, <2>4 DEF Next, Terminated
<1> QED
  BY <1>1, TypeInit, PTL DEF Spec

-----------------------------------------------------------------------------
(* Control: who holds the mutex, which threads run, what shutdown promised. *)


LEMMA ControlMain == ASSUME TypeOK, ControlInv, MainStep PROVE ControlInv'
<1> USE SizesAssumption, NamesAssumption
<1> USE DEF TypeOK, ControlInv, TailInv, HolderInv, StartInv, StopInv, HeldInv, NoLostWakeup,
            Waiting, Workers, ring, control, mainly
<1>1. CASE StartWorker BY <1>1 DEF StartWorker
<1>2. CASE StartDone BY <1>2 DEF StartDone
<1>3. CASE StartFails BY <1>3 DEF StartFails
<1>4. CASE RunCheck BY <1>4 DEF RunCheck
<1>5. CASE SelectIdle BY <1>5 DEF SelectIdle
<1>6. ASSUME NEW c \in Conns, NEW d \in Fds, Accept(c, d) PROVE ControlInv'
  BY <1>6 DEF Accept
<1>7. CASE ConfigureFails BY <1>7 DEF ConfigureFails
<1>8. CASE Offer
  <2>1. TailInv'
    BY <1>8, OccupyTail DEF Offer
  <2>2. \A w \in Workers : \/ pc'[w] = pc[w]
                           \/ pc[w] = "wait" /\ pc'[w] = "top"
    BY <1>8 DEF Offer, WakeOne
  <2>3. HolderInv' /\ StartInv' /\ StopInv' /\ HeldInv'
    BY <1>8, <2>2 DEF Offer
  <2>4. \E w \in Workers : pc'[w] \notin {"unstarted", "wait", "exited"}
    <3>1. CASE Waiting = {}
      <4>1. mainpc = "offer" /\ ~ shutting_down /\ pc' = pc
        BY <1>8, <3>1 DEF Offer, WakeOne
      <4>2. 1 \in Workers /\ started = NWorkers
        BY <4>1
      <4>3. pc[1] # "unstarted"
        BY <4>2
      <4>4. pc[1] # "wait"
        BY <4>2, <3>1
      <4>5. pc[1] # "exited"
        BY <4>1, <4>2
      <4> QED
        BY <4>1, <4>2, <4>3, <4>4, <4>5
    <3>2. CASE Waiting # {}
      <4>1. PICK v \in Workers : pc' = [pc EXCEPT ![v] = "top"]
        BY <1>8, <3>2 DEF Offer, WakeOne
      <4> QED
        BY <4>1
    <3> QED
      BY <3>1, <3>2
  <2>5. NoLostWakeup'
    BY <1>8, <2>4 DEF Offer
  <2> QED
    BY <2>1, <2>3, <2>5
<1>9. CASE OfferFails BY <1>9 DEF OfferFails
<1>10. CASE Refuse BY <1>10 DEF Refuse
<1>11. CASE Stop BY <1>11 DEF Stop
<1>12. CASE ShutLock BY <1>12 DEF ShutLock
<1>13. CASE Scan BY <1>13 DEF Scan
<1>14. CASE ScanDone BY <1>14 DEF ScanDone
<1>15. CASE Drain BY <1>15, VacateHead DEF Drain
<1>16. CASE Broadcast BY <1>16 DEF Broadcast
<1>17. CASE Join BY <1>17 DEF Join
<1>18. CASE Destroy BY <1>18 DEF Destroy
<1>19. CASE CloseListener BY <1>19 DEF CloseListener
<1> QED
  BY <1>1, <1>2, <1>3, <1>4, <1>5, <1>6, <1>7, <1>8, <1>9, <1>10, <1>11, <1>12,
     <1>13, <1>14, <1>15, <1>16, <1>17, <1>18, <1>19 DEF MainStep

LEMMA ControlWorker == ASSUME TypeOK, ControlInv, NEW w \in Workers, WorkerStep(w) PROVE ControlInv'
<1> USE SizesAssumption, NamesAssumption
<1> USE DEF TypeOK, ControlInv, TailInv, HolderInv, StartInv, StopInv, HeldInv, NoLostWakeup,
            Waiting, Workers, ring, control, mainly
<1>1. CASE WorkerExit(w) BY <1>1 DEF WorkerExit
<1>2. CASE WorkerWait(w) BY <1>2 DEF WorkerWait
<1>3. CASE WorkerTake(w) BY <1>3, VacateHead DEF WorkerTake
<1>4. CASE Receive(w) BY <1>4 DEF Receive
<1>5. CASE ReceiveFails(w) BY <1>5 DEF ReceiveFails
<1>6. CASE Handle(w) BY <1>6 DEF Handle
<1>7. CASE ReplyWait(w)
  <2>1. PICK p \in {"send", "halt", "close"} : pc' = [pc EXCEPT ![w] = p]
    BY <1>7 DEF ReplyWait, AfterReply
  <2>2. pc[w] = "reply" /\ UNCHANGED <<ring, control, client, holder, mainly>>
    BY <1>7 DEF ReplyWait
  <2> QED
    BY <2>1, <2>2
<1>8. CASE ReplySend(w) BY <1>8 DEF ReplySend, AfterReply
<1>9. CASE RequestStop(w) BY <1>9 DEF RequestStop
<1>10. CASE CloseClient(w) BY <1>10 DEF CloseClient
<1>11. CASE ClearClient(w) BY <1>11 DEF ClearClient
<1> QED
  BY <1>1, <1>2, <1>3, <1>4, <1>5, <1>6, <1>7, <1>8, <1>9, <1>10, <1>11 DEF WorkerStep

LEMMA ControlEnvironment == ASSUME TypeOK, ControlInv, Environment PROVE ControlInv'
<1> USE SizesAssumption, NamesAssumption
<1> USE DEF TypeOK, ControlInv, TailInv, HolderInv, StartInv, StopInv, HeldInv, NoLostWakeup,
            Waiting, Workers, ring, control, mainly
<1>1. CASE Signal BY <1>1 DEF Signal
<1>2. ASSUME NEW d \in Fds, OtherOpen(d) PROVE ControlInv'
  BY <1>2 DEF OtherOpen
<1>3. ASSUME NEW d \in Fds, OtherClose(d) PROVE ControlInv'
  BY <1>3 DEF OtherClose
<1>4. ASSUME NEW w \in Workers, SpuriousWakeup(w) PROVE ControlInv'
  BY <1>4 DEF SpuriousWakeup
<1> QED
  BY <1>1, <1>2, <1>3, <1>4 DEF Environment

-----------------------------------------------------------------------------
(* Ownership: what each descriptor number denotes, and who may use it.      *)


LEMMA OwnMain == ASSUME TypeOK, ControlInv, OwnInv, ListenInv, MainStep PROVE OwnInv'
<1> USE SizesAssumption, NamesAssumption
<1> USE DEF TypeOK, ControlInv, HolderInv, HeldInv, OwnInv, ClientInv, ClientOwner, LiveOwned,
            OneDescriptor, FateInv, NoStrayInterrupt, Queued, Occupied, Serving, InHand,
            InService, ring, control, mainly
<1>1. CASE StartWorker
  <2>1. started + 1 \in Workers /\ pc[started + 1] = "unstarted"
    BY <1>1 DEF StartWorker, StartInv, Workers
  <2>2. Serving' = Serving
    BY <1>1, <2>1 DEF StartWorker
  <2>3. /\ Queued' = Queued /\ Occupied' = Occupied /\ InHand' = InHand
        /\ UNCHANGED <<queue, client, table, cut, fate>>
    BY <1>1 DEF StartWorker
  <2>4. ClientInv'
    BY <1>1, <2>1 DEF StartWorker
  <2>5. FateInv'
    BY <1>1, <2>1, <2>2, <2>3 DEF StartWorker
  <2>6. ClientOwner' /\ LiveOwned' /\ OneDescriptor' /\ NoStrayInterrupt' /\ (Queued \subseteq Fds)'
    <3> HIDE DEF Queued, Occupied, Serving, InHand
    <3> QED
      BY <2>2, <2>3
  <2> QED
    BY <2>4, <2>5, <2>6
<1>2. CASE StartDone BY <1>2 DEF StartDone
<1>3. CASE StartFails BY <1>3 DEF StartFails
<1>4. CASE RunCheck BY <1>4 DEF RunCheck
<1>5. CASE SelectIdle BY <1>5 DEF SelectIdle
<1>6. ASSUME NEW c \in Conns, NEW d \in Fds, Accept(c, d) PROVE OwnInv'
  BY <1>6 DEF Accept
<1>7. CASE ConfigureFails BY <1>7 DEF ConfigureFails
<1>8. CASE Offer
  <2>1. /\ tail \notin Occupied
        /\ Occupied' = Occupied \union {tail}
        /\ tail \in Slots /\ Occupied \subseteq Slots
    BY <1>8, OccupyTail DEF Offer, TailInv, OccupiedFrom
  <2>2. queue' = [queue EXCEPT ![tail] = held] /\ held \in Fds
    BY <1>8 DEF Offer
  <2>3. Queued' = Queued \union {held}
    <3> HIDE DEF Occupied
    <3> QED
      BY <2>1, <2>2
  <2>4. InHand = {held} /\ InHand' = {}
    BY <1>8 DEF Offer
  <2>5. \A w \in Workers : \/ pc'[w] = pc[w]
                           \/ pc[w] = "wait" /\ pc'[w] = "top"
    BY <1>8 DEF Offer, WakeOne, Waiting
  <2>6. Serving' = Serving /\ \A w \in Serving : pc'[w] = pc[w]
    BY <2>5
  <2>7. UNCHANGED <<client, table, cut, fate>>
    BY <1>8 DEF Offer
  <2>8. ClientInv'
    BY <2>5, <2>7
  <2>9. \A i, j \in Occupied' : i # j => queue'[i] # queue'[j]
    <3>1. \A i \in Occupied : queue[i] # held /\ queue'[i] = queue[i]
      BY <2>1, <2>2, <2>4
    <3> HIDE DEF Occupied
    <3> QED
      BY <2>1, <2>2, <3>1
  <2>10. ClientOwner'
    <3> HIDE DEF Queued, Occupied, Serving, InHand
    <3> QED
      BY <2>3, <2>4, <2>6, <2>7, <2>9
  <2>11. FateInv'
    <3> HIDE DEF Serving
    <3> QED
      BY <2>6, <2>7
  <2>12. LiveOwned' /\ OneDescriptor' /\ NoStrayInterrupt' /\ (Queued \subseteq Fds)'
    <3> HIDE DEF Queued, Occupied, Serving, InHand
    <3> QED
      BY <2>2, <2>3, <2>4, <2>6, <2>7
  <2> QED
    BY <2>8, <2>10, <2>11, <2>12
<1>9. CASE OfferFails BY <1>9 DEF OfferFails
<1>10. CASE Refuse BY <1>10 DEF Refuse
<1>11. CASE Stop BY <1>11 DEF Stop
<1>12. CASE ShutLock BY <1>12 DEF ShutLock
<1>13. CASE Scan
  <2>1. index \in Workers
    BY <1>13 DEF Scan, Workers
  <2>2. \A w \in Workers : pc[w] # "clear"
    BY <1>13 DEF Scan
  <2>3. client[index] # NoFd => index \in Serving /\ table[client[index]] \in Conns
    BY <2>1, <2>2
  <2>4. /\ Queued' = Queued /\ Occupied' = Occupied /\ InHand' = InHand
        /\ Serving' = Serving
        /\ UNCHANGED <<queue, client, table, fate, pc>>
    BY <1>13 DEF Scan
  <2>5. NoStrayInterrupt'
    <3>1. CASE client[index] = NoFd
      BY <1>13, <2>4, <3>1 DEF Scan
    <3>2. CASE client[index] # NoFd
      <4>1. cut' = cut \union {table[client[index]]} /\ client[index] \in Fds
        BY <1>13, <2>1, <3>2 DEF Scan
      <4>2. client[index] \notin Queued \union InHand
        BY <2>3, <3>2
      <4>3. Queued \union InHand \subseteq Fds
        OBVIOUS
      <4>4. \A d \in Queued \union InHand : table[d] # table[client[index]]
        <5> HIDE DEF Queued, InHand
        <5> QED
          BY <2>3, <3>2, <4>1, <4>2, <4>3
      <4> HIDE DEF Queued, InHand
      <4> QED
        BY <2>3, <2>4, <3>2, <4>1, <4>4
    <3> QED
      BY <3>1, <3>2
  <2>6. FateInv'
    BY <1>13, <2>1, <2>3, <2>4 DEF Scan
  <2>7. ClientOwner' /\ LiveOwned' /\ OneDescriptor' /\ ClientInv' /\ (Queued \subseteq Fds)'
    <3> HIDE DEF Queued, Occupied, Serving, InHand
    <3> QED
      BY <2>4
  <2> QED
    BY <2>5, <2>6, <2>7
<1>14. CASE ScanDone BY <1>14 DEF ScanDone
<1>15. CASE Drain BY <1>15, VacateHead DEF Drain
<1>16. CASE Broadcast
  <2>1. /\ \A w \in Workers : pc'[w] = IF pc[w] = "wait" THEN "top" ELSE pc[w]
        /\ UNCHANGED <<queue, head, count, held, client, table, cut, fate>>
    BY <1>16 DEF Broadcast
  <2>2. Serving' = Serving /\ \A w \in Serving : pc'[w] = pc[w]
    BY <2>1
  <2>3. Queued' = Queued /\ Occupied' = Occupied /\ InHand' = InHand
    BY <2>1
  <2>4. ClientInv'
    BY <2>1
  <2>5. /\ ClientOwner' /\ LiveOwned' /\ OneDescriptor' /\ FateInv' /\ NoStrayInterrupt'
        /\ (Queued \subseteq Fds)'
    <3> HIDE DEF Queued, Occupied, Serving, InHand
    <3> QED
      BY <2>1, <2>2, <2>3
  <2> QED
    BY <2>4, <2>5
<1>17. CASE Join BY <1>17 DEF Join
<1>18. CASE Destroy BY <1>18 DEF Destroy
<1>19. CASE CloseListener
  <2>1. /\ listener \in Fds /\ table[listener] = Listening
        /\ table' = [table EXCEPT ![listener] = Free]
        /\ UNCHANGED <<queue, head, count, client, held, pc, cut, fate>>
    BY <1>19 DEF CloseListener, ListenInv
  <2>2. \A d \in Fds : table'[d] = table[d] \/ (table[d] \notin Conns /\ table'[d] \notin Conns)
    BY <2>1
  <2>3. /\ Queued' = Queued /\ Occupied' = Occupied /\ InHand' = InHand
        /\ Serving' = Serving
    BY <2>1
  <2>4. Queued \union InHand \subseteq Fds /\ \A w \in Serving : client[w] \in Fds
    OBVIOUS
  <2>5. /\ \A d \in Queued \union InHand : table'[d] = table[d]
        /\ \A w \in Serving : table'[client[w]] = table[client[w]]
    <3> HIDE DEF Queued, Occupied, Serving, InHand
    <3> QED
      BY <2>2, <2>4
  <2>6. ClientOwner' /\ NoStrayInterrupt' /\ (Queued \subseteq Fds)'
    <3> HIDE DEF Queued, Occupied, Serving, InHand
    <3> QED
      BY <2>1, <2>3, <2>5
  <2>7. LiveOwned' /\ OneDescriptor' /\ ClientInv'
    <3> HIDE DEF Queued, Occupied, Serving, InHand
    <3> QED
      BY <2>1, <2>2, <2>3
  <2>8. FateInv'
    <3> HIDE DEF Serving
    <3> QED
      BY <2>1, <2>2, <2>3, <2>5
  <2> QED
    BY <2>6, <2>7, <2>8
<1> QED
  BY <1>1, <1>2, <1>3, <1>4, <1>5, <1>6, <1>7, <1>8, <1>9, <1>10, <1>11, <1>12,
     <1>13, <1>14, <1>15, <1>16, <1>17, <1>18, <1>19 DEF MainStep

LEMMA OwnWorker == ASSUME TypeOK, ControlInv, OwnInv, NEW w \in Workers, WorkerStep(w) PROVE OwnInv'
<1> USE SizesAssumption, NamesAssumption
<1> USE DEF TypeOK, ControlInv, HolderInv, HeldInv, OwnInv, ClientInv, ClientOwner, LiveOwned,
            OneDescriptor, FateInv, NoStrayInterrupt, Queued, Occupied, Serving, InHand,
            InService, ring, control, mainly
<1>1. CASE WorkerExit(w) BY <1>1 DEF WorkerExit
<1>2. CASE WorkerWait(w) BY <1>2 DEF WorkerWait
<1>3. CASE WorkerTake(w) BY <1>3, VacateHead DEF WorkerTake
<1>4. CASE Receive(w) BY <1>4 DEF Receive
<1>5. CASE ReceiveFails(w) BY <1>5 DEF ReceiveFails
<1>6. CASE Handle(w) BY <1>6 DEF Handle
<1>7. CASE ReplyWait(w) BY <1>7 DEF ReplyWait, AfterReply, Undelivered
<1>8. CASE ReplySend(w) BY <1>8 DEF ReplySend, AfterReply, Undelivered
<1>9. CASE RequestStop(w) BY <1>9 DEF RequestStop
<1>10. CASE CloseClient(w) BY <1>10 DEF CloseClient
<1>11. CASE ClearClient(w) BY <1>11 DEF ClearClient
<1> QED
  BY <1>1, <1>2, <1>3, <1>4, <1>5, <1>6, <1>7, <1>8, <1>9, <1>10, <1>11 DEF WorkerStep

LEMMA OwnEnvironment == ASSUME TypeOK, ControlInv, OwnInv, Environment PROVE OwnInv'
<1> USE SizesAssumption, NamesAssumption
<1> USE DEF TypeOK, ControlInv, HolderInv, HeldInv, OwnInv, ClientInv, ClientOwner, LiveOwned,
            OneDescriptor, FateInv, NoStrayInterrupt, Queued, Occupied, Serving, InHand,
            InService, ring, control, mainly
<1>1. CASE Signal BY <1>1 DEF Signal
<1>2. ASSUME NEW d \in Fds, OtherOpen(d) PROVE OwnInv'
  BY <1>2 DEF OtherOpen
<1>3. ASSUME NEW d \in Fds, OtherClose(d) PROVE OwnInv'
  BY <1>3 DEF OtherClose
<1>4. ASSUME NEW w \in Workers, SpuriousWakeup(w) PROVE OwnInv'
  BY <1>4 DEF SpuriousWakeup
<1> QED
  BY <1>1, <1>2, <1>3, <1>4 DEF Environment

\* Taking the head of the ring takes nothing else from it.
LEMMA QueuedLess ==
  ASSUME TypeOK, head' = Wrap(head), count' = count - 1, count > 0, queue' = queue
  PROVE  /\ head \in Occupied /\ Occupied' = Occupied \ {head}
         /\ Queued' \subseteq Queued /\ queue[head] \in Queued
<1>1. head \in Occupied /\ Occupied' = Occupied \ {head}
  BY VacateHead DEF TypeOK, Occupied
<1> QED
  BY <1>1 DEF Queued

\* No step but the shutdown's closes the listening socket or opens another.
LEMMA ListenStep ==
  ASSUME TypeOK, ControlInv, OwnInv, ListenInv,
         MainStep \/ (\E w \in Workers : WorkerStep(w)) \/ Environment
  PROVE  ListenInv'
<1> USE NamesAssumption
<1>1. ASSUME UNCHANGED <<listener, mainpc>>,
             \/ table' = table
             \/ \E d \in Fds, x \in Conns \union {Free, Foreign} :
                  table[d] # Listening /\ table' = [table EXCEPT ![d] = x]
      PROVE  ListenInv'
  BY <1>1 DEF ListenInv, TypeOK
<1>2. CASE \E w \in Workers : WorkerStep(w)
  <2>1. PICK w \in Workers : WorkerStep(w)
    BY <1>2
  <2>2. CASE CloseClient(w)
    <3>1. client[w] \in Fds /\ table[client[w]] \in Conns
      BY <2>2 DEF CloseClient, OwnInv, ClientOwner, ClientInv, Serving, InService, TypeOK
    <3> QED
      BY <1>1, <2>2, <3>1 DEF CloseClient, mainly, control
  <2>3. ASSUME ~ CloseClient(w) PROVE UNCHANGED <<listener, mainpc, table>>
    BY <2>1, <2>3 DEF WorkerStep, WorkerExit, WorkerWait, WorkerTake, Receive, ReceiveFails,
       Handle, ReplyWait, ReplySend, RequestStop, ClearClient, mainly, control
  <2> QED
    BY <1>1, <2>2, <2>3
<1>3. CASE Environment
  BY <1>1, <1>3 DEF Environment, Signal, OtherOpen, OtherClose, SpuriousWakeup, mainly, control
<1>4. CASE MainStep
  <2>1. CASE StartWorker \/ Scan \/ StartDone \/ StartFails \/ RunCheck \/ SelectIdle
             \/ Offer \/ OfferFails \/ Stop \/ ShutLock \/ ScanDone \/ Broadcast \/ Join \/ Destroy
    <3>1. UNCHANGED <<listener, table>>
      BY <2>1 DEF StartWorker, Scan, StartDone, StartFails, RunCheck, SelectIdle, Offer,
         OfferFails, Stop, ShutLock, ScanDone, Broadcast, Join, Destroy, mainly, control
    <3>2. mainpc' \in {"start", "run", "select", "offer", "refuse", "stop", "unlisten"} <=>
            mainpc \in {"start", "run", "select", "offer", "refuse", "stop", "unlisten"}
      BY <2>1 DEF StartWorker, Scan, StartDone, StartFails, RunCheck, SelectIdle, Offer,
         OfferFails, Stop, ShutLock, ScanDone, Broadcast, Join, Destroy, mainly
    <3> QED
      BY <3>1, <3>2 DEF ListenInv
  <2>2. ASSUME NEW c \in Conns, NEW d \in Fds, Accept(c, d) PROVE ListenInv'
    BY <2>2 DEF Accept, ListenInv, control, TypeOK
  <2>3. CASE ConfigureFails \/ Refuse
    <3>1. held \in Fds /\ table[held] \in Conns /\ UNCHANGED listener
      BY <2>3 DEF ConfigureFails, Refuse, control, OwnInv, ClientOwner, InHand, ControlInv,
                  HeldInv, TypeOK
    <3> QED
      BY <2>3, <3>1 DEF ConfigureFails, Refuse, ListenInv, TypeOK
  <2>4. CASE Drain
    <3>1. queue[head] \in Queued
      BY <2>4, QueuedLess DEF Drain
    <3>2. queue[head] \in Fds /\ table[queue[head]] \in Conns
      BY <3>1 DEF OwnInv, ClientOwner
    <3> QED
      BY <1>1, <2>4, <3>2 DEF Drain, mainly, control
  <2>5. CASE CloseListener
    BY <2>5 DEF CloseListener, ListenInv, TypeOK
  <2> QED
    BY <1>4, <2>1, <2>2, <2>3, <2>4, <2>5 DEF MainStep
<1> QED
  BY <1>2, <1>3, <1>4

LEMMA ListenInit == Init => ListenInv
  BY NamesAssumption DEF Init, ListenInv

LEMMA OwnInit == Init => OwnInv
<1> SUFFICES ASSUME Init PROVE OwnInv
  OBVIOUS
<1> USE NamesAssumption DEF Init
<1>1. Occupied = {} /\ Queued = {} /\ InHand = {} /\ Serving = {}
  BY SizesAssumption DEF Occupied, OccupiedFrom, Slots, Queued, InHand, Serving, InService
<1>2. ClientInv
  BY DEF ClientInv, InService
<1>3. ClientOwner /\ LiveOwned /\ OneDescriptor /\ NoStrayInterrupt
  BY <1>1 DEF ClientOwner, LiveOwned, OneDescriptor, NoStrayInterrupt
<1>4. FateInv
  BY <1>1 DEF FateInv
<1> QED
  BY <1>1, <1>2, <1>3, <1>4 DEF OwnInv

LEMMA ControlInit == Init => ControlInv
  BY SizesAssumption, NamesAssumption
  DEF Init, ControlInv, TailInv, HolderInv, StartInv, StopInv, HeldInv, NoLostWakeup, Workers

-----------------------------------------------------------------------------
(* The invariant is inductive, and the properties follow from it.           *)

LEMMA InvStep == IInv /\ [Next]_vars => IInv'
<1> SUFFICES ASSUME IInv, [Next]_vars PROVE IInv'
  OBVIOUS
<1> USE DEF IInv
<1>1. CASE MainStep
  BY <1>1, TypeMain, ControlMain, OwnMain, ListenStep
<1>2. CASE \E w \in Workers : WorkerStep(w)
  BY <1>2, TypeWorker, ControlWorker, OwnWorker, ListenStep
<1>3. CASE Environment
  BY <1>3, TypeEnvironment, ControlEnvironment, OwnEnvironment, ListenStep
<1>4. CASE UNCHANGED vars
  <2>1. TypeOK'
    BY <1>4 DEF vars, TypeOK
  <2>2. ControlInv'
    BY <1>4 DEF vars, ControlInv, TailInv, HolderInv, StartInv, StopInv, HeldInv,
                NoLostWakeup, Waiting
  <2>3. OwnInv'
    BY <1>4 DEF vars, OwnInv, ClientInv, ClientOwner, LiveOwned, OneDescriptor, FateInv,
                NoStrayInterrupt, Queued, Occupied, Serving, InHand
  <2>4. ListenInv'
    BY <1>4 DEF vars, ListenInv
  <2> QED
    BY <2>1, <2>2, <2>3, <2>4
<1> QED
  BY <1>1, <1>2, <1>3, <1>4 DEF Next, Terminated

THEOREM Invariance == Spec => []IInv
<1>1. Init => IInv
  BY TypeInit, ControlInit, OwnInit, ListenInit DEF IInv
<1> QED
  BY <1>1, InvStep, PTL DEF Spec

(* Every descriptor number the ring, a worker or the accepting thread still *)
(* holds denotes one live connection and has no other owner, and the        *)
(* server's own denotes its listening socket until it closes it.            *)
THEOREM DescriptorsHaveOneOwner == Spec => []OneOwner
<1>1. IInv => OneOwner
  BY DEF IInv, OwnInv, ListenInv, OneOwner
<1> QED
  BY <1>1, Invariance, PTL

(* The shutdown scan calls shutdown() only on connections a worker serves,  *)
(* however often descriptor numbers are recycled while it runs.             *)
THEOREM ScanHitsOnlyServedClients == Spec => []NoStrayInterrupt
<1>1. IInv => NoStrayInterrupt
  BY DEF IInv, OwnInv
<1> QED
  BY <1>1, Invariance, PTL

(* No wakeup is lost: a queued client always finds an awake worker, and the *)
(* end of shutdown's critical section leaves nobody asleep.                 *)
THEOREM WakeupsAreNotLost == Spec => []NoLostWakeup
<1>1. IInv => NoLostWakeup
  BY DEF IInv, ControlInv
<1> QED
  BY <1>1, Invariance, PTL

(* When nya_server_workers_shutdown frees the pool every started worker has *)
(* returned, the mutex is free, every connection is closed and accounted    *)
(* for, and nothing listens any more.                                       *)
THEOREM ShutdownIsClean == Spec => []CleanShutdown
<1>1. ASSUME IInv, mainpc = "done" PROVE CleanShutdown
  <2> USE <1>1, NamesAssumption, SizesAssumption DEF IInv
  <2>1. \A w \in Workers : pc[w] \in {"unstarted", "exited"}
    BY DEF ControlInv, StopInv
  <2>2. holder = Nobody
    BY <2>1 DEF ControlInv, HolderInv, TypeOK
  <2>3. Serving = {}
    BY <2>1 DEF Serving, InService
  <2>4. InHand = {}
    BY DEF InHand, ControlInv, HeldInv
  <2>5. Queued = {}
    BY DEF Queued, Occupied, OccupiedFrom, Slots, ControlInv, StopInv, TypeOK
  <2>6. \A d \in Fds : table[d] \notin Conns
    BY <2>3, <2>4, <2>5 DEF OwnInv, LiveOwned
  <2>7. \A c \in Conns : fate[c] # "open"
    BY <2>6 DEF OwnInv, FateInv
  <2>8. \A d \in Fds : table[d] # Listening
    BY DEF ListenInv
  <2> QED
    BY <2>1, <2>2, <2>6, <2>7, <2>8 DEF CleanShutdown
<1>2. IInv => CleanShutdown
  BY <1>1 DEF CleanShutdown
<1> QED
  BY <1>2, Invariance, PTL
-----------------------------------------------------------------------------
(* The pool that the clients see.                                          *)

\* A connection that waits, or is being answered, has no fate yet.
OpenInv ==
  /\ \A d \in Queued \union InHand : fate[table[d]] = "open"
  /\ \A w \in Workers :
       pc[w] \in {"recv", "handle", "reply", "send"} => fate[table[client[w]]] = "open"

LEMMA OpenInit == Init => OpenInv
<1> SUFFICES ASSUME Init PROVE OpenInv
  OBVIOUS
<1>1. Queued = {} /\ InHand = {}
  BY SizesAssumption, NamesAssumption
  DEF Init, Occupied, OccupiedFrom, Slots, Queued, InHand
<1> QED
  BY <1>1 DEF Init, OpenInv

\* The ring holds what it held, but for the connection that left or came.
LEMMA QueuedOffer ==
  ASSUME TypeOK, ControlInv, Offer
  PROVE  /\ Queued' = Queued \union {held} /\ held \in Fds
         /\ tail \in Slots /\ tail \notin Occupied /\ Occupied' = Occupied \union {tail}
<1> USE SizesAssumption, NamesAssumption
<1>1. /\ tail \in Slots
      /\ tail \notin OccupiedFrom(head, count)
      /\ OccupiedFrom(head, count + 1) = OccupiedFrom(head, count) \union {tail}
  <2>1. /\ head \in Slots /\ count \in 0 .. QueueCapacity /\ count < QueueCapacity
        /\ tail = IF head + count < QueueCapacity THEN head + count
                                                  ELSE head + count - QueueCapacity
    BY DEF Offer, TypeOK, ControlInv, TailInv
  <2> QED
    BY <2>1, OccupyTail
<1>2. tail \notin Occupied /\ Occupied' = Occupied \union {tail} /\ Occupied \subseteq Slots
  BY <1>1 DEF Offer, Occupied, OccupiedFrom
<1>3. queue' = [queue EXCEPT ![tail] = held] /\ held \in Fds
  BY DEF Offer, TypeOK, ControlInv, HeldInv
<1> QED
  BY <1>1, <1>2, <1>3 DEF Queued, TypeOK

LEMMA OpenMain ==
  ASSUME TypeOK, ControlInv, OwnInv, ListenInv, OpenInv, MainStep
  PROVE  OpenInv'
<1> USE SizesAssumption, NamesAssumption
<1>1. ASSUME UNCHANGED <<queue, head, count, held, client, table, fate>>,
             \A w \in Workers : \/ pc'[w] = pc[w]
                                \/ pc'[w] \notin {"recv", "handle", "reply", "send"}
      PROVE  OpenInv'
  <2>1. Queued' = Queued /\ InHand' = InHand
    BY <1>1 DEF Queued, Occupied, InHand
  <2> QED
    BY <1>1, <2>1 DEF OpenInv
<1>2. CASE StartWorker \/ StartDone \/ StartFails \/ RunCheck \/ SelectIdle \/ OfferFails
           \/ Stop \/ ShutLock \/ Scan \/ ScanDone \/ Broadcast \/ Join \/ Destroy
  <2>1. UNCHANGED <<queue, head, count, held, client, table, fate>>
    BY <1>2 DEF StartWorker, StartDone, StartFails, RunCheck, SelectIdle, OfferFails, Stop,
                ShutLock, Scan, ScanDone, Broadcast, Join, Destroy, ring, mainly
  <2>2. ASSUME NEW w \in Workers
        PROVE  \/ pc'[w] = pc[w]
               \/ pc'[w] \notin {"recv", "handle", "reply", "send"}
    BY <1>2 DEF StartWorker, StartDone, StartFails, RunCheck, SelectIdle, OfferFails, Stop,
                ShutLock, Scan, ScanDone, Broadcast, Join, Destroy, TypeOK
  <2> QED
    BY <1>1, <2>1, <2>2
<1>3. ASSUME NEW c \in Conns, NEW d \in Fds, Accept(c, d) PROVE OpenInv'
  <2>1. InHand = {} /\ InHand' = {d} /\ Queued' = Queued
    BY <1>3 DEF Accept, InHand, Queued, Occupied, ring, ControlInv, HeldInv
  <2>2. UNCHANGED <<client, pc>> /\ table' = [table EXCEPT ![d] = c]
        /\ fate' = [fate EXCEPT ![c] = "open"] /\ table[d] = Free /\ fate[c] = "new"
    BY <1>3 DEF Accept
  <2>3. \A e \in Queued : e \in Fds /\ table[e] \in Conns /\ e # d
    BY <2>2 DEF OwnInv, ClientOwner
  <2>4. \A w \in Workers : pc[w] \in {"recv", "handle", "reply", "send"} =>
          client[w] \in Fds /\ table[client[w]] \in Conns /\ client[w] # d
    BY <2>2 DEF OwnInv, ClientOwner, ClientInv, Serving, InService, TypeOK
  <2>5. \A e \in Queued : fate'[table'[e]] = "open"
    BY <2>2, <2>3 DEF OpenInv, TypeOK
  <2>6. fate'[table'[d]] = "open"
    BY <2>2 DEF TypeOK
  <2>7. \A w \in Workers : pc[w] \in {"recv", "handle", "reply", "send"} =>
          fate'[table'[client[w]]] = "open"
    BY <2>2, <2>4 DEF OpenInv, TypeOK
  <2> QED
    BY <2>1, <2>2, <2>5, <2>6, <2>7 DEF OpenInv
<1>4. CASE ConfigureFails \/ Refuse
  <2>1. held \in Fds /\ InHand = {held} /\ InHand' = {} /\ Queued' = Queued
        /\ UNCHANGED <<client, pc>> /\ table' = [table EXCEPT ![held] = Free]
    BY <1>4 DEF ConfigureFails, Refuse, InHand, Queued, Occupied, ring, ControlInv, HeldInv, TypeOK
  <2>2. \A c \in Conns : c # table[held] => fate'[c] = fate[c]
    BY <1>4 DEF ConfigureFails, Refuse, TypeOK
  <2>3. \A e \in Queued : e \in Fds /\ table[e] \in Conns /\ e # held /\ table[e] # table[held]
    BY <2>1 DEF OwnInv, ClientOwner, OneDescriptor
  <2>4. \A w \in Workers : pc[w] \in {"recv", "handle", "reply", "send"} =>
          /\ client[w] \in Fds /\ table[client[w]] \in Conns
          /\ client[w] # held /\ table[client[w]] # table[held]
    BY <2>1 DEF OwnInv, ClientOwner, OneDescriptor, ClientInv, Serving, InService, TypeOK
  <2>5. \A e \in Queued : fate'[table'[e]] = "open"
    BY <2>1, <2>2, <2>3 DEF OpenInv, TypeOK
  <2>6. \A w \in Workers : pc[w] \in {"recv", "handle", "reply", "send"} =>
          fate'[table'[client[w]]] = "open"
    BY <2>1, <2>2, <2>4 DEF OpenInv, TypeOK
  <2> QED
    BY <2>1, <2>5, <2>6 DEF OpenInv
<1>5. CASE Offer
  <2>1. Queued' = Queued \union {held} /\ held \in Fds
    BY <1>5, QueuedOffer
  <2>2. InHand = {held} /\ InHand' = {} /\ UNCHANGED <<client, table, fate>>
    BY <1>5, <2>1 DEF Offer, InHand
  <2>3. \A w \in Workers : pc'[w] = pc[w] \/ pc'[w] = "top"
    BY <1>5 DEF Offer, WakeOne, Waiting, TypeOK
  <2> QED
    BY <2>1, <2>2, <2>3 DEF OpenInv
<1>6. CASE Drain
  <2>1. /\ Queued' \subseteq Queued /\ queue[head] \in Queued /\ queue' = queue
        /\ head \in Occupied /\ Occupied' = Occupied \ {head}
    BY <1>6, QueuedLess DEF Drain
  <2>2. InHand = {} /\ InHand' = {} /\ UNCHANGED <<client, pc>>
        /\ table' = [table EXCEPT ![queue[head]] = Free]
    BY <1>6 DEF Drain, mainly, InHand, ControlInv, HeldInv
  <2>3. \A c \in Conns : c # table[queue[head]] => fate'[c] = fate[c]
    BY <1>6 DEF Drain, TypeOK
  <2>4. queue[head] \in Fds /\ table[queue[head]] \in Conns
    BY <2>1 DEF OwnInv, ClientOwner
  <2>5. \A e \in Queued' : e \in Fds /\ e \in Queued /\ table[e] \in Conns /\ e # queue[head]
    BY <2>1 DEF OwnInv, ClientOwner, Queued
  <2>6. \A e \in Queued' : table[e] # table[queue[head]]
    BY <2>4, <2>5 DEF OwnInv, OneDescriptor
  <2>7. \A w \in Workers : pc[w] \in {"recv", "handle", "reply", "send"} =>
          client[w] \in Fds /\ table[client[w]] \in Conns /\ client[w] # queue[head]
    BY <2>1 DEF OwnInv, ClientOwner, ClientInv, Serving, InService, TypeOK
  <2>8. \A w \in Workers : pc[w] \in {"recv", "handle", "reply", "send"} =>
          table[client[w]] # table[queue[head]]
    BY <2>4, <2>7 DEF OwnInv, OneDescriptor
  <2>9. \A e \in Queued' : fate'[table'[e]] = "open"
    BY <2>2, <2>3, <2>5, <2>6 DEF OpenInv, TypeOK
  <2>10. \A w \in Workers : pc[w] \in {"recv", "handle", "reply", "send"} =>
          fate'[table'[client[w]]] = "open"
    BY <2>2, <2>3, <2>7, <2>8 DEF OpenInv, TypeOK
  <2> QED
    BY <2>2, <2>9, <2>10 DEF OpenInv
<1>7. CASE CloseListener
  <2>1. /\ table' = [table EXCEPT ![listener] = Free] /\ table[listener] \notin Conns
        /\ UNCHANGED <<queue, head, count, held, client, pc, fate>>
    BY <1>7 DEF CloseListener, ListenInv, ring
  <2>2. Queued' = Queued /\ InHand' = InHand
    BY <2>1 DEF Queued, Occupied, InHand
  <2>3. \A d \in Queued \union InHand : d \in Fds /\ table[d] \in Conns
    BY DEF OwnInv, ClientOwner, InHand, TypeOK
  <2>4. \A w \in Workers : pc[w] \in {"recv", "handle", "reply", "send"} =>
          client[w] \in Fds /\ table[client[w]] \in Conns
    BY DEF OwnInv, ClientOwner, ClientInv, Serving, InService, TypeOK
  <2>5. \A d \in Fds : table[d] \in Conns => table'[d] = table[d]
    BY <2>1 DEF TypeOK
  <2> QED
    BY <2>1, <2>2, <2>3, <2>4, <2>5 DEF OpenInv
<1> QED
  BY <1>2, <1>3, <1>4, <1>5, <1>6, <1>7 DEF MainStep

\* What a worker does to its own connection leaves the others as they are.
LEMMA OthersApart ==
  ASSUME TypeOK, OwnInv, NEW w \in Serving
  PROVE  /\ client[w] \in Fds /\ table[client[w]] \in Conns
         /\ \A d \in Queued \union InHand :
              d \in Fds /\ d # client[w] /\ table[d] \in Conns /\ table[d] # table[client[w]]
         /\ \A v \in Serving \ {w} :
              /\ client[v] \in Fds /\ client[v] # client[w]
              /\ table[client[v]] \in Conns /\ table[client[v]] # table[client[w]]
<1>1. \A v \in Serving : v \in Workers /\ client[v] \in Fds /\ table[client[v]] \in Conns
  BY DEF OwnInv, ClientOwner, ClientInv, Serving, TypeOK
<1>2. \A d \in Queued \union InHand : d \in Fds /\ table[d] \in Conns /\ d # client[w]
  BY DEF OwnInv, ClientOwner, InHand, TypeOK
<1>3. \A v \in Serving \ {w} : client[v] # client[w]
  BY DEF OwnInv, ClientOwner
<1> QED
  BY <1>1, <1>2, <1>3 DEF OwnInv, OneDescriptor

LEMMA OpenWorker ==
  ASSUME TypeOK, ControlInv, OwnInv, OpenInv, NEW w \in Workers, WorkerStep(w)
  PROVE  OpenInv'
<1> USE SizesAssumption, NamesAssumption
<1> DEFINE Early == {"recv", "handle", "reply", "send"}
<1>1. held' = held /\ InHand' = InHand
  <2>1. held' = held
    BY DEF WorkerStep, WorkerExit, WorkerWait, WorkerTake, Receive, ReceiveFails, Handle,
           ReplyWait, ReplySend, RequestStop, CloseClient, ClearClient, mainly
  <2> QED
    BY <2>1 DEF InHand
<1>2. CASE WorkerExit(w) \/ WorkerWait(w) \/ Receive(w) \/ ReceiveFails(w) \/ Handle(w)
           \/ RequestStop(w)
  <2>1. UNCHANGED <<queue, head, count, client, table, fate>>
    BY <1>2 DEF WorkerExit, WorkerWait, Receive, ReceiveFails, Handle, RequestStop, ring
  <2>2. Queued' = Queued
    BY <2>1 DEF Queued, Occupied
  <2>3. ASSUME NEW v \in Workers, pc'[v] \in Early PROVE pc[v] \in Early
    BY <1>2, <2>3 DEF WorkerExit, WorkerWait, Receive, ReceiveFails, Handle, RequestStop, TypeOK
  <2> QED
    BY <1>1, <2>1, <2>2, <2>3 DEF OpenInv
<1>3. CASE WorkerTake(w)
  <2>1. Queued' \subseteq Queued /\ queue[head] \in Queued
    BY <1>3, QueuedLess DEF WorkerTake
  <2>2. /\ client' = [client EXCEPT ![w] = queue[head]] /\ UNCHANGED <<table, fate>>
        /\ pc' = [pc EXCEPT ![w] = "recv"]
    BY <1>3 DEF WorkerTake
  <2>3. \A v \in Workers : pc'[v] \in Early => fate'[table'[client'[v]]] = "open"
    BY <2>1, <2>2 DEF OpenInv, TypeOK
  <2> QED
    BY <1>1, <2>1, <2>2, <2>3 DEF OpenInv
<1>4. CASE ReplyWait(w) \/ ReplySend(w)
  <2>1. UNCHANGED <<queue, head, count, client, table>> /\ w \in Serving
    BY <1>4 DEF ReplyWait, ReplySend, ring, Serving, InService
  <2>2. Queued' = Queued
    BY <2>1 DEF Queued, Occupied
  <2>3. \A c \in Conns : c # table[client[w]] => fate'[c] = fate[c]
    BY <1>4 DEF ReplyWait, ReplySend, TypeOK
  <2>4. \A v \in Workers \ {w} : pc'[v] = pc[v]
    BY <1>4 DEF ReplyWait, ReplySend, TypeOK
  <2>5. pc'[w] \in Early => fate' = fate /\ pc[w] \in Early
    BY <1>4 DEF ReplyWait, ReplySend, AfterReply, TypeOK
  <2>6. \A d \in Queued \union InHand : fate'[table[d]] = "open"
    BY <2>1, <2>3, OthersApart DEF OpenInv
  <2>7. \A v \in Workers : pc'[v] \in Early => fate'[table[client[v]]] = "open"
    <3>1. ASSUME NEW v \in Workers \ {w}, pc[v] \in Early PROVE fate'[table[client[v]]] = "open"
      <4>1. v \in Serving \ {w}
        BY <3>1 DEF Serving, InService
      <4> QED
        BY <2>1, <2>3, <3>1, <4>1, OthersApart DEF OpenInv
    <3> QED
      BY <2>4, <2>5, <3>1 DEF OpenInv
  <2> QED
    BY <1>1, <2>1, <2>2, <2>6, <2>7 DEF OpenInv
<1>5. CASE CloseClient(w)
  <2>1. /\ UNCHANGED <<queue, head, count, client, fate>> /\ w \in Serving
        /\ table' = [table EXCEPT ![client[w]] = Free]
        /\ pc[w] = "close" /\ pc' = [pc EXCEPT ![w] = "clear"]
    BY <1>5 DEF CloseClient, ring, Serving, InService
  <2>2. Queued' = Queued
    BY <2>1 DEF Queued, Occupied
  <2>3. \A d \in Queued \union InHand : table'[d] = table[d]
    BY <2>1, OthersApart DEF TypeOK
  <2>4. ASSUME NEW v \in Workers, pc'[v] \in Early
        PROVE  pc[v] \in Early /\ table'[client[v]] = table[client[v]]
    <3>1. v # w /\ pc[v] \in Early
      BY <2>1, <2>4 DEF TypeOK
    <3>2. v \in Serving \ {w}
      BY <3>1 DEF Serving, InService
    <3> QED
      BY <2>1, <3>1, <3>2, OthersApart DEF TypeOK
  <2> QED
    BY <1>1, <2>1, <2>2, <2>3, <2>4 DEF OpenInv
<1>6. CASE ClearClient(w)
  <2>1. /\ UNCHANGED <<queue, head, count, table, fate>>
        /\ client' = [client EXCEPT ![w] = NoFd] /\ pc' = [pc EXCEPT ![w] = "top"]
    BY <1>6 DEF ClearClient, ring
  <2>2. Queued' = Queued
    BY <2>1 DEF Queued, Occupied
  <2>3. ASSUME NEW v \in Workers, pc'[v] \in Early
        PROVE  pc[v] \in Early /\ client'[v] = client[v]
    BY <2>1, <2>3 DEF TypeOK
  <2> QED
    BY <1>1, <2>1, <2>2, <2>3 DEF OpenInv
<1> QED
  BY <1>2, <1>3, <1>4, <1>5, <1>6 DEF WorkerStep

LEMMA OpenEnvironment ==
  ASSUME TypeOK, ControlInv, OwnInv, OpenInv, Environment
  PROVE  OpenInv'
<1> USE NamesAssumption
<1>1. UNCHANGED <<queue, head, count, client, held, fate>>
  BY DEF Environment, Signal, OtherOpen, OtherClose, SpuriousWakeup, ring, mainly
<1>2. Queued' = Queued /\ InHand' = InHand
  BY <1>1 DEF Queued, Occupied, InHand
<1>3. ASSUME NEW v \in Workers, pc'[v] \in {"recv", "handle", "reply", "send"} PROVE pc'[v] = pc[v]
  BY <1>3 DEF Environment, Signal, OtherOpen, OtherClose, SpuriousWakeup, TypeOK
<1>4. \A d \in Fds : table[d] \in Conns => table'[d] = table[d]
  BY DEF Environment, Signal, OtherOpen, OtherClose, SpuriousWakeup, TypeOK
<1>5. \A d \in Queued \union InHand : table'[d] = table[d]
  BY <1>4 DEF OwnInv, ClientOwner, InHand, TypeOK
<1>6. \A v \in Serving : table'[client[v]] = table[client[v]]
  BY <1>4, OthersApart
<1>7. \A v \in Workers : pc[v] \in {"recv", "handle", "reply", "send"} => v \in Serving
  BY DEF Serving, InService
<1> QED
  BY <1>1, <1>2, <1>3, <1>5, <1>6, <1>7 DEF OpenInv

-----------------------------------------------------------------------------
(* The ring as a line.                                                     *)

\* The ring position of the i-th client from the head.
Place(h, i) == (h + i - 1) % QueueCapacity

LEMMA PlaceIs ==
  ASSUME NEW h \in Slots, NEW i \in 1 .. QueueCapacity
  PROVE  /\ Place(h, i) = IF h + i - 1 < QueueCapacity THEN h + i - 1
                                                       ELSE h + i - 1 - QueueCapacity
         /\ Place(h, i) \in Slots
<1>1. \A x, q \in Nat : q > 0 /\ x < 2 * q => x % q = IF x < q THEN x ELSE x - q
  BY SMT
<1> DEFINE x == h + i - 1
<1>2. x \in Nat /\ QueueCapacity \in Nat /\ QueueCapacity > 0 /\ x < 2 * QueueCapacity
  BY SizesAssumption DEF Slots
<1>3. x % QueueCapacity = IF x < QueueCapacity THEN x ELSE x - QueueCapacity
  BY <1>1, <1>2
<1> QED
  BY <1>2, <1>3, SizesAssumption DEF Place, Slots

\* The occupied positions are those of the line, in its order.
LEMMA PlacesOccupied ==
  ASSUME NEW h \in Slots, NEW n \in 0 .. QueueCapacity
  PROVE  /\ \A i \in 1 .. n : Place(h, i) \in OccupiedFrom(h, n)
         /\ \A p \in OccupiedFrom(h, n) : \E i \in 1 .. n : Place(h, i) = p
         /\ \A i, j \in 1 .. n : i # j => Place(h, i) # Place(h, j)
<1> USE SizesAssumption
<1>1. ASSUME NEW i \in 1 .. n
      PROVE  /\ Place(h, i) = IF h + i - 1 < QueueCapacity THEN h + i - 1
                                                           ELSE h + i - 1 - QueueCapacity
             /\ Place(h, i) \in Slots
  BY PlaceIs
<1>2. ASSUME NEW i \in 1 .. n PROVE Place(h, i) \in OccupiedFrom(h, n)
  BY <1>1 DEF OccupiedFrom, Slots
<1>3. ASSUME NEW p \in OccupiedFrom(h, n) PROVE \E i \in 1 .. n : Place(h, i) = p
  <2> DEFINE i == IF h =< p THEN p - h + 1 ELSE p + QueueCapacity - h + 1
  <2>1. i \in 1 .. n
    BY DEF OccupiedFrom, Slots
  <2>2. Place(h, i) = p
    BY <1>1, <2>1 DEF OccupiedFrom, Slots
  <2> QED
    BY <2>1, <2>2
<1>4. ASSUME NEW i \in 1 .. n, NEW j \in 1 .. n, i # j PROVE Place(h, i) # Place(h, j)
  BY <1>1, <1>4 DEF Slots
<1> QED
  BY <1>2, <1>3, <1>4

\* The head's place is first; after a take every place moves up by one.
LEMMA PlacesMove ==
  ASSUME NEW h \in Slots
  PROVE  /\ Place(h, 1) = h
         /\ \A i \in 1 .. QueueCapacity - 1 : Place(Wrap(h), i) = Place(h, i + 1)
<1> USE SizesAssumption
<1>1. Wrap(h) \in Slots /\ Wrap(h) = IF h + 1 = QueueCapacity THEN 0 ELSE h + 1
  BY WrapStep
<1>2. Place(h, 1) = h
  BY PlaceIs DEF Slots
<1>3. ASSUME NEW i \in 1 .. QueueCapacity - 1 PROVE Place(Wrap(h), i) = Place(h, i + 1)
  <2>1. i \in 1 .. QueueCapacity /\ i + 1 \in 1 .. QueueCapacity
    OBVIOUS
  <2>2. Place(Wrap(h), i) = IF Wrap(h) + i - 1 < QueueCapacity THEN Wrap(h) + i - 1
                                                ELSE Wrap(h) + i - 1 - QueueCapacity
    BY <1>1, <2>1, PlaceIs
  <2>3. Place(h, i + 1) = IF h + (i + 1) - 1 < QueueCapacity THEN h + (i + 1) - 1
                                                ELSE h + (i + 1) - 1 - QueueCapacity
    BY <2>1, PlaceIs
  <2> QED
    BY <1>1, <2>1, <2>2, <2>3 DEF Slots
<1> QED
  BY <1>2, <1>3

\* What the refinement mapping gives the abstract pool.
Line   == [i \in 1 .. count |-> table[queue[(head + i - 1) % QueueCapacity]]]
Served == {table[client[w]] : w \in Serving}

LEMMA LineIs ==
  ASSUME TypeOK, OwnInv
  PROVE  /\ Line \in Seq(Conns) /\ Len(Line) = count
         /\ \A i \in 1 .. count : /\ Place(head, i) \in Occupied
                                  /\ Line[i] = table[queue[Place(head, i)]]
         /\ \A d \in Queued : \E i \in 1 .. count : Line[i] = table[d]
<1>1. \A i \in 1 .. count : Place(head, i) \in Occupied
  BY PlacesOccupied DEF Occupied, TypeOK
<1>2. \A i \in 1 .. count : Line[i] = table[queue[Place(head, i)]]
  BY DEF Line, Place
<1>3. \A i \in 1 .. count : table[queue[Place(head, i)]] \in Conns
  BY <1>1 DEF Queued, OwnInv, ClientOwner
<1>4. Line \in [1 .. count -> Conns]
  BY <1>3 DEF Line, Place
<1>5. Line \in Seq(Conns) /\ Len(Line) = count
  <2>1. count \in Nat
    BY SizesAssumption DEF TypeOK
  <2>2. Line \in Seq(Conns)
    BY <1>4, <2>1, SeqDef
  <2>3. Len(Line) \in Nat /\ DOMAIN Line = 1 .. Len(Line)
    BY <2>2, LenProperties
  <2>4. DOMAIN Line = 1 .. count
    BY <1>4
  <2>5. \A m, n \in Nat : 1 .. m = 1 .. n => m = n
    OBVIOUS
  <2> QED
    BY <2>1, <2>2, <2>3, <2>4, <2>5
<1>6. ASSUME NEW d \in Queued PROVE \E i \in 1 .. count : Line[i] = table[d]
  <2>1. PICK p \in Occupied : d = queue[p]
    BY DEF Queued
  <2>2. PICK i \in 1 .. count : Place(head, i) = p
    BY <2>1, PlacesOccupied DEF Occupied, TypeOK
  <2> QED
    BY <1>2, <2>1, <2>2
<1> QED
  BY <1>1, <1>2, <1>5, <1>6

-----------------------------------------------------------------------------
(* The steps of the pool are steps of ConnPool, or change nothing in it.   *)

\* The connection in the accepting thread's hand is the one at the door.
LEMMA DoorIsHand ==
  ASSUME TypeOK, OwnInv, OpenInv, NEW c \in Conns
  PROVE  Pool!AtTheDoor(c) <=> \E d \in InHand : table[d] = c
<1> DEFINE InTheLine == \E i \in 1 .. Len(Line) : Line[i] = c
<1>1. InTheLine <=> \E d \in Queued : table[d] = c
  <2>1. \A i \in 1 .. count : queue[Place(head, i)] \in Queued
    BY LineIs DEF Queued
  <2> QED
    BY <2>1, LineIs
<1>2. c \in Served <=> \E w \in Serving : table[client[w]] = c
  BY DEF Served
<1>3. ASSUME fate[c] = "open", ~ InTheLine, c \notin Served
      PROVE  \E d \in InHand : table[d] = c
  <2> HIDE DEF InTheLine
  <2>1. PICK d \in Fds : table[d] = c
    BY <1>3 DEF OwnInv, FateInv
  <2>2. d \notin Queued
    BY <1>1, <1>3, <2>1
  <2>3. \A w \in Serving : client[w] # d
    BY <1>2, <1>3, <2>1
  <2> QED
    BY <2>1, <2>2, <2>3 DEF OwnInv, LiveOwned
<1>4. ASSUME NEW d \in InHand, table[d] = c
      PROVE  fate[c] = "open" /\ ~ InTheLine /\ c \notin Served
  <2> HIDE DEF InTheLine
  <2>1. fate[c] = "open" /\ d \in Fds
    BY <1>4 DEF OpenInv, InHand, TypeOK
  <2>2. \A e \in Queued : e \in Fds /\ e # d
    BY DEF OwnInv, ClientOwner
  <2>3. \A e \in Queued : table[e] # c
    BY <1>4, <2>1, <2>2 DEF OwnInv, OneDescriptor
  <2>4. \A w \in Serving : client[w] \in Fds /\ client[w] # d
    BY DEF OwnInv, ClientOwner, ClientInv, Serving, TypeOK
  <2>5. \A w \in Serving : table[client[w]] # c
    BY <1>4, <2>1, <2>4 DEF OwnInv, OneDescriptor
  <2> QED
    BY <1>1, <1>2, <2>1, <2>3, <2>5
<1>5. Pool!AtTheDoor(c) <=> fate[c] = "open" /\ ~ InTheLine /\ c \notin Served
  BY DEF Pool!AtTheDoor, Pool!InLine, Line, Served
<1> QED
  BY <1>3, <1>4, <1>5

LEMMA LineSame ==
  ASSUME TypeOK, OwnInv, UNCHANGED <<queue, head, count>>,
         \A d \in Queued : table'[d] = table[d]
  PROVE  Line' = Line
<1>1. \A i \in 1 .. count : queue[Place(head, i)] \in Queued
  BY LineIs DEF Queued
<1>2. \A i \in 1 .. count : table'[queue[Place(head, i)]] = table[queue[Place(head, i)]]
  BY <1>1
<1> QED
  BY <1>2 DEF Line, Place

LEMMA ServedSame ==
  ASSUME Serving' = Serving,
         \A w \in Serving : table'[client'[w]] = table[client[w]]
  PROVE  Served' = Served
  BY DEF Served

\* One worker that serves nobody leaves room for one more connection.
LEMMA ServedRoom ==
  ASSUME NEW w \in Workers, w \notin Serving
  PROVE  Pool!Cardinality(Served) < NWorkers
<1>1. /\ IsFiniteSet(Workers) /\ Cardinality(Workers) = NWorkers
  BY FS_Interval, SizesAssumption DEF Workers
<1>2. IsFiniteSet(Workers \ {w}) /\ Cardinality(Workers \ {w}) = NWorkers - 1
  BY <1>1, FS_RemoveElement
<1>3. Serving \in SUBSET (Workers \ {w})
  BY DEF Serving
<1>4. IsFiniteSet(Serving) /\ Cardinality(Serving) =< NWorkers - 1
  BY <1>2, <1>3, FS_Subset
<1> DEFINE f == [v \in Serving |-> table[client[v]]]
<1>5. f \in Surjection(Serving, Served)
  BY DEF Served, Surjection
<1>6. Cardinality(Served) =< Cardinality(Serving) /\ IsFiniteSet(Served)
  BY <1>4, <1>5, FS_Surjection
<1>7. Cardinality(Served) \in Nat /\ Cardinality(Serving) \in Nat
  BY <1>4, <1>6, FS_CardinalityType
<1>8. Pool!Cardinality(Served) = Cardinality(Served)
  BY Zenon DEF Pool!Cardinality, Cardinality
<1> QED
  BY <1>4, <1>6, <1>7, <1>8, SizesAssumption

\* What the pool's steps may leave as it was.
LEMMA Stutter ==
  ASSUME Line' = Line, Served' = Served, UNCHANGED <<fate, shutting_down>>
  PROVE  UNCHANGED Pool!vars
  BY DEF Pool!vars, Line, Served

\* Taking the head of the ring is taking the head of the line.
LEMMA LineShrinks ==
  ASSUME TypeOK, OwnInv, head' = Wrap(head), count' = count - 1, count > 0, queue' = queue,
         \A p \in Occupied : p # head => table'[queue[p]] = table[queue[p]]
  PROVE  /\ Line # << >> /\ Head(Line) = table[queue[head]]
         /\ Line' = Tail(Line)
<1>1. /\ Line \in Seq(Conns) /\ Len(Line) = count
      /\ \A i \in 1 .. count : /\ Place(head, i) \in Occupied
                               /\ Line[i] = table[queue[Place(head, i)]]
  BY LineIs
<1>2. head \in Slots /\ count \in Nat /\ count =< QueueCapacity /\ 1 \in 1 .. count
  BY SizesAssumption DEF TypeOK
<1>3. Line # << >>
  BY <1>1, <1>2
<1>4. Head(Line) = table[queue[head]]
  BY <1>1, <1>2, <1>3, PlacesMove
<1>5. /\ Tail(Line) \in Seq(Conns) /\ Len(Tail(Line)) = count - 1
      /\ \A i \in 1 .. count - 1 : Tail(Line)[i] = Line[i + 1]
  BY <1>1, <1>3, HeadTailProperties
<1>6. Line' = [i \in 1 .. count - 1 |-> table'[queue[Place(Wrap(head), i)]]]
  BY DEF Line, Place
<1>7. ASSUME NEW i \in 1 .. count - 1 PROVE Line'[i] = Tail(Line)[i]
  <2>1. i + 1 \in 1 .. count /\ i \in 1 .. QueueCapacity - 1 /\ i + 1 # 1
    BY <1>2, SizesAssumption
  <2>2. Place(Wrap(head), i) = Place(head, i + 1)
    BY <1>2, <2>1, PlacesMove
  <2>3. Place(head, i + 1) \in Occupied /\ Place(head, i + 1) # head
    <3>1. Place(head, 1) = head
      BY <1>2, PlacesMove
    <3>2. Place(head, 1) # Place(head, i + 1)
      BY <1>2, <2>1, PlacesOccupied
    <3> QED
      BY <1>1, <2>1, <3>1, <3>2
  <2> QED
    BY <1>1, <1>5, <1>6, <2>1, <2>2, <2>3
<1>8. /\ DOMAIN Tail(Line) = 1 .. count - 1
      /\ Tail(Line) = [i \in DOMAIN Tail(Line) |-> Tail(Line)[i]]
  BY <1>5, LenProperties
<1> QED
  BY <1>3, <1>4, <1>6, <1>7, <1>8

LEMMA MapMain ==
  ASSUME TypeOK, ControlInv, OwnInv, ListenInv, OpenInv, MainStep
  PROVE  Pool!Next \/ UNCHANGED Pool!vars
<1> USE SizesAssumption, NamesAssumption
<1>1. ASSUME UNCHANGED <<queue, head, count, client, table, fate, shutting_down>>,
             Serving' = Serving
      PROVE  UNCHANGED Pool!vars
  BY <1>1, LineSame, ServedSame, Stutter
<1>2. CASE StartWorker \/ StartDone \/ StartFails \/ RunCheck \/ SelectIdle \/ OfferFails
           \/ Stop \/ Scan \/ ScanDone \/ Broadcast \/ Join \/ Destroy
  <2>1. UNCHANGED <<queue, head, count, client, table, fate, shutting_down>>
    BY <1>2 DEF StartWorker, StartDone, StartFails, RunCheck, SelectIdle, OfferFails, Stop,
                Scan, ScanDone, Broadcast, Join, Destroy, ring, mainly, control
  <2>2. \A w \in Workers : \/ pc'[w] = pc[w]
                           \/ pc'[w] \notin InService /\ pc[w] \notin InService
    BY <1>2 DEF StartWorker, StartDone, StartFails, RunCheck, SelectIdle, OfferFails, Stop,
                Scan, ScanDone, Broadcast, Join, Destroy, TypeOK, ControlInv, StartInv,
                InService, Workers
  <2>3. Serving' = Serving
    BY <2>2 DEF Serving
  <2> QED
    BY <1>1, <2>1, <2>3
<1>3. CASE ShutLock
  <2>1. /\ UNCHANGED <<queue, head, count, client, pc, table, fate>> /\ shutting_down' = TRUE
        /\ ~ shutting_down
    BY <1>3 DEF ShutLock, ring, ControlInv, StopInv
  <2>2. Line' = Line /\ Served' = Served
    BY <2>1, LineSame, ServedSame DEF Serving
  <2>3. Pool!Close
    BY <2>1, <2>2 DEF Pool!Close, Line, Served
  <2> QED
    BY <2>3 DEF Pool!Next
<1>4. ASSUME NEW c \in Conns, NEW d \in Fds, Accept(c, d) PROVE Pool!Next
  <2>1. /\ UNCHANGED <<queue, head, count, client, pc, shutting_down>> /\ ~ shutting_down
        /\ fate[c] = "new" /\ fate' = [fate EXCEPT ![c] = "open"]
        /\ table[d] = Free /\ table' = [table EXCEPT ![d] = c] /\ InHand = {}
    BY <1>4 DEF Accept, ring, control, ControlInv, StopInv, HeldInv, InHand
  <2>2. \A e \in Fds : table[e] \in Conns => table'[e] = table[e]
    BY <2>1 DEF TypeOK
  <2>3. \A e \in Queued : e \in Fds /\ table[e] \in Conns
    BY DEF OwnInv, ClientOwner
  <2>4. Line' = Line
    BY <2>1, <2>2, <2>3, LineSame
  <2>5. \A w \in Serving : client[w] \in Fds /\ table[client[w]] \in Conns
    BY OthersApart
  <2>6. Served' = Served
    BY <2>1, <2>2, <2>5, ServedSame DEF Serving
  <2>7. \A x \in Conns : ~ Pool!AtTheDoor(x)
    BY <2>1, DoorIsHand
  <2>8. Pool!Arrive(c)
    BY <2>1, <2>4, <2>6, <2>7 DEF Pool!Arrive, Line, Served
  <2> QED
    BY <2>8 DEF Pool!Next
<1>5. CASE ConfigureFails \/ Refuse
  <2> DEFINE c == table[held]
  <2>1. /\ held \in Fds /\ InHand = {held} /\ c \in Conns
        /\ UNCHANGED <<queue, head, count, client, pc, shutting_down>>
        /\ table' = [table EXCEPT ![held] = Free]
    BY <1>5 DEF ConfigureFails, Refuse, ring, control, InHand, ControlInv, HeldInv, TypeOK,
                OwnInv, ClientOwner
  <2>2. \A d \in Queued : d \in Fds /\ d # held
    BY <2>1 DEF OwnInv, ClientOwner
  <2>3. \A w \in Serving : client[w] \in Fds /\ client[w] # held
    BY <2>1, OthersApart DEF OwnInv, ClientOwner
  <2>4. \A d \in Fds : d # held => table'[d] = table[d]
    BY <2>1 DEF TypeOK
  <2>5. Line' = Line
    BY <2>1, <2>2, <2>4, LineSame
  <2>6. Served' = Served
    BY <2>1, <2>3, <2>4, ServedSame DEF Serving
  <2>7. Pool!AtTheDoor(c)
    BY <2>1, DoorIsHand
  <2> HIDE DEF c
  <2>8. CASE fate' = [fate EXCEPT ![c] = "dropped"]
    <3>1. Pool!Drop(c)
      BY <2>1, <2>5, <2>6, <2>7, <2>8 DEF Pool!Drop, Line, Served
    <3> QED
      BY <2>1, <3>1 DEF Pool!Next
  <2>9. CASE fate' = [fate EXCEPT ![c] = "busy"]
    <3>1. Pool!Refuse(c)
      BY <2>1, <2>5, <2>6, <2>7, <2>9 DEF Pool!Refuse, Line, Served
    <3> QED
      BY <2>1, <3>1 DEF Pool!Next
  <2> QED
    BY <1>5, <2>8, <2>9 DEF ConfigureFails, Refuse, c
<1>6. CASE Offer
  <2> DEFINE c == table[held]
  <2>1. /\ Queued' = Queued \union {held} /\ held \in Fds
        /\ tail \in Slots /\ tail \notin Occupied
    BY <1>6, QueuedOffer
  <2>2. /\ UNCHANGED <<head, client, table, fate, shutting_down>> /\ ~ shutting_down
        /\ count < QueueCapacity /\ count' = count + 1
        /\ queue' = [queue EXCEPT ![tail] = held]
        /\ InHand = {held} /\ c \in Conns
    BY <1>6, <2>1 DEF Offer, control, InHand, OwnInv, ClientOwner
  <2>3. \A w \in Workers : pc'[w] = pc[w] \/ (pc[w] = "wait" /\ pc'[w] = "top")
    BY <1>6 DEF Offer, WakeOne, Waiting, TypeOK
  <2>4. Served' = Served
    <3>1. Serving' = Serving
      BY <2>3 DEF Serving, InService
    <3> QED
      BY <2>2, <3>1, ServedSame
  <2>5. Line' = Append(Line, c)
    <3>1. /\ Line \in Seq(Conns) /\ Len(Line) = count
          /\ \A i \in 1 .. count : /\ Place(head, i) \in Occupied
                                   /\ Line[i] = table[queue[Place(head, i)]]
      BY LineIs
    <3>2. /\ Append(Line, c) \in Seq(Conns) /\ Len(Append(Line, c)) = count + 1
          /\ \A i \in 1 .. count : Append(Line, c)[i] = Line[i]
          /\ Append(Line, c)[count + 1] = c
      BY <2>2, <3>1, AppendProperties
    <3>3. /\ count \in Nat /\ count + 1 \in 1 .. QueueCapacity /\ head \in Slots
      BY <2>2 DEF TypeOK
    <3>4. Place(head, count + 1) = tail
      <4>1. Place(head, count + 1) = IF head + (count + 1) - 1 < QueueCapacity
                                       THEN head + (count + 1) - 1
                                       ELSE head + (count + 1) - 1 - QueueCapacity
        BY <3>3, PlaceIs
      <4> QED
        BY <3>3, <4>1 DEF ControlInv, TailInv, Slots
    <3>5. Line' = [i \in 1 .. count + 1 |-> table[queue'[Place(head, i)]]]
      BY <2>2 DEF Line, Place
    <3>6. \A i \in 1 .. count : queue'[Place(head, i)] = queue[Place(head, i)]
      BY <2>1, <2>2, <3>1 DEF TypeOK
    <3>7. queue'[tail] = held
      BY <2>1, <2>2 DEF TypeOK
    <3>8. \A i \in 1 .. count + 1 : Line'[i] = Append(Line, c)[i]
      <4>1. ASSUME NEW i \in 1 .. count PROVE Line'[i] = Append(Line, c)[i]
        BY <3>1, <3>2, <3>3, <3>5, <3>6
      <4>2. Line'[count + 1] = c
        BY <3>3, <3>4, <3>5, <3>7
      <4>3. \A i \in 1 .. count + 1 : i \in 1 .. count \/ i = count + 1
        BY <3>3
      <4> QED
        BY <3>2, <4>1, <4>2, <4>3
    <3>9. /\ DOMAIN Append(Line, c) = 1 .. count + 1
          /\ Append(Line, c) = [i \in DOMAIN Append(Line, c) |-> Append(Line, c)[i]]
      BY <3>2, <3>3, LenProperties
    <3> HIDE DEF c
    <3> QED
      BY <3>5, <3>8, <3>9
  <2>6. Pool!AtTheDoor(c)
    BY <2>2, DoorIsHand
  <2>7. Len(Line) < QueueCapacity
    BY <2>2, LineIs
  <2> HIDE DEF c
  <2>8. PICK x \in Conns : x = c
    BY <2>2
  <2>9. Pool!AtTheDoor(x) /\ Line' = Append(Line, x)
    BY <2>5, <2>6, <2>8
  <2>10. Pool!Admit(x)
    BY <2>2, <2>4, <2>7, <2>9 DEF Pool!Admit, Line, Served
  <2> QED
    BY <2>10 DEF Pool!Next
<1>7. CASE Drain
  <2>1. /\ head' = Wrap(head) /\ count' = count - 1 /\ count > 0 /\ queue' = queue
        /\ UNCHANGED <<client, pc, shutting_down>> /\ shutting_down
        /\ fate' = [fate EXCEPT ![table[queue[head]]] = "dropped"]
        /\ table' = [table EXCEPT ![queue[head]] = Free]
    BY <1>7 DEF Drain, control, ControlInv, StopInv
  <2>2. head \in Occupied /\ queue[head] \in Queued
    BY <2>1, QueuedLess
  <2>3. \A w \in Serving : client[w] \in Fds /\ client[w] # queue[head]
    BY <2>2, OthersApart
  <2>4. queue[head] \in Fds
    BY <2>2 DEF OwnInv
  <2>5. Served' = Served
    <3>1. \A w \in Serving : table'[client[w]] = table[client[w]]
      BY <2>1, <2>3, <2>4 DEF TypeOK
    <3> QED
      BY <2>1, <3>1, ServedSame DEF Serving
  <2>6. \A p \in Occupied : p # head => table'[queue[p]] = table[queue[p]]
    <3>1. \A p \in Occupied : p # head => queue[p] \in Fds /\ queue[p] # queue[head]
      BY <2>2 DEF OwnInv, ClientOwner, Queued
    <3> QED
      BY <2>1, <2>4, <3>1 DEF TypeOK
  <2>7. Line # << >> /\ Head(Line) = table[queue[head]] /\ Line' = Tail(Line)
    BY <2>1, <2>6, LineShrinks
  <2>8. Pool!Abandon
    BY <2>1, <2>5, <2>7 DEF Pool!Abandon, Line, Served
  <2> QED
    BY <2>8 DEF Pool!Next
<1>8. CASE CloseListener
  <2>1. /\ table' = [table EXCEPT ![listener] = Free] /\ table[listener] \notin Conns
        /\ UNCHANGED <<queue, head, count, client, pc, fate, shutting_down>>
    BY <1>8 DEF CloseListener, ListenInv, ring
  <2>2. \A d \in Fds : table[d] \in Conns => table'[d] = table[d]
    BY <2>1 DEF TypeOK
  <2>3. \A d \in Queued : table'[d] = table[d]
    BY <2>2 DEF OwnInv, ClientOwner
  <2>4. \A v \in Serving : table'[client[v]] = table[client[v]]
    BY <2>2, OthersApart
  <2>5. Serving' = Serving
    BY <2>1 DEF Serving
  <2> QED
    BY <2>1, <2>3, <2>4, <2>5, LineSame, ServedSame, Stutter
<1> QED
  BY <1>2, <1>3, <1>4, <1>5, <1>6, <1>7, <1>8 DEF MainStep

LEMMA MapWorker ==
  ASSUME TypeOK, ControlInv, OwnInv, OpenInv, NEW w \in Workers, WorkerStep(w)
  PROVE  Pool!Next \/ UNCHANGED Pool!vars
<1> USE SizesAssumption, NamesAssumption
<1> DEFINE c == table[client[w]]
<1>1. CASE WorkerExit(w) \/ WorkerWait(w) \/ Receive(w) \/ ReceiveFails(w) \/ Handle(w)
           \/ RequestStop(w)
  <2>1. UNCHANGED <<queue, head, count, client, table, fate, shutting_down>>
    BY <1>1 DEF WorkerExit, WorkerWait, Receive, ReceiveFails, Handle, RequestStop, ring, control
  <2>2. Serving' = Serving
    BY <1>1 DEF WorkerExit, WorkerWait, Receive, ReceiveFails, Handle, RequestStop, TypeOK,
                Serving, InService
  <2> QED
    BY <2>1, <2>2, LineSame, ServedSame, Stutter
<1>2. CASE WorkerTake(w)
  <2>1. /\ head' = Wrap(head) /\ count' = count - 1 /\ count > 0 /\ queue' = queue
        /\ UNCHANGED <<table, fate, shutting_down>> /\ ~ shutting_down
        /\ client' = [client EXCEPT ![w] = queue[head]]
        /\ pc[w] = "top" /\ pc' = [pc EXCEPT ![w] = "recv"]
    BY <1>2 DEF WorkerTake, control
  <2>2. w \notin Serving /\ Serving' = Serving \union {w}
    BY <2>1 DEF Serving, InService, TypeOK
  <2>3. Pool!Cardinality(Served) < NWorkers
    BY <2>2, ServedRoom
  <2>4. Served' = Served \union {table[queue[head]]}
    <3>1. client'[w] = queue[head] /\ \A v \in Serving : client'[v] = client[v]
      BY <2>1, <2>2 DEF TypeOK, Serving
    <3> QED
      BY <2>1, <2>2, <3>1 DEF Served
  <2>5. Line # << >> /\ Head(Line) = table[queue[head]] /\ Line' = Tail(Line)
    BY <2>1, LineShrinks
  <2>6. Pool!Begin
    BY <2>1, <2>3, <2>4, <2>5 DEF Pool!Begin, Line, Served
  <2> QED
    BY <2>6 DEF Pool!Next
<1>3. CASE ReplyWait(w) \/ ReplySend(w)
  <2>1. /\ UNCHANGED <<queue, head, count, client, table, shutting_down>>
        /\ w \in Serving /\ pc[w] \in {"reply", "send"}
    BY <1>3 DEF ReplyWait, ReplySend, ring, control, Serving, InService
  <2>2. Serving' = Serving
    BY <1>3 DEF ReplyWait, ReplySend, AfterReply, Serving, InService, TypeOK
  <2>3. Line' = Line /\ Served' = Served
    BY <2>1, <2>2, LineSame, ServedSame
  <2>4. c \in Conns /\ c \in Served /\ fate[c] = "open"
    <3>1. c \in Conns /\ c \in Served
      BY <2>1, OthersApart DEF Served
    <3>2. fate[c] = "open"
      BY <2>1 DEF OpenInv
    <3> QED
      BY <3>1, <3>2
  <2>5. \/ fate' = fate
        \/ \E f \in {"sent", "lost", "cut"} : fate' = [fate EXCEPT ![c] = f]
    BY <1>3 DEF ReplyWait, ReplySend, Undelivered
  <2> HIDE DEF c
  <2>6. CASE fate' = fate
    BY <2>1, <2>3, <2>6, Stutter
  <2>7. CASE \E f \in {"sent", "lost", "cut"} : fate' = [fate EXCEPT ![c] = f]
    <3>1. Pool!Conclude(c)
      BY <2>1, <2>3, <2>4, <2>7 DEF Pool!Conclude, Line, Served
    <3>2. \E x \in Conns : Pool!Conclude(x)
      BY <2>4, <3>1, Zenon
    <3> QED
      BY <3>2, Zenon DEF Pool!Next
  <2> QED
    BY <2>5, <2>6, <2>7
<1>4. CASE CloseClient(w)
  <2>1. /\ UNCHANGED <<queue, head, count, client, fate, shutting_down>>
        /\ w \in Serving /\ pc[w] = "close" /\ pc' = [pc EXCEPT ![w] = "clear"]
        /\ table' = [table EXCEPT ![client[w]] = Free]
    BY <1>4 DEF CloseClient, ring, control, Serving, InService
  <2>2. Serving' = Serving \ {w}
    BY <2>1 DEF Serving, InService, TypeOK
  <2>3. \A d \in Queued : table'[d] = table[d]
    BY <2>1, OthersApart DEF TypeOK
  <2>4. Line' = Line
    BY <2>1, <2>3, LineSame
  <2>5. c \in Conns /\ c \in Served /\ client[w] \in Fds
    BY <2>1, OthersApart DEF Served
  <2>6. \A v \in Serving \ {w} : table'[client[v]] = table[client[v]] /\ table[client[v]] # c
    BY <2>1, OthersApart DEF TypeOK
  <2>7. Served' = {table[client[v]] : v \in Serving \ {w}}
    BY <2>1, <2>2, <2>6 DEF Served
  <2>8. Served' = Served \ {c}
    BY <2>1, <2>6, <2>7 DEF Served
  <2>9. fate[c] \in Pool!Final
    <3>1. fate[c] # "open"
      BY <2>1 DEF OwnInv, FateInv
    <3>2. fate[c] # "new"
      BY <2>5 DEF OwnInv, FateInv
    <3> QED
      BY <2>5, <3>1, <3>2 DEF TypeOK, Fates, Pool!Final
  <2> HIDE DEF c
  <2>10. PICK x \in Conns : x = c
    BY <2>5
  <2>11. Pool!Leave(x)
    BY <2>1, <2>4, <2>5, <2>8, <2>9, <2>10 DEF Pool!Leave, Line, Served
  <2> QED
    BY <2>11 DEF Pool!Next
<1>5. CASE ClearClient(w)
  <2>1. /\ UNCHANGED <<queue, head, count, table, fate, shutting_down>>
        /\ client' = [client EXCEPT ![w] = NoFd]
        /\ pc[w] = "clear" /\ pc' = [pc EXCEPT ![w] = "top"]
    BY <1>5 DEF ClearClient, ring, control
  <2>2. w \notin Serving /\ Serving' = Serving
    BY <2>1 DEF Serving, InService, TypeOK
  <2>3. \A v \in Serving : client'[v] = client[v]
    BY <2>1, <2>2 DEF Serving, TypeOK
  <2> QED
    BY <2>1, <2>2, <2>3, LineSame, ServedSame, Stutter
<1> QED
  BY <1>1, <1>2, <1>3, <1>4, <1>5 DEF WorkerStep

LEMMA MapEnvironment ==
  ASSUME TypeOK, ControlInv, OwnInv, OpenInv, Environment
  PROVE  UNCHANGED Pool!vars
<1> USE NamesAssumption
<1>1. UNCHANGED <<queue, head, count, client, fate, shutting_down>>
  BY DEF Environment, Signal, OtherOpen, OtherClose, SpuriousWakeup, ring, control
<1>2. \A v \in Workers : \/ pc'[v] = pc[v]
                         \/ pc'[v] \notin InService /\ pc[v] \notin InService
  BY DEF Environment, Signal, OtherOpen, OtherClose, SpuriousWakeup, TypeOK, InService
<1>3. Serving' = Serving
  BY <1>2 DEF Serving
<1>4. \A d \in Fds : table[d] \in Conns => table'[d] = table[d]
  BY DEF Environment, Signal, OtherOpen, OtherClose, SpuriousWakeup, TypeOK
<1>5. \A d \in Queued : table'[d] = table[d]
  BY <1>4 DEF OwnInv, ClientOwner
<1>6. \A v \in Serving : table'[client[v]] = table[client[v]]
  BY <1>4, OthersApart
<1> QED
  BY <1>1, <1>3, <1>5, <1>6, LineSame, ServedSame, Stutter

LEMMA MapInit == Init => Pool!Init
<1> SUFFICES ASSUME Init PROVE Pool!Init
  OBVIOUS
<1>1. Line = << >>
  BY DEF Init, Line
<1>2. Served = {}
  BY DEF Init, Served, Serving, InService
<1> QED
  BY <1>1, <1>2 DEF Init, Pool!Init, Line, Served

LEMMA OpenStep == IInv /\ OpenInv /\ [Next]_vars => OpenInv'
<1> SUFFICES ASSUME IInv, OpenInv, [Next]_vars PROVE OpenInv'
  OBVIOUS
<1>1. CASE UNCHANGED vars
  BY <1>1 DEF vars, OpenInv, Queued, Occupied, InHand
<1> QED
  BY <1>1, OpenMain, OpenWorker, OpenEnvironment DEF IInv, Next, Terminated

LEMMA MapStep == IInv /\ OpenInv /\ [Next]_vars => [Pool!Next]_(Pool!vars)
<1> SUFFICES ASSUME IInv, OpenInv, [Next]_vars PROVE Pool!Next \/ UNCHANGED Pool!vars
  OBVIOUS
<1>1. CASE UNCHANGED vars
  <2>1. UNCHANGED <<queue, head, count, client, table, fate, shutting_down>> /\ Serving' = Serving
    BY <1>1 DEF vars, Serving
  <2> QED
    BY <2>1, LineSame, ServedSame, Stutter DEF IInv
<1> QED
  BY <1>1, MapMain, MapWorker, MapEnvironment DEF IInv, Next, Terminated

(* The pool implements what its clients are promised: one bounded FIFO line,*)
(* at most NWorkers served at once, one fate per connection, and nothing is *)
(* taken from the line once the pool closes.                                *)
THEOREM PoolImplementsItsSpecification == Spec => PoolSpec
<1>1. Init => IInv /\ OpenInv /\ Pool!Init
  BY TypeInit, ControlInit, OwnInit, ListenInit, OpenInit, MapInit DEF IInv
<1>2. IInv /\ [Next]_vars => IInv'
  BY InvStep
<1> QED
  BY <1>1, <1>2, OpenStep, MapStep, PTL DEF Spec, PoolSpec, Pool!Spec
=============================================================================
