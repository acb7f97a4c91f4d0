------------------------------ MODULE ConnPool ------------------------------
(***************************************************************************)
(* What the HTTP listener promises its clients, without descriptors, locks *)
(* or threads: accepted connections wait in one bounded FIFO line, a fixed *)
(* number of workers serves them, each connection gets exactly one fate,   *)
(* and once the pool closes nothing more is taken from the line.           *)
(* ServerPool, the translation of src/backend/core/server.c, implements it.*)
(***************************************************************************)
EXTENDS Naturals, Sequences, FiniteSets

CONSTANTS Conns,       \* client connections
          NWorkers,    \* server.worker_threads
          Capacity     \* server.queue_capacity

VARIABLES line,        \* accepted connections nobody serves yet, oldest first
          serving,     \* the connections in the hands of a worker
          fate,        \* what became of each connection
          accepting    \* FALSE once shutdown began

vars == <<line, serving, fate, accepting>>

Final == {"sent", "lost", "cut", "busy", "dropped"}

InLine(c) == \E i \in 1 .. Len(line) : line[i] = c

\* In the accepting thread's hands: accepted, not queued, not refused.
AtTheDoor(c) == fate[c] = "open" /\ ~ InLine(c) /\ c \notin serving

Init == /\ line = << >>
        /\ serving = {}
        /\ fate = [c \in Conns |-> "new"]
        /\ accepting = TRUE

Arrive(c) == /\ accepting
             /\ fate[c] = "new"
             /\ \A d \in Conns : ~ AtTheDoor(d)
             /\ fate' = [fate EXCEPT ![c] = "open"]
             /\ UNCHANGED <<line, serving, accepting>>

Admit(c) == /\ accepting
            /\ AtTheDoor(c)
            /\ Len(line) < Capacity
            /\ line' = Append(line, c)
            /\ UNCHANGED <<serving, fate, accepting>>

\* The door closes on c before it is offered a place (socket setup failed).
Drop(c) == /\ AtTheDoor(c)
           /\ fate' = [fate EXCEPT ![c] = "dropped"]
           /\ UNCHANGED <<line, serving, accepting>>

\* Between a failed offer and the refusal a worker may have made room, so
\* the refusal itself carries no condition on the line.
Refuse(c) == /\ AtTheDoor(c)
             /\ fate' = [fate EXCEPT ![c] = "busy"]
             /\ UNCHANGED <<line, serving, accepting>>

Begin == /\ accepting
         /\ line # << >>
         /\ Cardinality(serving) < NWorkers
         /\ serving' = serving \union {Head(line)}
         /\ line' = Tail(line)
         /\ UNCHANGED <<fate, accepting>>

Conclude(c) == /\ c \in serving
               /\ fate[c] = "open"
               /\ \E f \in {"sent", "lost", "cut"} : fate' = [fate EXCEPT ![c] = f]
               /\ UNCHANGED <<line, serving, accepting>>

Leave(c) == /\ c \in serving
            /\ fate[c] \in Final
            /\ serving' = serving \ {c}
            /\ UNCHANGED <<line, fate, accepting>>

Close == /\ accepting
         /\ accepting' = FALSE
         /\ UNCHANGED <<line, serving, fate>>

\* Waiting connections are closed, oldest first, and only after Close.
Abandon == /\ ~ accepting
           /\ line # << >>
           /\ fate' = [fate EXCEPT ![Head(line)] = "dropped"]
           /\ line' = Tail(line)
           /\ UNCHANGED <<serving, accepting>>

Next == \/ Begin \/ Close \/ Abandon
        \/ \E c \in Conns : \/ Arrive(c) \/ Admit(c) \/ Drop(c) \/ Refuse(c)
                            \/ Conclude(c) \/ Leave(c)

Spec == Init /\ [][Next]_vars
=============================================================================
