----------------------------- MODULE LlmSession -----------------------------
(***************************************************************************)
(* An inference session: nya_llm_session_* (src/backend/core/llm_cpu.c),   *)
(* the reusable run state that fyodor-bench and the conformance tests      *)
(* drive.  A session accepts tokens in calls of any length, on a resident  *)
(* device plan, in batches or token by token; a device may fail at any     *)
(* call, the host arithmetic too, and a reset starts over without clearing *)
(* the caches.  One action per call, and one per token of the loop of      *)
(* nya_llm_session_run.                                                    *)
(***************************************************************************)
EXTENDS RunState

CONSTANTS Size  \* capacity of the session

ASSUME LlmSessionAssumption == Size \in Nat \ {0}

VARIABLES
  state, position, failed, has_logits,  \* struct nya_llm_session
  todo, each,   \* the tokens the current run has left, and its flag
  accepted      \* the tokens accepted since the last reset

vars == <<state, position, failed, has_logits, todo, each, accepted>>

\* nya_llm_session_create
Init == /\ \E path \in Paths : state = NewState(Size, path)
        /\ position = 0 /\ failed = FALSE /\ has_logits = FALSE
        /\ todo = <<>> /\ each = FALSE
        /\ accepted = <<>>

\* No call is in progress.
Idle == todo = <<>>

\* nya_llm_session_reset: only the valid prefix changes.
Reset == /\ Idle
         /\ position' = 0 /\ failed' = FALSE /\ has_logits' = FALSE
         /\ accepted' = <<>>
         /\ UNCHANGED <<state, todo, each>>

\* The calls nya_llm_session_run accepts; all others return -1 and change
\* nothing.
Inputs == {q \in BoundedSeq(Tokens, Size - position) : q # <<>>}

CanRun == Idle /\ ~failed /\ Inputs # {}

\* A failure ends the call: no logits until a reset.
RunFails == /\ failed' = TRUE /\ has_logits' = FALSE
            /\ todo' = <<>>
            /\ UNCHANGED <<position, accepted>>

\* Whole prompt at once, on the device or in batches of the host.
Prefills(q) == \/ state.path = "resident"
               \/ state.path = "batched" /\ Len(q) >= 2

RunPrefill == /\ CanRun
              /\ \E q \in Inputs : \E r \in TextPrefill(state, q, position) :
                   /\ Prefills(q)
                   /\ state' = r.s
                   /\ IF r.ok
                      THEN /\ position' = position + Len(q)
                           /\ accepted' = accepted \o q
                           /\ has_logits' = TRUE
                           /\ UNCHANGED <<failed, todo>>
                      ELSE RunFails
              /\ UNCHANGED each

\* The loop over single tokens: every position with logits, or a prompt that
\* nothing computes at once.
RunTokens == /\ CanRun
             /\ \E q \in Inputs, e \in BOOLEAN :
                  /\ e \/ ~Prefills(q)
                  /\ todo' = q /\ each' = e
             /\ UNCHANGED <<state, position, failed, has_logits, accepted>>

RunToken == /\ ~Idle
            /\ \E r \in Forward(state, Head(todo), position,
                                each \/ Len(todo) = 1) :
                 /\ state' = r.s
                 /\ IF r.ok
                    THEN /\ position' = position + 1
                         /\ accepted' = Append(accepted, Head(todo))
                         /\ todo' = Tail(todo)
                         /\ has_logits' = (has_logits \/ Len(todo) = 1)
                         /\ UNCHANGED failed
                    ELSE RunFails
            /\ UNCHANGED each

Next == Reset \/ RunPrefill \/ RunTokens \/ RunToken

Spec == Init /\ [][Next]_vars

----------------------------------------------------------------------------
\* The rows nya_llm_session_read_kv copies out; a plan with a failed kernel
\* or fewer rows returns an error instead.
Readable(n) == \/ state.path # "resident"
               \/ n <= state.valid /\ ~state.doubt

Row(n) == IF state.path = "resident" THEN state.kv[n] ELSE state.cache[n]

\* Every row lies in its buffer, and every prefix is one of the vocabulary.
TypeOK ==
  LET Texts == BoundedSeq(Tokens, Size)
  IN /\ state.path \in Paths
     /\ state.cache \in [1 .. Size -> Texts]
     /\ state.kv \in [1 .. Size -> Texts]
     /\ state.tokens \in [1 .. Size -> Tokens \cup {Unset}]
     /\ state.valid \in 0 .. Size
     /\ {state.logits, state.hidden} \subseteq Texts
     /\ {state.doubt, state.fresh, state.borrowed} \subseteq BOOLEAN
     /\ position \in 0 .. Size
     /\ {failed, has_logits, each} \subseteq BOOLEAN
     /\ todo \in Texts /\ position + Len(todo) <= Size
     /\ accepted \in Texts

(* Between calls a session that has not failed shows exactly what it has   *)
(* accepted since the last reset: there are logits as soon as there is a   *)
(* token, they are the logits of that very prefix, and every row that      *)
(* nya_llm_session_read_kv gives out was computed from that prefix.  It    *)
(* must hold through a device failure at any position (the host replays),  *)
(* a failed run followed by a reset, and any mix of calls on stale rows.   *)
ReadsAreExact ==
  Idle /\ ~failed =>
    /\ position = Len(accepted)
    /\ has_logits <=> accepted # <<>>
    /\ has_logits => state.logits = accepted
    /\ \A n \in 1 .. position :
         Readable(n) => Row(n) = SubSeq(accepted, 1, n)

=============================================================================
