----------------------------- MODULE Generation -----------------------------
(***************************************************************************)
(* What a generation request promises (nya_generation_run, src/backend/    *)
(* core/generation.c): tokens are drawn one after another from the target  *)
(* model's own distribution for the text so far, until the end token or    *)
(* the limit, and a request that fails returns no text.  Neither a draft   *)
(* model nor the device that computes appears here.                        *)
(***************************************************************************)
EXTENDS Naturals, Sequences

CONSTANTS Prompts,   \* tokenized prompts
          Limits,    \* max_tokens within the context
          End,       \* a stop token
          Best(_),   \* the most likely token after a text
          Likely(_)  \* the tokens that top-k and top-p keep after a text

VARIABLES prompt, limit, greedy,  \* the request
          text,                   \* the tokens generated
          status

vars == <<prompt, limit, greedy, text, status>>

Init == /\ prompt \in Prompts /\ limit \in Limits /\ greedy \in BOOLEAN
        /\ text = <<>> /\ status = "running"

Ended == text # <<>> /\ text[Len(text)] = End

More == ~Ended /\ Len(text) < limit

Choices == IF greedy THEN {Best(prompt \o text)} ELSE Likely(prompt \o text)

Draw == /\ status = "running" /\ More
        /\ \E t \in Choices : text' = Append(text, t)
        /\ UNCHANGED <<prompt, limit, greedy, status>>

Finish == /\ status = "running" /\ ~More
          /\ status' = "complete"
          /\ UNCHANGED <<prompt, limit, greedy, text>>

Fail == /\ status = "running"
        /\ status' = "failed" /\ text' = <<>>
        /\ UNCHANGED <<prompt, limit, greedy>>

Next == Draw \/ Finish \/ Fail

\* A request is answered.
Spec == Init /\ [][Next]_vars /\ WF_vars(Next)

=============================================================================
