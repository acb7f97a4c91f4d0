------------------------------ MODULE LlmDraft ------------------------------
(***************************************************************************)
(* One generation request: nya_llm_generate_draft with an ordinary draft   *)
(* model or an MTP assistant, and nya_llm_generate when there is none      *)
(* (src/backend/core/llm_cpu.c).  In a round the draft proposes up to      *)
(* `window` tokens; the target accepts a prefix of them, corrects the      *)
(* first it refuses, and adds one of its own when it accepted all.  A      *)
(* refused suffix is undone by the position alone: the rows above it stay  *)
(* in both caches.  Any pass may fail on a device and be replayed on the   *)
(* host; any failure that remains ends the request without text.           *)
(***************************************************************************)
EXTENDS RunState, FiniteSets

CONSTANTS Prompts, Limits, End, Best(_), Likely(_),
          Guess(_),  \* the tokens a draft may propose after a text
          Windows    \* speculative_tokens

Kinds == {"none", "ordinary", "assistant"}

ASSUME LlmDraftAssumption ==
  /\ Prompts \subseteq Seq(Tokens) \ {<<>>} /\ Limits \subseteq Nat \ {0}
  /\ Windows \subseteq 1 .. 32
  /\ End \in Tokens
  /\ \A p \in Prompts, l \in Limits : \A q \in BoundedSeq(Tokens, Len(p) + l) :
       Best(q) \in Tokens /\ Likely(q) \subseteq Tokens /\ Guess(q) \subseteq Tokens

VARIABLES
  prompt, limit, greedy, window, kind, soft,  \* the request
  target, draft,             \* the two run states
  text,                      \* out: the tokens emitted
  steps, drafted, accepted,  \* out: the counters
  phase,
  position,                  \* tokens the target has taken in
  proposals, q_bank,         \* the round's proposals, and for each the
                             \* prefix its probabilities belong to
  checked,                   \* proposals the target has decided about
  borrowed_length            \* mtp_cache_length

request  == <<prompt, limit, greedy, window, kind, soft>>
counters == <<steps, drafted, accepted>>
round    == <<proposals, q_bank, checked, borrowed_length>>
vars == <<prompt, limit, greedy, window, kind, soft, target, draft, text,
          steps, drafted, accepted, phase, position, proposals, q_bank,
          checked, borrowed_length>>

Over == phase \in {"complete", "failed"}

\* MTP reads the target's rows and hidden state on the host: both plans are
\* given up before anything is computed.
ForAssistant(s) == [FreePlan(s) EXCEPT !.path = "tokens"]

Init ==
  /\ prompt \in Prompts /\ limit \in Limits
  /\ greedy \in BOOLEAN /\ soft \in BOOLEAN
  /\ window \in Windows /\ kind \in Kinds
  /\ \E tp, dp \in Paths :
       LET size == Len(prompt) + limit
           t == NewState(size, tp)
           d == NewState(size, dp)
       IN /\ target = IF kind = "assistant" THEN ForAssistant(t) ELSE t
          /\ draft = IF kind = "assistant" THEN ForAssistant(d) ELSE d
          /\ kind # "ordinary" => dp = "tokens"
  /\ text = <<>> /\ steps = 0 /\ drafted = 0 /\ accepted = 0
  /\ phase = IF kind = "none" /\ ~soft THEN "feed" ELSE "prefill"
  /\ position = 0
  /\ proposals = <<>> /\ q_bank = <<>> /\ checked = 0 /\ borrowed_length = 0

\* Every goto invalid and goto cleanup with result == -1: an allocation, a
\* pass, a sample, the output bound or the final UTF-8 check failed.
Abort == /\ ~Over
         /\ phase' = "failed" /\ text' = <<>>
         /\ steps' = 0 /\ drafted' = 0 /\ accepted' = 0
         /\ UNCHANGED <<request, target, draft, position, round>>

Ended(s) == s # <<>> /\ s[Len(s)] = End
More(s)  == ~Ended(s) /\ Len(s) < limit

Drawable(p) == IF greedy THEN {Best(p)} ELSE Likely(p)

PrefillOf(s) == IF soft THEN SoftPrefill(s, prompt)
                ELSE TextPrefill(s, prompt, 0)

Prefill == /\ phase = "prefill"
           /\ \E r \in PrefillOf(target) : r.ok /\ target' = r.s
           /\ steps' = Len(prompt)
           /\ position' = IF kind = "none" THEN Len(prompt) - 1
                          ELSE Len(prompt)
           /\ phase' = CASE kind = "none" -> "sample"
                         [] kind = "ordinary" -> "prefill_draft"
                         [] kind = "assistant" -> "round"
           /\ UNCHANGED <<request, draft, text, drafted, accepted, round>>

PrefillDraft == /\ phase = "prefill_draft"
                /\ \E r \in PrefillOf(draft) : r.ok /\ draft' = r.s
                /\ phase' = "round"
                /\ UNCHANGED <<request, target, text, counters, position, round>>

(* nya_llm_generate: one token is taken in, then the next is drawn.        *)

Feed == /\ phase = "feed" /\ More(text)
        /\ LET all == prompt \o text
               last == position + 1 >= Len(prompt)
           IN /\ \E r \in Forward(target, all[position + 1], position, last) :
                   r.ok /\ target' = r.s
              /\ phase' = IF last THEN "sample" ELSE "feed"
              /\ position' = IF last THEN position ELSE position + 1
        /\ steps' = steps + 1
        /\ UNCHANGED <<request, draft, text, drafted, accepted, round>>

Sample == /\ phase = "sample"
          /\ \E t \in Drawable(target.logits) : text' = Append(text, t)
          /\ target' = Consume(target, greedy)
          /\ position' = position + 1
          /\ phase' = IF More(text') THEN "feed" ELSE "round"
          /\ UNCHANGED <<request, draft, counters, round>>

(* nya_llm_generate_draft                                                  *)

\* The target takes in a token at the position, with logits.
Advance(s, t) == {r \in Forward(s, t, position, TRUE) : r.ok}

\* The draft's pass for a token at position n of this round.
DraftRun(s, t, n) ==
  {r \in IF kind = "assistant" THEN AssistantRun(s, target, t, n, borrowed_length)
         ELSE Forward(s, t, n, TRUE) : r.ok}

\* An MTP round starts with a token of the target.  The assistant gets the
\* hidden state and the rows before that token, the target advances past it.
Base == /\ phase = "round" /\ kind = "assistant" /\ More(text)
        /\ \E t \in Drawable(target.logits) :
             LET s == Consume(target, greedy)
                 d == [draft EXCEPT !.hidden = target.hidden]
             IN /\ text' = Append(text, t)
                /\ IF More(text')
                   THEN /\ \E r \in AssistantRun(d, s, t, position, position) :
                             r.ok /\ draft' = r.s
                        /\ \E r \in Advance(s, t) : target' = r.s
                        /\ steps' = steps + 1
                        /\ position' = position + 1
                        /\ borrowed_length' = position
                        /\ proposals' = <<>> /\ q_bank' = <<>> /\ checked' = 0
                        /\ phase' = "propose"
                   ELSE /\ target' = s
                        /\ UNCHANGED <<draft, steps, position, round, phase>>
        /\ UNCHANGED <<request, drafted, accepted>>

BeginRound == /\ phase = "round" /\ kind = "ordinary" /\ More(text)
              /\ proposals' = <<>> /\ q_bank' = <<>> /\ checked' = 0
              /\ borrowed_length' = position
              /\ phase' = "propose"
              /\ UNCHANGED <<request, target, draft, text, counters, position>>

\* Mutant: the window alone bounds a round.
MaximumIsWindow == window

\* Proposals of this round.
Maximum == IF window < limit - Len(text) THEN window ELSE limit - Len(text)

\* The draft's probabilities are kept, then it takes in its own proposal.  A
\* proposed stop token ends the proposals before the draft takes it in.
Propose ==
  /\ phase = "propose"
  /\ \E t \in Guess(draft.logits) :
       LET s == Consume(draft, greedy)
       IN /\ proposals' = Append(proposals, t)
          /\ IF t = End
             THEN /\ draft' = s
                  /\ phase' = "verify"
             ELSE /\ \E r \in DraftRun(s, t, position + Len(proposals)) :
                       draft' = r.s
                  /\ phase' = IF Len(proposals) + 1 = Maximum THEN "verify"
                              ELSE "propose"
  /\ q_bank' = Append(q_bank, draft.logits)
  /\ drafted' = drafted + 1
  /\ UNCHANGED <<request, target, text, steps, accepted, position, checked,
                 borrowed_length>>

\* Mutant: a proposal the draft gave a probability is accepted.
VerdictsTrustDraft(token, choices) == {[accepted |-> TRUE, token |-> token]}

\* The rule of acceptance: a proposal the target may choose can be accepted,
\* and a refused one is replaced by another choice of the target.
Verdicts(token, choices) ==
  {[accepted |-> TRUE, token |-> token] : x \in {token} \cap choices}
  \cup {[accepted |-> FALSE, token |-> t] : t \in choices \ {token}}

\* Mutant: the draft does not take in the correction.
CorrectNothing(s, v) == {Done(s)}

\* After a refusal an ordinary draft takes in the correction.
Correct(s, v) == IF v.accepted \/ kind = "assistant" THEN {Done(s)}
                 ELSE Advance(s, v.token)

Verify ==
  /\ phase = "verify"
  /\ LET proposal == proposals[checked + 1]
     IN \E v \in Verdicts(proposal, Drawable(target.logits)) :
          LET s == Consume(target, greedy)
          IN /\ text' = Append(text, v.token)
             /\ accepted' = IF v.accepted THEN accepted + 1 ELSE accepted
             /\ IF More(text')
                THEN /\ \E r \in Advance(s, v.token) : target' = r.s
                     /\ \E r \in Correct(draft, v) : draft' = r.s
                     /\ steps' = steps + 1
                ELSE /\ target' = s
                     /\ UNCHANGED <<draft, steps>>
             /\ phase' = CASE ~v.accepted \/ ~More(text') -> "round"
                           [] v.accepted /\ More(text')
                              /\ checked + 1 < Len(proposals) -> "verify"
                           [] v.accepted /\ More(text')
                              /\ checked + 1 = Len(proposals) ->
                                IF kind = "ordinary" THEN "bonus" ELSE "round"
  /\ position' = position + 1
  /\ checked' = checked + 1
  /\ UNCHANGED <<request, drafted, proposals, q_bank, borrowed_length>>

\* All proposals were accepted: the target's next choice is already there.
Bonus == /\ phase = "bonus"
         /\ \E t \in Drawable(target.logits) :
              LET s == Consume(target, greedy)
              IN /\ text' = Append(text, t)
                 /\ IF More(text')
                    THEN /\ \E r \in Advance(s, t) : target' = r.s
                         /\ \E r \in Advance(draft, t) : draft' = r.s
                         /\ steps' = steps + 1
                    ELSE /\ target' = s
                         /\ UNCHANGED <<draft, steps>>
         /\ position' = position + 1
         /\ phase' = "round"
         /\ UNCHANGED <<request, drafted, accepted, round>>

Finish == /\ phase = "round" /\ ~More(text)
          /\ phase' = "complete"
          /\ UNCHANGED <<request, target, draft, text, counters, position, round>>

Next == Prefill \/ PrefillDraft \/ Feed \/ Sample \/ Base \/ BeginRound
        \/ Propose \/ Verify \/ Bonus \/ Finish \/ Abort

\* One thread runs the request to its end.
Spec == Init /\ [][Next]_vars /\ WF_vars(Next)

----------------------------------------------------------------------------
Size == Len(prompt) + limit

\* Every position that is passed to a run state lies in its buffers, and no
\* round proposes past the limit.
TypeOK ==
  /\ prompt \in Prompts /\ limit \in Limits /\ kind \in Kinds
  /\ {greedy, soft} \subseteq BOOLEAN /\ window \in Windows
  /\ Capacity(target) = Size /\ Capacity(draft) = Size
  /\ text \in BoundedSeq(Tokens, limit)
  /\ {steps, drafted, accepted} \subseteq Nat
  /\ phase \in {"prefill", "prefill_draft", "feed", "sample", "round",
                "propose", "verify", "bonus", "complete", "failed"}
  /\ position \in 0 .. Size
  /\ phase = "feed" => position < Size
  /\ phase = "propose" => position + Len(proposals) < Size
  /\ phase \in {"verify", "bonus"} => position < Size
  /\ proposals \in Seq(Tokens) /\ Len(q_bank) = Len(proposals)
  /\ checked <= Len(proposals)
  /\ borrowed_length <= position

\* The logits are those of exactly this text, not yet consumed.
Exact(s, p) == s.logits = p /\ s.fresh

(* Every probability that decides about a token belongs to the exact text  *)
(* before that token: the target's when it draws or verifies, the draft's  *)
(* when it proposes, and the stored one a proposal is compared with.  It   *)
(* must hold although refused rows stay in both caches, an end token is    *)
(* proposed but never taken in by the draft, an assistant borrows rows the *)
(* target is writing after, and a device can fail and be replayed at any   *)
(* of these passes (llm_cpu.c:1149-1150, "old KV bytes above it are never  *)
(* read").                                                                 *)
ExactTexts ==
  LET all == prompt \o text
  IN /\ phase \in {"sample", "verify", "bonus"} => Exact(target, all)
     /\ phase = "round" /\ kind = "assistant" /\ More(text)
          => Exact(target, all) /\ target.hidden = all
     /\ phase = "propose" => Exact(draft, all \o proposals)
     /\ phase = "verify" => q_bank[checked + 1] = all

(* Rounds stay inside the buffers, whatever limit, window and stop tokens   *)
(* cut them short; and in a complete response the target made one step for *)
(* each token of the prompt and each generated token but the last, whatever *)
(* was proposed, and accepted no more than was proposed or generated.      *)
CountsAreExact ==
  /\ TypeOK
  /\ phase = "complete" =>
    /\ steps = Len(prompt) + Len(text) - 1
    /\ accepted <= drafted /\ accepted <= Len(text)
    /\ drafted > 0 => kind # "none"

Status == IF phase \in {"complete", "failed"} THEN phase ELSE "running"

(* Speculation, devices and replays change nothing: a request draws its    *)
(* tokens one by one from the target's distribution for the text so far,   *)
(* stops at the end token or the limit, is always answered, and returns no *)
(* text when it fails.                                                     *)
G == INSTANCE Generation WITH status <- Status
IsGeneration == G!Spec

=============================================================================
