--------------------------- MODULE LlmDraftProofs ---------------------------
(***************************************************************************)
(* What LlmDraft's runs check, for every vocabulary, model, prompt, limit  *)
(* and window: every probability that decides about a token belongs to the *)
(* exact text before it, the counters are exact, and no step does what a   *)
(* plain generation could not do.  The inductive invariant says, phase by  *)
(* phase, which prefix the rows of both caches still belong to.  Behind    *)
(* them, the theorems about the pool that computes the rows (RowPool), for *)
(* every number of threads, rows and jobs and every width of the epoch     *)
(* counter.                                                                *)
(***************************************************************************)
EXTENDS LlmDraft, RunStateProofs, RowPool, FiniteSetTheorems

All == prompt \o text

\* The caches and the logits of s are those of exactly the text p.
Ready(s, p) == Holds(s, p) /\ Exact(s, p)

Typed ==
  /\ prompt \in Prompts /\ limit \in Limits /\ kind \in Kinds
  /\ greedy \in BOOLEAN /\ soft \in BOOLEAN /\ window \in Windows
  /\ target \in States(Size) /\ ~target.borrowed
  /\ draft \in States(Size) /\ ~draft.borrowed
  /\ kind = "assistant" => target.path # "resident" /\ draft.path # "resident"
  /\ text \in Seq(Tokens) /\ Len(text) <= limit
  /\ steps \in Nat /\ drafted \in Nat /\ accepted \in Nat
  /\ phase \in {"prefill", "prefill_draft", "feed", "sample", "round",
                "propose", "verify", "bonus", "complete", "failed"}
  /\ position \in 0 .. Size
  /\ proposals \in Seq(Tokens) /\ q_bank \in Seq(Seq(Tokens))
  /\ Len(q_bank) = Len(proposals)
  /\ checked \in 0 .. Len(proposals)
  /\ borrowed_length \in 0 .. position
  /\ accepted <= drafted /\ accepted <= Len(text)
  /\ drafted > 0 => kind # "none"

\* Nothing has been computed.
InPrefill == text = <<>> /\ position = 0 /\ steps = 0

InPrefillDraft == /\ kind = "ordinary" /\ text = <<>>
                  /\ position = Len(All) /\ steps = position
                  /\ Ready(target, All)

\* The prompt is fed token by token, then each token that was drawn.
InFeed == /\ kind = "none" /\ More(text)
          /\ position < Len(All) /\ (text # <<>> => position = Len(All) - 1)
          /\ steps = position
          /\ Holds(target, SubSeq(All, 1, position))

InSample == /\ kind = "none" /\ More(text)
            /\ position = Len(All) - 1 /\ steps = Len(All)
            /\ Ready(target, All)

\* Between rounds the target is ready for the next token, an ordinary draft
\* too; a request that is about to end has not taken its last token in.
InRound ==
  IF More(text)
  THEN /\ kind # "none" /\ position = Len(All) /\ steps = position
       /\ Ready(target, All)
       /\ kind = "ordinary" => Ready(draft, All)
       /\ kind = "assistant" => target.hidden = All
  ELSE steps = Len(All) - 1

\* The draft is ahead of the target by its proposals.
InPropose ==
  /\ kind # "none" /\ More(text) /\ position = Len(All) /\ steps = position
  /\ Ready(target, All)
  /\ checked = 0 /\ Len(proposals) < Maximum
  /\ \A i \in 1 .. Len(proposals) : proposals[i] # End
  /\ \A i \in 1 .. Len(proposals) : q_bank[i] = All \o SubSeq(proposals, 1, i - 1)
  /\ Exact(draft, All \o proposals)
  /\ kind = "ordinary" => Holds(draft, All \o proposals)
  /\ kind = "assistant" => draft.hidden = All \o proposals
  /\ accepted + Len(proposals) <= drafted

\* The text as it will be when all proposals are accepted.
Whole == SubSeq(All, 1, Len(All) - checked) \o proposals

\* The target has accepted `checked` proposals.  The draft has taken in all of
\* them but a stop token.
InVerify ==
  /\ kind # "none" /\ More(text) /\ position = Len(All) /\ steps = position
  /\ Ready(target, All)
  /\ checked < Len(proposals) /\ checked <= Len(text) /\ Len(Whole) <= Size
  /\ All = SubSeq(Whole, 1, Len(All))
  /\ \A i \in 1 .. Len(proposals) - 1 : proposals[i] # End
  /\ \A i \in 1 .. Len(proposals) :
       q_bank[i] = SubSeq(Whole, 1, Len(All) - checked + i - 1)
  /\ kind = "ordinary" => /\ Holds(draft, SubSeq(Whole, 1, Len(Whole) - 1))
                          /\ proposals[Len(proposals)] # End => Holds(draft, Whole)
  /\ accepted + Len(proposals) - checked <= drafted

InBonus == /\ kind = "ordinary" /\ More(text)
           /\ position = Len(All) /\ steps = position
           /\ Ready(target, All) /\ Holds(draft, All)

InPhase ==
  /\ phase = "prefill" => InPrefill
  /\ phase = "prefill_draft" => InPrefillDraft
  /\ phase = "feed" => InFeed
  /\ phase = "sample" => InSample
  /\ phase = "round" => InRound
  /\ phase = "propose" => InPropose
  /\ phase = "verify" => InVerify
  /\ phase = "bonus" => InBonus
  /\ phase = "complete" => steps = Len(All) - 1
  /\ phase = "failed" => text = <<>>

IInv == Typed /\ InPhase

-----------------------------------------------------------------------------
(* Texts and choices                                                       *)

LEMMA RequestTypes ==
  ASSUME prompt \in Prompts, limit \in Limits, window \in Windows
  PROVE  /\ prompt \in Seq(Tokens) /\ prompt # <<>> /\ Len(prompt) \in Nat \ {0}
         /\ limit \in Nat \ {0} /\ window \in Nat \ {0}
         /\ Size \in Nat /\ Len(prompt) <= Size
<1>1. prompt \in Seq(Tokens) /\ prompt # <<>> /\ limit \in Nat \ {0} /\ window \in 1 .. 32
  BY LlmDraftAssumption
<1>2. Len(prompt) \in Nat \ {0}
  BY <1>1, EmptySeq
<1> QED BY <1>1, <1>2 DEF Size

LEMMA AllType ==
  ASSUME Typed
  PROVE  /\ All \in Seq(Tokens) /\ Len(All) = Len(prompt) + Len(text)
         /\ Len(text) \in Nat /\ Len(All) \in Nat \ {0} /\ Len(All) <= Size
<1>1. prompt \in Seq(Tokens) /\ Len(prompt) \in Nat \ {0} /\ limit \in Nat
  BY RequestTypes DEF Typed
<1>2. text \in Seq(Tokens) /\ Len(text) \in Nat /\ Len(text) <= limit
  BY LenProperties DEF Typed
<1>3. All \in Seq(Tokens) /\ Len(All) = Len(prompt) + Len(text)
  BY <1>1, <1>2, ConcatProperties DEF All
<1> QED BY <1>1, <1>2, <1>3 DEF Size

\* The models choose tokens of the vocabulary.
LEMMA ChoicesAreTokens ==
  ASSUME prompt \in Prompts, limit \in Limits, NEW p \in Seq(Tokens), Len(p) <= Size
  PROVE  Drawable(p) \subseteq Tokens /\ Guess(p) \subseteq Tokens
<1>1. prompt \in Seq(Tokens) /\ limit \in Nat
  BY LlmDraftAssumption
<1>2. Len(prompt) + limit \in Nat
  BY <1>1, LenProperties
<1>3. p \in BoundedSeq(Tokens, Len(prompt) + limit)
  BY <1>2, BoundedSeqIs DEF Size
<1>4. Best(p) \in Tokens /\ Likely(p) \subseteq Tokens /\ Guess(p) \subseteq Tokens
  BY <1>3, LlmDraftAssumption
<1> QED BY <1>4 DEF Drawable

\* A token is emitted.
LEMMA Emit ==
  ASSUME Typed, More(text), NEW t \in Tokens, text' = Append(text, t),
         UNCHANGED request
  PROVE  /\ All' = Append(All, t) /\ All' \in Seq(Tokens)
         /\ Len(All') = Len(All) + 1 /\ Len(text') = Len(text) + 1
         /\ text' \in Seq(Tokens) /\ text' # <<>> /\ Len(text') <= limit
         /\ Size' = Size /\ Len(All) < Size
         /\ More(text') <=> t # End /\ Len(text) + 1 < limit
         /\ More(text)' <=> More(text')
<1>1. prompt \in Seq(Tokens) /\ limit \in Nat /\ Len(prompt) \in Nat
  BY RequestTypes DEF Typed
<1>2. /\ All \in Seq(Tokens) /\ Len(All) = Len(prompt) + Len(text) /\ Len(text) \in Nat
      /\ text \in Seq(Tokens)
  BY AllType DEF Typed
<1>3. prompt' = prompt /\ limit' = limit
  BY DEF request
<1>4. /\ text' \in Seq(Tokens) /\ text' # <<>> /\ Len(text') = Len(text) + 1
      /\ text'[Len(text) + 1] = t
  BY <1>2, AppendProperties
<1>5. All' = prompt \o Append(text, t)
  BY <1>3 DEF All
<1>6. All' = Append(All, t)
  BY <1>1, <1>2, <1>5, AppendToConcat DEF All
<1>7. All' \in Seq(Tokens) /\ Len(All') = Len(All) + 1
  BY <1>2, <1>6, AppendProperties
<1>8. Len(text) < limit
  BY DEF More
<1>9. Ended(text') <=> t = End
  BY <1>4 DEF Ended
<1>10. More(text') <=> t # End /\ Len(text) + 1 < limit
  BY <1>4, <1>9 DEF More
<1>11. More(text)' <=> More(text')
  BY <1>3 DEF More, Ended
<1> QED BY <1>1, <1>2, <1>3, <1>4, <1>6, <1>7, <1>8, <1>10, <1>11 DEF Size

\* Nothing but the run states and the counters changes.
LEMMA Silent ==
  ASSUME UNCHANGED <<request, text>>
  PROVE  All' = All /\ Size' = Size /\ (More(text)' <=> More(text)) /\ Maximum' = Maximum
  BY DEF request, All, Size, More, Ended, Maximum

\* A pass of the target or of an ordinary draft after the text p.
LEMMA AdvanceHolds ==
  ASSUME Typed, NEW s \in States(Size), NEW p, Holds(s, p), NEW t \in Tokens,
         NEW r \in Forward(s, t, Len(p), TRUE), r.ok
  PROVE  /\ r.s \in States(Size) /\ ~r.s.borrowed /\ Len(p) + 1 <= Size
         /\ s.path # "resident" => r.s.path # "resident"
         /\ Ready(r.s, Append(p, t))
         /\ s.path # "resident" => r.s.hidden = Append(p, t)
<1>1. Size \in Nat
  BY RequestTypes DEF Typed
<1> QED BY <1>1, ForwardHolds DEF Ready, Exact

LEMMA ConsumeKeeps ==
  ASSUME Typed, NEW s \in States(Size)
  PROVE  LET t == Consume(s, greedy)
         IN /\ t \in States(Size) /\ t.path = s.path /\ t.borrowed = s.borrowed
            /\ t.cache = s.cache /\ t.hidden = s.hidden /\ t.logits = s.logits
            /\ \A p : Holds(s, p) => Holds(t, p)
<1>1. Size \in Nat /\ greedy \in BOOLEAN
  BY RequestTypes DEF Typed
<1> QED BY <1>1, ConsumeHolds

-----------------------------------------------------------------------------
(* The actions                                                             *)

LEMMA InitHolds == Init => IInv
<1> SUFFICES ASSUME Init PROVE IInv
  OBVIOUS
<1>1. /\ prompt \in Prompts /\ limit \in Limits /\ window \in Windows /\ kind \in Kinds
      /\ greedy \in BOOLEAN /\ soft \in BOOLEAN /\ text = <<>> /\ position = 0
      /\ steps = 0 /\ drafted = 0 /\ accepted = 0
      /\ proposals = <<>> /\ q_bank = <<>> /\ checked = 0 /\ borrowed_length = 0
      /\ phase = IF kind = "none" /\ ~soft THEN "feed" ELSE "prefill"
  BY DEF Init
<1>2. /\ Size \in Nat /\ limit \in Nat \ {0} /\ prompt \in Seq(Tokens)
      /\ Len(prompt) \in Nat \ {0}
  BY <1>1, RequestTypes
<1>3. PICK tp \in Paths, dp \in Paths :
        LET t == NewState(Size, tp)
            d == NewState(Size, dp)
        IN /\ target = IF kind = "assistant" THEN ForAssistant(t) ELSE t
           /\ draft = IF kind = "assistant" THEN ForAssistant(d) ELSE d
  BY DEF Init, Size
<1>4. ASSUME NEW path \in Paths
      PROVE  LET s == NewState(Size, path)
                 a == ForAssistant(s)
             IN /\ s \in States(Size) /\ ~s.borrowed
                /\ a \in States(Size) /\ ~a.borrowed /\ a.path # "resident"
  <2> DEFINE s == NewState(Size, path)
             f == FreePlan(s)
  <2>1. s \in States(Size) /\ ~s.borrowed
    BY <1>2, NewStateType DEF Holds
  <2>2. f \in States(Size) /\ ~f.borrowed
    BY <1>2, <2>1, FreePlanType
  <2> HIDE DEF f
  <2>3. [f EXCEPT !.path = "tokens"] \in States(Size) /\ ~[f EXCEPT !.path = "tokens"].borrowed
        /\ [f EXCEPT !.path = "tokens"].path = "tokens"
    BY <2>2 DEF States, Paths
  <2> QED BY <2>1, <2>3 DEF ForAssistant, f
<1>5. /\ target \in States(Size) /\ ~target.borrowed
      /\ draft \in States(Size) /\ ~draft.borrowed
      /\ kind = "assistant" => target.path # "resident" /\ draft.path # "resident"
  BY <1>3, <1>4
<1>6. <<>> \in Seq(Tokens) /\ <<>> \in Seq(Seq(Tokens)) /\ Len(<<>>) = 0
  BY EmptySeq
<1>7. Typed
  BY <1>1, <1>2, <1>5, <1>6 DEF Typed
<1>8. phase = "feed" => InFeed
  <2> SUFFICES ASSUME phase = "feed" PROVE InFeed
    OBVIOUS
  <2>1. kind = "none"
    BY <1>1
  <2>2. Len(All) > 0 /\ All \in Seq(Tokens)
    BY <1>7, AllType
  <2>3. More(text)
    BY <1>1, <1>2, <1>6 DEF More, Ended
  <2>4. SubSeq(All, 1, 0) = <<>>
    BY SubSeqEmpty
  <2>5. target \in States(Size) /\ ~target.borrowed /\ Capacity(target) = Size
    BY <1>2, <1>5, StateParts
  <2>6. Holds(target, <<>>)
    BY <1>2, <1>6, <2>5 DEF Holds, RowsOf
  <2> QED BY <1>1, <2>1, <2>2, <2>3, <2>4, <2>6 DEF InFeed
<1>9. phase \in {"feed", "prefill"} /\ InPrefill
  BY <1>1 DEF InPrefill
<1> QED BY <1>7, <1>8, <1>9 DEF IInv, InPhase

\* A prefill, of text alone or with soft tokens, leaves a run state ready for
\* the first token.
LEMMA PrefillHolds ==
  ASSUME Typed, NEW s \in States(Size), ~s.borrowed, NEW r \in PrefillOf(s), r.ok
  PROVE  /\ r.s \in States(Size) /\ ~r.s.borrowed /\ Ready(r.s, prompt)
         /\ s.path # "resident" => r.s.path # "resident" /\ r.s.hidden = prompt
<1>1. /\ prompt \in Seq(Tokens) /\ prompt # <<>> /\ Size \in Nat /\ Len(prompt) <= Size
      /\ Len(prompt) \in Nat
  BY RequestTypes DEF Typed
<1>2. CASE soft
  <2>1. r \in SoftPrefill(s, prompt)
    BY <1>2 DEF PrefillOf
  <2>2. /\ r.s \in States(Size) /\ ~r.s.borrowed /\ r.s.path # "resident"
        /\ Holds(r.s, prompt) /\ r.s.logits = prompt /\ r.s.fresh /\ r.s.hidden = prompt
    BY <1>1, <2>1, SoftPrefillHolds
  <2> QED BY <2>2 DEF Ready, Exact
<1>3. CASE ~soft
  <2> DEFINE e == <<>>
  <2>1. e \in Seq(Tokens) /\ Len(e) = 0 /\ e \o prompt = prompt
    BY <1>1, EmptySeq, ConcatEmptySeq
  <2>2. Capacity(s) = Size
    BY <1>1, StateParts
  <2>3. Holds(s, e)
    BY <1>1, <2>1, <2>2 DEF Holds, RowsOf
  <2> HIDE DEF e
  <2>4. r \in Pass(s, prompt, Len(e), TRUE)
    BY <1>3, <2>1, TextPrefillIsPass DEF PrefillOf
  <2>5. /\ r.s \in States(Size) /\ ~r.s.borrowed /\ Holds(r.s, e \o prompt)
        /\ r.s.logits = e \o prompt /\ r.s.fresh
        /\ s.path # "resident" => r.s.path # "resident" /\ r.s.hidden = e \o prompt
    BY <1>1, <2>3, <2>4, PassHolds
  <2> QED BY <2>1, <2>5 DEF Ready, Exact
<1> QED BY <1>2, <1>3

LEMMA PrefillStep == IInv /\ Prefill => IInv'
<1> SUFFICES ASSUME IInv, Prefill PROVE IInv'
  OBVIOUS
<1>1. Typed /\ text = <<>> /\ position = 0 /\ steps = 0
  BY DEF IInv, InPhase, Prefill, InPrefill
<1>2. /\ prompt \in Seq(Tokens) /\ prompt # <<>> /\ Size \in Nat /\ Len(prompt) <= Size
      /\ Len(prompt) \in Nat \ {0} /\ limit \in Nat \ {0}
  BY <1>1, RequestTypes DEF Typed
<1>3. target \in States(Size) /\ ~target.borrowed
  BY <1>1 DEF Typed
<1>4. PICK r \in PrefillOf(target) : r.ok /\ target' = r.s
  BY DEF Prefill
<1>5. /\ target' \in States(Size) /\ ~target'.borrowed /\ Ready(target', prompt)
      /\ target.path # "resident" => target'.path # "resident" /\ target'.hidden = prompt
  BY <1>1, <1>3, <1>4, PrefillHolds
<1>6. All = prompt
  BY <1>1, <1>2, ConcatEmptySeq DEF All
<1>7. All' = prompt /\ Size' = Size /\ (More(text)' <=> More(text))
  BY <1>6, Silent DEF Prefill
<1>8. More(text)
  BY <1>1, <1>2 DEF More, Ended
<1>9. /\ steps' = Len(prompt) /\ phase' \in {"sample", "prefill_draft", "round"}
      /\ position' = IF kind = "none" THEN Len(prompt) - 1 ELSE Len(prompt)
      /\ phase' = "sample" <=> kind = "none"
      /\ phase' = "prefill_draft" <=> kind = "ordinary"
      /\ phase' = "round" <=> kind = "assistant"
      /\ UNCHANGED <<request, draft, text, drafted, accepted, round>>
  BY <1>1 DEF Prefill, Typed, Kinds
<1>10. Typed'
  <2>1. position' \in 0 .. Size /\ borrowed_length' \in 0 .. position'
    BY <1>1, <1>2, <1>9 DEF Typed, round
  <2> QED BY <1>1, <1>2, <1>5, <1>7, <1>9, <2>1 DEF Typed, request, round
<1>11. ASSUME phase' = "sample" PROVE InSample'
  BY <1>2, <1>5, <1>7, <1>8, <1>9, <1>11 DEF InSample, request
<1>12. ASSUME phase' = "prefill_draft" PROVE InPrefillDraft'
  BY <1>1, <1>2, <1>5, <1>7, <1>9, <1>12 DEF InPrefillDraft, request
<1>13. ASSUME phase' = "round" PROVE InRound'
  <2>1. kind' = "assistant" /\ kind = "assistant"
    BY <1>9, <1>13 DEF request
  <2>2. target'.hidden = prompt
    BY <1>1, <1>5, <2>1 DEF Typed
  <2> QED BY <1>1, <1>2, <1>5, <1>7, <1>8, <1>9, <2>1, <2>2 DEF InRound
<1> QED BY <1>9, <1>10, <1>11, <1>12, <1>13 DEF IInv, InPhase

LEMMA PrefillDraftStep == IInv /\ PrefillDraft => IInv'
<1> SUFFICES ASSUME IInv, PrefillDraft PROVE IInv'
  OBVIOUS
<1>1. Typed /\ InPrefillDraft
  BY DEF IInv, InPhase, PrefillDraft
<1>2. /\ prompt \in Seq(Tokens) /\ Size \in Nat /\ limit \in Nat \ {0}
      /\ draft \in States(Size) /\ ~draft.borrowed
  BY <1>1, RequestTypes DEF Typed
<1>3. PICK r \in PrefillOf(draft) : r.ok /\ draft' = r.s
  BY DEF PrefillDraft
<1>4. /\ draft' \in States(Size) /\ ~draft'.borrowed /\ Ready(draft', prompt)
  BY <1>1, <1>2, <1>3, PrefillHolds
<1>5. All = prompt
  BY <1>1, <1>2, ConcatEmptySeq DEF All, InPrefillDraft
<1>6. All' = All /\ Size' = Size /\ (More(text)' <=> More(text))
  BY Silent DEF PrefillDraft
<1>7. /\ phase' = "round" /\ kind = "ordinary"
      /\ UNCHANGED <<request, target, text, counters, position, round>>
  BY <1>1 DEF PrefillDraft, InPrefillDraft
<1>8. More(text)
  BY <1>1, <1>2 DEF More, Ended, InPrefillDraft
<1>9. Typed'
  BY <1>1, <1>4, <1>6, <1>7 DEF Typed, request, counters, round
<1>10. InRound'
  BY <1>1, <1>4, <1>5, <1>6, <1>7, <1>8 DEF InPrefillDraft, InRound, request, counters
<1> QED BY <1>7, <1>9, <1>10 DEF IInv, InPhase

LEMMA FeedStep == IInv /\ Feed => IInv'
<1> SUFFICES ASSUME IInv, Feed PROVE IInv'
  OBVIOUS
<1> DEFINE p == SubSeq(All, 1, position)
           t == All[position + 1]
           last == position + 1 >= Len(prompt)
<1>1. Typed /\ InFeed
  BY DEF IInv, InPhase, Feed
<1>2. /\ Size \in Nat /\ Len(prompt) \in Nat \ {0} /\ All \in Seq(Tokens)
      /\ Len(All) = Len(prompt) + Len(text) /\ Len(text) \in Nat /\ Len(All) <= Size
      /\ target \in States(Size) /\ position \in 0 .. Size
  BY <1>1, RequestTypes, AllType DEF Typed
<1>3. Holds(target, p) /\ position < Len(All) /\ position \in 0 .. Len(All)
  BY <1>1, <1>2 DEF InFeed
<1>4. Len(p) = position /\ p \in Seq(Tokens)
  BY <1>2, <1>3, FirstOf
<1>5. t \in Tokens /\ SubSeq(All, 1, position + 1) = Append(p, t)
  BY <1>2, <1>3, FirstAndNext
<1>6. PICK r \in Forward(target, t, position, last) : r.ok /\ target' = r.s
  BY DEF Feed, All
<1>7. /\ UNCHANGED <<request, draft, text, drafted, accepted, round>>
      /\ phase' = IF last THEN "sample" ELSE "feed"
      /\ position' = IF last THEN position ELSE position + 1
      /\ steps' = steps + 1
  BY DEF Feed
<1>8. All' = All /\ Size' = Size /\ (More(text)' <=> More(text))
  BY <1>7, Silent
<1> HIDE DEF p, t, last
<1>9. last \in BOOLEAN /\ r \in Forward(target, t, Len(p), last)
  BY <1>4, <1>6 DEF last
<1>10. /\ r.s \in States(Size) /\ ~r.s.borrowed
       /\ target.path # "resident" => r.s.path # "resident"
       /\ Holds(r.s, Append(p, t))
       /\ last => r.s.logits = Append(p, t) /\ r.s.fresh
  BY <1>2, <1>3, <1>5, <1>6, <1>9, ForwardHolds
<1>11. Typed'
  <2>1. position' \in 0 .. Size /\ borrowed_length' \in 0 .. position'
    BY <1>1, <1>2, <1>3, <1>7 DEF Typed, round
  <2>2. phase' \in {"sample", "feed"} /\ steps' \in Nat
    BY <1>1, <1>7 DEF Typed
  <2> QED BY <1>1, <1>6, <1>7, <1>8, <1>10, <2>1, <2>2 DEF Typed, request, round
<1>12. CASE last
  <2>1. position + 1 = Len(All)
    <3>1. CASE text = <<>>
      <4>1. Len(text) = 0
        BY <3>1, EmptySeq
      <4> QED BY <1>2, <1>3, <1>12, <4>1 DEF last
    <3>2. CASE text # <<>>
      BY <1>1, <1>2, <3>2 DEF InFeed
    <3> QED BY <3>1, <3>2
  <2>2. Append(p, t) = All
    BY <1>2, <1>5, <2>1, SubSeqFull
  <2>3. Ready(target', All')
    BY <1>6, <1>8, <1>10, <1>12, <2>2 DEF Ready, Exact
  <2>4. InSample'
    BY <1>1, <1>2, <1>7, <1>8, <1>12, <2>1, <2>3 DEF InSample, InFeed, request
  <2> QED BY <1>7, <1>11, <1>12, <2>4 DEF IInv, InPhase
<1>13. CASE ~last
  <2>1. text = <<>>
    <3> SUFFICES ASSUME text # <<>> PROVE FALSE
      OBVIOUS
    <3>1. position = Len(All) - 1
      BY <1>1 DEF InFeed
    <3> QED BY <1>2, <1>13, <3>1 DEF last
  <2>2. position + 1 < Len(All)
    <3>1. Len(text) = 0
      BY <2>1, EmptySeq
    <3> QED BY <1>2, <1>13, <3>1 DEF last
  <2>3. Holds(target', SubSeq(All', 1, position'))
    BY <1>5, <1>6, <1>7, <1>8, <1>10, <1>13
  <2>4. InFeed'
    BY <1>1, <1>7, <1>8, <1>13, <2>1, <2>2, <2>3 DEF InFeed, request
  <2> QED BY <1>7, <1>11, <1>13, <2>4 DEF IInv, InPhase
<1> QED BY <1>12, <1>13

LEMMA SampleStep == IInv /\ Sample => IInv'
<1> SUFFICES ASSUME IInv, Sample PROVE IInv'
  OBVIOUS
<1>1. Typed /\ InSample
  BY DEF IInv, InPhase, Sample
<1>2. /\ Size \in Nat /\ All \in Seq(Tokens) /\ Len(All) \in Nat \ {0} /\ Len(All) <= Size
      /\ Len(text) \in Nat /\ target \in States(Size) /\ prompt \in Prompts /\ limit \in Limits
  BY <1>1, RequestTypes, AllType DEF Typed
<1>3. Holds(target, All) /\ target.logits = All /\ More(text) /\ kind = "none"
  BY <1>1 DEF InSample, Ready, Exact
<1>4. PICK t \in Drawable(target.logits) : text' = Append(text, t)
  BY DEF Sample
<1>5. t \in Tokens
  BY <1>2, <1>3, <1>4, ChoicesAreTokens
<1>6. /\ target' = Consume(target, greedy) /\ position' = position + 1
      /\ phase' = IF More(text') THEN "feed" ELSE "round"
      /\ UNCHANGED <<request, draft, counters, round>>
  BY DEF Sample
<1>7. /\ All' = Append(All, t) /\ Len(All') = Len(All) + 1 /\ Size' = Size
      /\ text' \in Seq(Tokens) /\ text' # <<>> /\ Len(text') <= limit
      /\ Len(text') = Len(text) + 1 /\ (More(text)' <=> More(text')) /\ Len(All) < Size
  BY <1>1, <1>3, <1>4, <1>5, <1>6, Emit
<1>8. target' \in States(Size) /\ target'.path = target.path
      /\ target'.borrowed = target.borrowed /\ Holds(target', All)
  BY <1>1, <1>2, <1>3, <1>6, ConsumeKeeps
<1>9. position = Len(All) - 1 /\ steps = Len(All)
  BY <1>1 DEF InSample
<1>10. Typed'
  <2>1. position' \in 0 .. Size /\ borrowed_length' \in 0 .. position'
    BY <1>1, <1>2, <1>6, <1>7, <1>9 DEF Typed, round
  <2>2. phase' \in {"feed", "round"} /\ accepted' <= Len(text')
    BY <1>1, <1>2, <1>6, <1>7 DEF Typed, counters
  <2> QED BY <1>1, <1>6, <1>7, <1>8, <2>1, <2>2 DEF Typed, request, counters, round
<1>11. CASE More(text')
  <2>1. SubSeq(All', 1, position') = All
    <3>1. position' = Len(All) /\ position' \in 1 .. Len(All) /\ position' \in 0 .. Len(All)
      BY <1>2, <1>6, <1>9
    <3>2. All' = All \o <<t>> /\ <<t>> \in Seq(Tokens)
      BY <1>2, <1>5, <1>7, AppendToConcat
    <3>3. SubSeq(All \o <<t>>, 1, Len(All)) = SubSeq(All, 1, Len(All))
      BY <1>2, <3>1, <3>2, FirstOfConcat
    <3> QED BY <1>2, <3>1, <3>2, <3>3, SubSeqFull
  <2>2. Holds(target', SubSeq(All', 1, position'))
    BY <1>8, <2>1
  <2>3. position' < Len(All') /\ position' = Len(All') - 1 /\ steps' = position'
    BY <1>2, <1>6, <1>7, <1>9 DEF counters
  <2>4. InFeed'
    BY <1>3, <1>6, <1>7, <1>11, <2>2, <2>3 DEF InFeed, request
  <2> QED BY <1>6, <1>10, <1>11, <2>4 DEF IInv, InPhase
<1>12. CASE ~More(text')
  <2>1. InRound'
    BY <1>2, <1>6, <1>7, <1>9, <1>12 DEF InRound, counters
  <2> QED BY <1>6, <1>10, <1>12, <2>1 DEF IInv, InPhase
<1> QED BY <1>11, <1>12

\* An MTP round begins: the assistant starts from the hidden state and the rows
\* before the token that the target then takes in.
LEMMA BaseStep == IInv /\ Base => IInv'
<1> SUFFICES ASSUME IInv, Base PROVE IInv'
  OBVIOUS
<1>1. Typed /\ InRound /\ More(text) /\ kind = "assistant"
  BY DEF IInv, InPhase, Base
<1>2. /\ Size \in Nat /\ All \in Seq(Tokens) /\ Len(All) \in Nat \ {0} /\ Len(All) <= Size
      /\ Len(text) \in Nat /\ target \in States(Size) /\ draft \in States(Size)
      /\ prompt \in Prompts /\ limit \in Limits /\ limit \in Nat /\ window \in Nat \ {0}
  BY <1>1, RequestTypes, AllType DEF Typed
<1>3. /\ Holds(target, All) /\ target.logits = All /\ target.hidden = All
      /\ position = Len(All) /\ steps = Len(All)
  BY <1>1 DEF InRound, Ready, Exact
<1> DEFINE s == Consume(target, greedy)
           d == [draft EXCEPT !.hidden = target.hidden]
<1>4. /\ UNCHANGED <<request, drafted, accepted>>
      /\ \E t \in Drawable(target.logits) :
           /\ text' = Append(text, t)
           /\ IF More(text')
              THEN /\ \E r \in AssistantRun(d, s, t, position, position) :
                        r.ok /\ draft' = r.s
                   /\ \E r \in Advance(s, t) : target' = r.s
                   /\ steps' = steps + 1
                   /\ position' = position + 1
                   /\ borrowed_length' = position
                   /\ proposals' = <<>> /\ q_bank' = <<>> /\ checked' = 0
                   /\ phase' = "propose"
              ELSE /\ target' = s
                   /\ UNCHANGED <<draft, steps, position, round, phase>>
  BY DEF Base
<1>5. PICK t \in Drawable(target.logits) :
        /\ text' = Append(text, t)
        /\ IF More(text')
           THEN /\ \E r \in AssistantRun(d, s, t, position, position) :
                     r.ok /\ draft' = r.s
                /\ \E r \in Advance(s, t) : target' = r.s
                /\ steps' = steps + 1
                /\ position' = position + 1
                /\ borrowed_length' = position
                /\ proposals' = <<>> /\ q_bank' = <<>> /\ checked' = 0
                /\ phase' = "propose"
           ELSE /\ target' = s
                /\ UNCHANGED <<draft, steps, position, round, phase>>
  BY <1>4
<1>6. t \in Tokens
  BY <1>2, <1>3, <1>5, ChoicesAreTokens
<1>7. /\ All' = Append(All, t) /\ Len(All') = Len(All) + 1 /\ Size' = Size
      /\ text' \in Seq(Tokens) /\ text' # <<>> /\ Len(text') <= limit
      /\ Len(text') = Len(text) + 1 /\ (More(text)' <=> More(text')) /\ Len(All) < Size
      /\ (More(text') <=> t # End /\ Len(text) + 1 < limit)
      /\ All' \in Seq(Tokens)
  BY <1>1, <1>4, <1>5, <1>6, Emit
<1>8. /\ s \in States(Size) /\ s.path = target.path /\ s.borrowed = target.borrowed
      /\ s.cache = target.cache /\ Holds(s, All)
  BY <1>1, <1>2, <1>3, ConsumeKeeps
<1>9. target.path # "resident" /\ ~target.borrowed /\ draft.path # "resident" /\ ~draft.borrowed
  BY <1>1 DEF Typed
<1> HIDE DEF s
<1>10. CASE More(text')
  <2>1. /\ steps' = steps + 1 /\ position' = position + 1 /\ borrowed_length' = position
        /\ proposals' = <<>> /\ q_bank' = <<>> /\ checked' = 0 /\ phase' = "propose"
    BY <1>5, <1>10
  <2>2. PICK r \in AssistantRun(d, s, t, position, position) : r.ok /\ draft' = r.s
    BY <1>5, <1>10
  <2>3. PICK a \in Advance(s, t) : target' = a.s
    BY <1>5, <1>10
  <2>4. d \in States(Size) /\ d.path = draft.path /\ d.borrowed = draft.borrowed
        /\ d.hidden = All
    <3>1. All \in Texts(Size)
      BY <1>2, TextsAre
    <3> QED BY <1>2, <1>3, <3>1 DEF States
  <2>5. RowsOf(s.cache, All, Len(All))
    BY <1>8, <1>9 DEF Holds
  <2>6. r \in AssistantRun(d, s, t, Len(All), Len(All))
    BY <1>3, <2>2
  <2> HIDE DEF d
  <2>7. /\ r.s \in States(Size) /\ r.s.path = d.path /\ r.s.borrowed = d.borrowed
        /\ r.s.logits = Append(All, t) /\ r.s.hidden = Append(All, t) /\ r.s.fresh
    BY <1>2, <1>6, <1>8, <2>2, <2>4, <2>5, <2>6, AssistantRunIs
  <2>8. a \in Forward(s, t, Len(All), TRUE) /\ a.ok
    BY <1>3, <2>3 DEF Advance
  <2>9. /\ a.s \in States(Size) /\ ~a.s.borrowed /\ a.s.path # "resident"
        /\ Ready(a.s, Append(All, t)) /\ a.s.hidden = Append(All, t)
    BY <1>1, <1>6, <1>8, <1>9, <2>8, AdvanceHolds
  <2>10. Typed'
    <3>1. position' \in 0 .. Size /\ borrowed_length' \in 0 .. position' /\ steps' \in Nat
      BY <1>2, <1>3, <1>7, <2>1
    <3>2. accepted' <= drafted' /\ accepted' <= Len(text')
      BY <1>1, <1>2, <1>4, <1>7 DEF Typed
    <3>3. proposals' \in Seq(Tokens) /\ q_bank' \in Seq(Seq(Tokens)) /\ Len(q_bank') = Len(proposals')
          /\ Len(proposals') = 0 /\ checked' \in 0 .. Len(proposals')
      BY <2>1, EmptySeq
    <3>4. target' \in States(Size) /\ ~target'.borrowed /\ target'.path # "resident"
          /\ draft' \in States(Size) /\ ~draft'.borrowed /\ draft'.path # "resident"
      BY <1>9, <2>2, <2>3, <2>4, <2>7, <2>9
    <3> QED BY <1>1, <1>4, <1>7, <2>1, <3>1, <3>2, <3>3, <3>4 DEF Typed, request
  <2>11. InPropose'
    <3>1. All' \o proposals' = All' /\ Len(proposals') = 0
      BY <1>7, <2>1, ConcatEmptySeq, EmptySeq
    <3>2. Maximum' > 0
      BY <1>2, <1>4, <1>7, <1>10 DEF Maximum, request
    <3>3. accepted' + 0 <= drafted'
      BY <1>1, <1>4 DEF Typed
    <3>4. Ready(target', All')
      BY <1>7, <2>3, <2>9
    <3>5. Exact(draft', All') /\ draft'.hidden = All'
      BY <1>7, <2>2, <2>7 DEF Exact
    <3>6. kind' = "assistant" /\ More(text)' /\ position' = Len(All') /\ steps' = position'
      BY <1>1, <1>2, <1>3, <1>4, <1>7, <1>10, <2>1 DEF request
    <3> QED BY <2>1, <3>1, <3>2, <3>3, <3>4, <3>5, <3>6 DEF InPropose
  <2> QED BY <2>1, <2>10, <2>11 DEF IInv, InPhase
<1>11. CASE ~More(text')
  <2>1. target' = s /\ UNCHANGED <<draft, steps, position, round, phase>>
    BY <1>5, <1>11
  <2>2. Typed'
    <3>1. accepted' <= Len(text')
      BY <1>1, <1>2, <1>4, <1>7 DEF Typed
    <3> QED BY <1>1, <1>4, <1>7, <1>8, <2>1, <3>1 DEF Typed, request, round
  <2>3. InRound'
    BY <1>2, <1>3, <1>7, <1>11, <2>1 DEF InRound
  <2>4. phase' = "round"
    BY <2>1 DEF Base
  <2> QED BY <2>2, <2>3, <2>4 DEF IInv, InPhase
<1> QED BY <1>10, <1>11

LEMMA BeginRoundStep == IInv /\ BeginRound => IInv'
<1> SUFFICES ASSUME IInv, BeginRound PROVE IInv'
  OBVIOUS
<1>1. Typed /\ InRound /\ More(text) /\ kind = "ordinary"
  BY DEF IInv, InPhase, BeginRound
<1>2. /\ proposals' = <<>> /\ q_bank' = <<>> /\ checked' = 0
      /\ borrowed_length' = position /\ phase' = "propose"
      /\ UNCHANGED <<request, target, draft, text, counters, position>>
  BY DEF BeginRound
<1>3. /\ All' = All /\ Size' = Size /\ (More(text)' <=> More(text)) /\ Maximum' = Maximum
  BY <1>2, Silent
<1>4. /\ Size \in Nat /\ All \in Seq(Tokens) /\ limit \in Nat /\ window \in Nat \ {0}
      /\ Len(text) \in Nat
  BY <1>1, RequestTypes, AllType DEF Typed
<1>5. <<>> \in Seq(Tokens) /\ <<>> \in Seq(Seq(Tokens)) /\ Len(<<>>) = 0 /\ All \o <<>> = All
  BY <1>4, EmptySeq, ConcatEmptySeq
<1>6. Typed'
  BY <1>1, <1>2, <1>3, <1>5 DEF Typed, request, counters
<1>7. Maximum > 0
  BY <1>1, <1>4 DEF Maximum, More
<1>8. InPropose'
  <2>1. /\ position = Len(All) /\ steps = position /\ Ready(target, All) /\ Ready(draft, All)
        /\ accepted <= drafted /\ accepted \in Nat
    BY <1>1 DEF InRound, Typed
  <2> QED BY <1>1, <1>2, <1>3, <1>5, <1>7, <2>1 DEF InPropose, Ready, request, counters
<1> QED BY <1>2, <1>6, <1>8 DEF IInv, InPhase

\* The draft proposes t: what it was asked for is kept with the proposal.
LEMMA ProposalKept ==
  ASSUME Typed, InPropose, NEW t \in Tokens, proposals' = Append(proposals, t),
         q_bank' = Append(q_bank, draft.logits), UNCHANGED <<request, text, checked>>
  PROVE  LET p == All \o proposals
         IN /\ p \in Seq(Tokens) /\ Len(p) = Len(All) + Len(proposals) /\ Len(p) < Size
            /\ Len(proposals) \in Nat /\ Len(proposals') = Len(proposals) + 1
            /\ proposals' \in Seq(Tokens) /\ q_bank' \in Seq(Seq(Tokens))
            /\ Len(q_bank') = Len(proposals')
            /\ All \o proposals' = Append(p, t) /\ Whole' = Append(p, t)
            /\ Append(p, t) \in Seq(Tokens) /\ Len(Append(p, t)) = Len(p) + 1
            /\ SubSeq(Append(p, t), 1, Len(p)) = p
            /\ SubSeq(Append(p, t), 1, Len(All)) = All
            /\ proposals'[Len(proposals')] = t
            /\ \A i \in 1 .. Len(proposals) : proposals'[i] # End
            /\ \A i \in 1 .. Len(proposals') :
                 /\ q_bank'[i] = All \o SubSeq(proposals', 1, i - 1)
                 /\ q_bank'[i] = SubSeq(Append(p, t), 1, Len(All) + i - 1)
<1> DEFINE p == All \o proposals
           n == Len(proposals)
<1>1. /\ Size \in Nat /\ All \in Seq(Tokens) /\ Len(All) = Len(prompt) + Len(text)
      /\ Len(text) \in Nat /\ Len(prompt) \in Nat /\ limit \in Nat /\ window \in Nat
      /\ proposals \in Seq(Tokens) /\ q_bank \in Seq(Seq(Tokens)) /\ Len(q_bank) = n
      /\ Len(All) \in Nat /\ n \in Nat
  BY RequestTypes, AllType, LenProperties DEF Typed
<1>2. /\ checked = 0 /\ n < Maximum /\ draft.logits = p
      /\ \A i \in 1 .. n : proposals[i] # End /\ q_bank[i] = All \o SubSeq(proposals, 1, i - 1)
  BY DEF InPropose, Exact
<1>3. p \in Seq(Tokens) /\ Len(p) = Len(All) + n
  BY <1>1, ConcatProperties
<1>4. Len(p) < Size
  BY <1>1, <1>2, <1>3 DEF Maximum, Size
<1>5. /\ proposals' \in Seq(Tokens) /\ Len(proposals') = n + 1
      /\ \A i \in 1 .. n : proposals'[i] = proposals[i]
      /\ proposals'[n + 1] = t
  BY <1>1, AppendProperties
<1>6. /\ q_bank' \in Seq(Seq(Tokens)) /\ Len(q_bank') = n + 1
      /\ \A i \in 1 .. n : q_bank'[i] = q_bank[i]
      /\ q_bank'[n + 1] = p
  <2>1. draft.logits \in Seq(Tokens)
    BY <1>2, <1>3
  <2>3. q_bank \in Seq(Seq(Tokens))
    BY <1>1
  <2>2. /\ Append(q_bank, draft.logits) \in Seq(Seq(Tokens))
        /\ Len(Append(q_bank, draft.logits)) = Len(q_bank) + 1
        /\ \A i \in 1 .. Len(q_bank) : Append(q_bank, draft.logits)[i] = q_bank[i]
        /\ Append(q_bank, draft.logits)[Len(q_bank) + 1] = draft.logits
    BY <2>1, <2>3, AppendProperties
  <2> QED BY <1>1, <1>2, <2>2
<1>7. All \o proposals' = Append(p, t)
  <2>1. All \in Seq(Tokens) /\ proposals \in Seq(Tokens)
    BY <1>1
  <2>2. All \o Append(proposals, t) = Append(All \o proposals, t)
    BY <2>1, AppendToConcat
  <2> QED BY <2>2
<1>8. Append(p, t) \in Seq(Tokens) /\ Len(Append(p, t)) = Len(p) + 1
  BY <1>3, AppendProperties
<1>9. proposals' = proposals \o <<t>> /\ <<t>> \in Seq(Tokens)
  BY <1>1, AppendToConcat
<1>10. \A i \in 0 .. n : SubSeq(proposals', 1, i) = SubSeq(proposals, 1, i)
  BY <1>1, <1>9, FirstOfConcat
<1>11. \A i \in 0 .. n : SubSeq(Append(p, t), 1, Len(All) + i) = All \o SubSeq(proposals', 1, i)
  <2> TAKE i \in 0 .. n
  <2>1. i \in 0 .. Len(proposals')
    BY <1>1, <1>5
  <2>2. SubSeq(All \o proposals', 1, Len(All) + i) = All \o SubSeq(proposals', 1, i)
    BY <1>1, <1>5, <2>1, FirstOfBoth
  <2> QED BY <1>7, <2>2
<1>12. SubSeq(proposals, 1, n) = proposals /\ n \in 0 .. n
  BY <1>1, SubSeqFull
<1>13. SubSeq(Append(p, t), 1, Len(p)) = p
  <2>1. SubSeq(Append(p, t), 1, Len(All) + n) = All \o SubSeq(proposals', 1, n)
    BY <1>11, <1>12
  <2>2. SubSeq(proposals', 1, n) = proposals
    BY <1>10, <1>12
  <2> QED BY <1>3, <2>1, <2>2
<1>14. SubSeq(Append(p, t), 1, Len(All)) = All
  <2>1. Len(All) \in 0 .. Len(All)
    BY <1>1
  <2>2. SubSeq(All \o proposals', 1, Len(All)) = SubSeq(All, 1, Len(All))
    BY <1>1, <1>5, <2>1, FirstOfConcat
  <2> QED BY <1>1, <1>7, <2>2, SubSeqFull
<1>15. \A i \in 1 .. n + 1 :
         /\ q_bank'[i] = All \o SubSeq(proposals', 1, i - 1)
         /\ q_bank'[i] = SubSeq(Append(p, t), 1, Len(All) + i - 1)
  <2> TAKE i \in 1 .. n + 1
  <2>1. i - 1 \in 0 .. n /\ Len(All) + (i - 1) = Len(All) + i - 1
    BY <1>1
  <2>2. q_bank'[i] = All \o SubSeq(proposals, 1, i - 1)
    <3>1. CASE i = n + 1
      <4>1. i - 1 = n
        BY <1>1, <3>1
      <4> QED BY <1>6, <1>12, <3>1, <4>1
    <3>2. CASE i # n + 1
      <4>1. i \in 1 .. n
        BY <1>1, <3>2
      <4> QED BY <1>2, <1>6, <4>1
    <3> QED BY <3>1, <3>2
  <2>3. SubSeq(proposals', 1, i - 1) = SubSeq(proposals, 1, i - 1)
    BY <1>10, <2>1
  <2>4. SubSeq(Append(p, t), 1, Len(All) + (i - 1)) = All \o SubSeq(proposals', 1, i - 1)
    BY <1>11, <2>1
  <2> QED BY <2>1, <2>2, <2>3, <2>4
<1>16. Whole' = Append(p, t)
  <2>1. All' = All /\ checked' = 0
    BY <1>2, Silent
  <2>2. Len(All) - 0 = Len(All) /\ SubSeq(All, 1, Len(All)) = All
    BY <1>1, SubSeqFull
  <2> QED BY <1>7, <2>1, <2>2 DEF Whole
<1>17. \A i \in 1 .. n : proposals'[i] # End
  BY <1>2, <1>5
<1> QED BY <1>1, <1>3, <1>4, <1>5, <1>6, <1>7, <1>8, <1>13, <1>14, <1>15, <1>16, <1>17

\* A pass of the draft takes its own proposal in.
LEMMA DraftRunHolds ==
  ASSUME Typed, InPropose, NEW t \in Tokens,
         NEW r \in DraftRun(Consume(draft, greedy), t, position + Len(proposals))
  PROVE  LET p == Append(All \o proposals, t)
         IN /\ r.s \in States(Size) /\ ~r.s.borrowed
            /\ draft.path # "resident" => r.s.path # "resident"
            /\ Exact(r.s, p)
            /\ kind = "ordinary" => Holds(r.s, p)
            /\ kind = "assistant" => r.s.hidden = p
<1> DEFINE p == All \o proposals
           s == Consume(draft, greedy)
           n == position + Len(proposals)
<1>1. /\ Size \in Nat /\ All \in Seq(Tokens) /\ Len(All) \in Nat
      /\ proposals \in Seq(Tokens) /\ Len(proposals) \in Nat
      /\ draft \in States(Size) /\ target \in States(Size) /\ ~draft.borrowed
      /\ position = Len(All) /\ borrowed_length \in Nat /\ borrowed_length <= Len(All)
      /\ kind \in {"ordinary", "assistant"}
  BY RequestTypes, AllType, LenProperties DEF Typed, InPropose, Kinds
<1>2. p \in Seq(Tokens) /\ Len(p) = n
  BY <1>1, ConcatProperties
<1>3. /\ s \in States(Size) /\ s.path = draft.path /\ s.borrowed = draft.borrowed
      /\ s.hidden = draft.hidden /\ \A x : Holds(draft, x) => Holds(s, x)
  BY <1>1, ConsumeKeeps
<1> HIDE DEF p, s
<1>4. r.ok
  BY DEF DraftRun
<1>5. CASE kind = "ordinary"
  <2>1. r \in Forward(s, t, Len(p), TRUE)
    BY <1>2, <1>5 DEF DraftRun, s
  <2>2. Holds(s, p)
    BY <1>3, <1>5 DEF InPropose, p
  <2>3. /\ r.s \in States(Size) /\ ~r.s.borrowed
        /\ s.path # "resident" => r.s.path # "resident"
        /\ Ready(r.s, Append(p, t))
    BY <1>3, <1>4, <2>1, <2>2, AdvanceHolds
  <2> QED BY <1>3, <1>5, <2>3 DEF Ready, p
<1>6. CASE kind = "assistant"
  <2>1. r \in AssistantRun(s, target, t, n, borrowed_length)
    BY <1>6 DEF DraftRun, s
  <2>2. s.hidden = p
    BY <1>3, <1>6 DEF InPropose, p
  <2>3. RowsOf(target.cache, All, Len(All))
    BY <1>6 DEF Typed, InPropose, Ready, Holds
  <2>4. RowsOf(target.cache, p, borrowed_length)
    <3> SUFFICES ASSUME NEW i \in 1 .. borrowed_length
                 PROVE  target.cache[i] = SubSeq(p, 1, i)
      BY DEF RowsOf
    <3>1. i \in 1 .. Len(All) /\ i \in 0 .. Len(All)
      BY <1>1
    <3> QED BY <1>1, <2>3, <3>1, FirstOfConcat DEF RowsOf, p
  <2>5. borrowed_length <= Len(p)
    BY <1>1, <1>2
  <2>6. r \in AssistantRun(s, target, t, Len(p), borrowed_length)
    BY <1>2, <2>1
  <2>8. /\ Size \in Nat /\ s \in States(Size) /\ target \in States(Size)
        /\ p \in Seq(Tokens) /\ borrowed_length \in Nat
    BY <1>1, <1>2, <1>3
  <2>7. /\ r.s \in States(Size) /\ r.s.path = s.path /\ r.s.borrowed = s.borrowed
        /\ r.s.logits = Append(p, t) /\ r.s.hidden = Append(p, t) /\ r.s.fresh
    BY <1>4, <2>2, <2>4, <2>5, <2>6, <2>8, AssistantRunIs
  <2> QED BY <1>1, <1>3, <1>6, <2>7 DEF Exact, p
<1> QED BY <1>1, <1>5, <1>6

LEMMA ProposeStep == IInv /\ Propose => IInv'
<1> SUFFICES ASSUME IInv, Propose PROVE IInv'
  OBVIOUS
<1> DEFINE p == All \o proposals
           s == Consume(draft, greedy)
<1>1. Typed /\ InPropose
  BY DEF IInv, InPhase, Propose
<1>2. /\ Size \in Nat /\ All \in Seq(Tokens) /\ Len(All) \in Nat \ {0}
      /\ prompt \in Prompts /\ limit \in Limits /\ draft \in States(Size)
      /\ proposals \in Seq(Tokens) /\ Len(proposals) \in Nat
      /\ p \in Seq(Tokens) /\ Len(p) = Len(All) + Len(proposals)
      /\ limit \in Nat /\ window \in Nat /\ Len(text) \in Nat
  BY <1>1, RequestTypes, AllType, LenProperties, ConcatProperties DEF Typed
<1>3. /\ draft.logits = p /\ checked = 0 /\ Len(proposals) < Maximum
      /\ position = Len(All) /\ steps = position /\ kind # "none" /\ More(text)
      /\ Ready(target, All) /\ accepted + Len(proposals) <= drafted
  BY <1>1 DEF InPropose, Exact
<1>4. PICK t \in Guess(draft.logits) :
        /\ proposals' = Append(proposals, t)
        /\ IF t = End
           THEN draft' = s /\ phase' = "verify"
           ELSE /\ \E r \in DraftRun(s, t, position + Len(proposals)) : draft' = r.s
                /\ phase' = IF Len(proposals) + 1 = Maximum THEN "verify" ELSE "propose"
  BY DEF Propose
<1>5. /\ q_bank' = Append(q_bank, draft.logits) /\ drafted' = drafted + 1
      /\ UNCHANGED <<request, target, text, steps, accepted, position, checked, borrowed_length>>
  BY DEF Propose
<1>6. Len(p) <= Size
  BY <1>2, <1>3, AllType, <1>1 DEF Maximum, Size
<1>7. t \in Tokens
  BY <1>2, <1>3, <1>4, <1>6, ChoicesAreTokens
<1>8. /\ Len(p) < Size /\ Len(proposals') = Len(proposals) + 1
      /\ proposals' \in Seq(Tokens) /\ q_bank' \in Seq(Seq(Tokens))
      /\ Len(q_bank') = Len(proposals')
      /\ All \o proposals' = Append(p, t) /\ Whole' = Append(p, t)
      /\ Append(p, t) \in Seq(Tokens) /\ Len(Append(p, t)) = Len(p) + 1
      /\ SubSeq(Append(p, t), 1, Len(p)) = p
      /\ SubSeq(Append(p, t), 1, Len(All)) = All
      /\ proposals'[Len(proposals')] = t
      /\ \A i \in 1 .. Len(proposals) : proposals'[i] # End
      /\ \A i \in 1 .. Len(proposals') :
           /\ q_bank'[i] = All \o SubSeq(proposals', 1, i - 1)
           /\ q_bank'[i] = SubSeq(Append(p, t), 1, Len(All) + i - 1)
  BY <1>1, <1>4, <1>5, <1>7, ProposalKept
<1>9. /\ All' = All /\ Size' = Size /\ (More(text)' <=> More(text)) /\ Maximum' = Maximum
  BY <1>5, Silent
<1>10. /\ s \in States(Size) /\ s.path = draft.path /\ s.borrowed = draft.borrowed
       /\ \A x : Holds(draft, x) => Holds(s, x)
  BY <1>1, <1>2, ConsumeKeeps
<1> DEFINE whole == Append(p, t)
<1> HIDE DEF p, whole
<1>11. /\ draft' \in States(Size) /\ ~draft'.borrowed
       /\ draft.path # "resident" => draft'.path # "resident"
       /\ kind = "ordinary" => Holds(draft', p)
       /\ t # End => Exact(draft', whole) /\ (kind = "ordinary" => Holds(draft', whole))
                     /\ (kind = "assistant" => draft'.hidden = whole)
  <2>1. CASE t = End
    <3>1. draft' = s
      BY <1>4, <2>1
    <3> QED BY <1>1, <1>10, <2>1, <3>1 DEF Typed, InPropose, p
  <2>2. CASE t # End
    <3>1. PICK r \in DraftRun(s, t, position + Len(proposals)) : draft' = r.s
      BY <1>4, <2>2
    <3>2. /\ draft' \in States(Size) /\ ~draft'.borrowed
          /\ draft.path # "resident" => draft'.path # "resident"
          /\ Exact(draft', whole)
          /\ kind = "ordinary" => Holds(draft', whole)
          /\ kind = "assistant" => draft'.hidden = whole
      BY <1>1, <1>7, <3>1, DraftRunHolds DEF p, whole
    <3>3. kind = "ordinary" => Holds(draft', p)
      <4>1. Len(p) \in 0 .. Len(whole)
        BY <1>2, <1>8 DEF whole
      <4> QED BY <1>2, <1>8, <3>2, <4>1, HoldsPrefix DEF whole
    <3> QED BY <3>2, <3>3
  <2> QED BY <2>1, <2>2
<1>12. phase' \in {"verify", "propose"}
  BY <1>4
<1>13. accepted' + Len(proposals') <= drafted' /\ drafted' \in Nat /\ accepted' <= drafted'
  <2>1. drafted \in Nat /\ accepted \in Nat /\ accepted <= drafted
    BY <1>1, Zenon DEF Typed
  <2>2. drafted' = drafted + 1 /\ accepted' = accepted /\ Len(proposals') = Len(proposals) + 1
    BY <1>5, <1>8, Zenon
  <2>3. accepted + Len(proposals) <= drafted /\ Len(proposals) \in Nat
    BY <1>2, <1>3, Zenon
  <2> DEFINE k == Len(proposals)
             l == Len(proposals')
  <2> HIDE DEF k, l
  <2>4. accepted' + l <= drafted' /\ drafted' \in Nat /\ accepted' <= drafted'
    BY <2>1, <2>2, <2>3 DEF k, l
  <2> QED BY <2>4 DEF l
<1>14. Typed'
  <2>1. checked' \in 0 .. Len(proposals')
    BY <1>2, <1>3, <1>5, <1>8
  <2> QED BY <1>1, <1>3, <1>5, <1>8, <1>9, <1>11, <1>12, <1>13, <2>1 DEF Typed, request
<1>15. /\ kind' # "none" /\ More(text)' /\ position' = Len(All') /\ steps' = position'
       /\ Ready(target', All') /\ checked' = 0 /\ kind' = kind
  BY <1>3, <1>5, <1>9 DEF request
<1>16. CASE phase' = "propose"
  <2>1. t # End /\ Len(proposals) + 1 # Maximum
    BY <1>4, <1>16
  <2>2. Len(proposals') < Maximum'
    <3>1. Maximum' = Maximum /\ Len(proposals') = Len(proposals) + 1
      BY <1>8, <1>9
    <3>2. Maximum \in Int
      BY <1>2 DEF Maximum
    <3>3. Len(proposals) \in Nat /\ Len(proposals) < Maximum
      BY <1>2, <1>3
    <3> QED BY <2>1, <3>1, <3>2, <3>3
  <2>3. \A i \in 1 .. Len(proposals') : proposals'[i] # End
    <3> TAKE i \in 1 .. Len(proposals')
    <3>1. i = Len(proposals') \/ i \in 1 .. Len(proposals)
      BY <1>2, <1>8
    <3> QED BY <1>8, <2>1, <3>1
  <2>4. All' \o proposals' = whole
    BY <1>8, <1>9 DEF whole
  <2>5. \A i \in 1 .. Len(proposals') : q_bank'[i] = All' \o SubSeq(proposals', 1, i - 1)
    BY <1>8, <1>9
  <2>6. InPropose'
    BY <1>11, <1>13, <1>15, <2>1, <2>2, <2>3, <2>4, <2>5 DEF InPropose
  <2> QED BY <1>14, <1>16, <2>6 DEF IInv, InPhase
<1>17. CASE phase' = "verify"
  <2>1. Whole' = whole /\ Len(Whole') <= Size' /\ Len(Whole') - 1 = Len(p)
    BY <1>2, <1>8, <1>9 DEF whole
  <2>2. checked' < Len(proposals') /\ checked' <= Len(text')
    BY <1>2, <1>5, <1>8, <1>15
  <2>3. All' = SubSeq(Whole', 1, Len(All'))
    BY <1>8, <1>9
  <2>4. \A i \in 1 .. Len(proposals') - 1 : proposals'[i] # End
    BY <1>2, <1>8
  <2>5. \A i \in 1 .. Len(proposals') :
          q_bank'[i] = SubSeq(Whole', 1, Len(All') - checked' + i - 1)
    <3> TAKE i \in 1 .. Len(proposals')
    <3>1. Len(All') - checked' + i - 1 = Len(All) + i - 1
      BY <1>2, <1>9, <1>15
    <3>2. q_bank'[i] = SubSeq(Append(p, t), 1, Len(All) + i - 1)
      BY <1>8
    <3> QED BY <1>8, <3>1, <3>2
  <2>6. SubSeq(Whole', 1, Len(Whole') - 1) = p
    BY <1>8, <2>1
  <2>7. kind' = "ordinary" =>
          /\ Holds(draft', SubSeq(Whole', 1, Len(Whole') - 1))
          /\ proposals'[Len(proposals')] # End => Holds(draft', Whole')
    BY <1>8, <1>11, <1>15, <2>1, <2>6
  <2>8. accepted' + Len(proposals') - checked' <= drafted'
    BY <1>1, <1>2, <1>3, <1>5, <1>8, <1>15 DEF Typed
  <2>9. InVerify'
    BY <1>15, <2>1, <2>2, <2>3, <2>4, <2>5, <2>7, <2>8 DEF InVerify
  <2> QED BY <1>14, <1>17, <2>9 DEF IInv, InPhase
<1> QED BY <1>12, <1>16, <1>17

\* The next proposal to be checked is the next token of the whole text, and its
\* probabilities are those of the text so far.
LEMMA WholeIs ==
  ASSUME Typed, InVerify
  PROVE  /\ Whole \in Seq(Tokens) /\ Len(Whole) = Len(All) - checked + Len(proposals)
         /\ Len(All) < Len(Whole)
         /\ proposals[checked + 1] \in Tokens
         /\ Append(All, proposals[checked + 1]) = SubSeq(Whole, 1, Len(All) + 1)
         /\ q_bank[checked + 1] = All
<1> DEFINE k == Len(All) - checked
           a == SubSeq(All, 1, k)
           n == Len(All)
<1>1. /\ All \in Seq(Tokens) /\ n \in Nat /\ proposals \in Seq(Tokens)
      /\ Len(proposals) \in Nat /\ checked \in Nat /\ checked < Len(proposals)
      /\ checked <= n
  BY AllType, LenProperties, RequestTypes DEF Typed, InVerify
<1>2. k \in 0 .. n /\ k \in Nat /\ k + checked = n
  BY <1>1
<1>3. a \in Seq(Tokens) /\ Len(a) = k
  BY <1>1, <1>2, FirstOf
<1>4. Whole = a \o proposals
  BY DEF Whole
<1> HIDE DEF k, a, n
<1>5. /\ Whole \in Seq(Tokens) /\ Len(Whole) = k + Len(proposals)
      /\ \A i \in 1 .. k + Len(proposals) :
           Whole[i] = IF i <= k THEN a[i] ELSE proposals[i - k]
  BY <1>1, <1>3, <1>4, ConcatProperties
<1>6. n < Len(Whole) /\ n \in 0 .. Len(Whole)
  BY <1>1, <1>2, <1>5
<1>7. Whole[n + 1] = proposals[checked + 1]
  <2>1. n + 1 \in 1 .. k + Len(proposals) /\ ~(n + 1 <= k) /\ (n + 1) - k = checked + 1
    BY <1>1, <1>2
  <2> QED BY <1>5, <2>1
<1>8. proposals[checked + 1] \in Tokens
  <2>1. checked + 1 \in 1 .. Len(proposals)
    BY <1>1
  <2> QED BY <1>1, <2>1, ElementOfSeq
<1>9. SubSeq(Whole, 1, n + 1) = Append(SubSeq(Whole, 1, n), Whole[n + 1])
  BY <1>5, <1>6, FirstAndNext
<1>10. SubSeq(Whole, 1, n) = All
  BY DEF InVerify, n
<1>11. q_bank[checked + 1] = All
  <2>1. checked + 1 \in 1 .. Len(proposals) /\ Len(All) - checked + (checked + 1) - 1 = n
    BY <1>1 DEF n
  <2>2. q_bank[checked + 1] = SubSeq(Whole, 1, Len(All) - checked + (checked + 1) - 1)
    BY <2>1 DEF InVerify
  <2> QED BY <1>10, <2>1, <2>2
<1> QED BY <1>5, <1>6, <1>7, <1>8, <1>9, <1>10, <1>11 DEF k, n

\* The rule of acceptance only lets choices of the target through.
LEMMA VerdictIsChoice ==
  ASSUME NEW token, NEW choices, NEW v \in Verdicts(token, choices)
  PROVE  /\ v.token \in choices /\ v.accepted \in BOOLEAN
         /\ v.accepted => v.token = token
<1>1. CASE \E x \in {token} \cap choices : v = [accepted |-> TRUE, token |-> token]
  BY <1>1
<1>2. CASE \E t \in choices \ {token} : v = [accepted |-> FALSE, token |-> t]
  BY <1>2
<1> QED BY <1>1, <1>2 DEF Verdicts

LEMMA VerifyStep == IInv /\ Verify => IInv'
<1> SUFFICES ASSUME IInv, Verify PROVE IInv'
  OBVIOUS
<1> DEFINE s == Consume(target, greedy)
           n == Len(proposals)
<1>1. Typed /\ InVerify
  BY DEF IInv, InPhase, Verify
<1>2. /\ Size \in Nat /\ All \in Seq(Tokens) /\ Len(All) \in Nat \ {0} /\ Len(All) <= Size
      /\ prompt \in Prompts /\ limit \in Limits /\ limit \in Nat
      /\ draft \in States(Size) /\ target \in States(Size)
      /\ proposals \in Seq(Tokens) /\ n \in Nat /\ Len(text) \in Nat
      /\ checked \in Nat /\ checked < n /\ checked <= Len(text)
      /\ accepted \in Nat /\ drafted \in Nat
  BY <1>1, RequestTypes, AllType, LenProperties DEF Typed, InVerify
<1>3. /\ target.logits = All /\ Holds(target, All)
      /\ position = Len(All) /\ steps = Len(All) /\ kind # "none" /\ More(text)
      /\ accepted + n - checked <= drafted
  BY <1>1 DEF InVerify, Ready, Exact
<1>4. /\ Whole \in Seq(Tokens) /\ Len(Whole) = Len(All) - checked + n
      /\ Len(All) < Len(Whole)
      /\ Append(All, proposals[checked + 1]) = SubSeq(Whole, 1, Len(All) + 1)
  BY <1>1, WholeIs
<1>5. PICK v \in Verdicts(proposals[checked + 1], Drawable(target.logits)) :
        /\ text' = Append(text, v.token)
        /\ accepted' = IF v.accepted THEN accepted + 1 ELSE accepted
        /\ IF More(text')
           THEN /\ \E r \in Advance(s, v.token) : target' = r.s
                /\ \E r \in Correct(draft, v) : draft' = r.s
                /\ steps' = steps + 1
           ELSE target' = s /\ UNCHANGED <<draft, steps>>
        /\ phase' = CASE ~v.accepted \/ ~More(text') -> "round"
                      [] v.accepted /\ More(text') /\ checked + 1 < n -> "verify"
                      [] v.accepted /\ More(text') /\ checked + 1 = n ->
                           IF kind = "ordinary" THEN "bonus" ELSE "round"
  BY DEF Verify
<1>6. /\ position' = position + 1 /\ checked' = checked + 1
      /\ UNCHANGED <<request, drafted, proposals, q_bank, borrowed_length>>
  BY DEF Verify
<1> DEFINE t == v.token
<1>7. /\ t \in Tokens /\ v.accepted \in BOOLEAN
      /\ v.accepted => t = proposals[checked + 1]
  BY <1>2, <1>3, <1>5, ChoicesAreTokens, VerdictIsChoice
<1> HIDE DEF t
<1>8. /\ All' = Append(All, t) /\ All' \in Seq(Tokens) /\ Len(All') = Len(All) + 1
      /\ Len(text') = Len(text) + 1 /\ text' \in Seq(Tokens) /\ text' # <<>>
      /\ Len(text') <= limit /\ Size' = Size /\ Len(All) < Size
      /\ (More(text') <=> t # End /\ Len(text) + 1 < limit)
      /\ (More(text)' <=> More(text'))
  BY <1>1, <1>3, <1>5, <1>6, <1>7, Emit DEF t
<1>9. /\ s \in States(Size) /\ s.path = target.path /\ s.borrowed = target.borrowed
      /\ Holds(s, All)
  BY <1>1, <1>2, <1>3, ConsumeKeeps
<1> HIDE DEF s
<1>10. v.accepted => Whole' = Whole /\ All' = SubSeq(Whole, 1, Len(All'))
  <2> SUFFICES ASSUME v.accepted PROVE Whole' = Whole /\ All' = SubSeq(Whole, 1, Len(All'))
    OBVIOUS
  <2>1. Len(All') - checked' = Len(All) - checked /\ Len(All) - checked \in 0 .. Len(All)
    <3>1. checked <= Len(All)
      BY <1>1, <1>2, AllType, RequestTypes DEF Typed
    <3> QED BY <1>2, <1>6, <1>8, <3>1
  <2>2. All' = All \o <<t>> /\ <<t>> \in Seq(Tokens)
    BY <1>2, <1>7, <1>8, AppendToConcat
  <2>3. SubSeq(All', 1, Len(All') - checked') = SubSeq(All, 1, Len(All) - checked)
    BY <1>2, <2>1, <2>2, FirstOfConcat
  <2>4. Whole' = Whole
    BY <1>6, <2>3 DEF Whole
  <2>5. All' = SubSeq(Whole, 1, Len(All'))
    BY <1>4, <1>7, <1>8
  <2> QED BY <2>4, <2>5
<1>11. /\ target' \in States(Size) /\ ~target'.borrowed
       /\ target.path # "resident" => target'.path # "resident"
       /\ More(text') => /\ Ready(target', All')
                         /\ target.path # "resident" => target'.hidden = All'
  <2>1. CASE More(text')
    <3>1. PICK r \in Advance(s, t) : target' = r.s
      BY <1>5, <2>1 DEF t
    <3>2. r \in Forward(s, t, Len(All), TRUE) /\ r.ok
      BY <1>3, <3>1 DEF Advance
    <3>3. /\ r.s \in States(Size) /\ ~r.s.borrowed
          /\ s.path # "resident" => r.s.path # "resident"
          /\ Ready(r.s, Append(All, t))
          /\ s.path # "resident" => r.s.hidden = Append(All, t)
      BY <1>1, <1>7, <1>9, <3>2, AdvanceHolds
    <3> QED BY <1>8, <1>9, <3>1, <3>3
  <2>2. CASE ~More(text')
    BY <1>1, <1>5, <1>9, <2>2 DEF Typed
  <2> QED BY <2>1, <2>2
\* What an ordinary draft has taken in reaches at least to the text so far.
<1>12. kind = "ordinary" => /\ Holds(draft, All)
                            /\ Holds(draft, SubSeq(Whole, 1, Len(Whole) - 1))
                            /\ proposals[n] # End => Holds(draft, Whole)
  <2> SUFFICES ASSUME kind = "ordinary"
               PROVE  /\ Holds(draft, All)
                      /\ Holds(draft, SubSeq(Whole, 1, Len(Whole) - 1))
                      /\ proposals[n] # End => Holds(draft, Whole)
    OBVIOUS
  <2> DEFINE x == SubSeq(Whole, 1, Len(Whole) - 1)
  <2>1. Holds(draft, x) /\ (proposals[n] # End => Holds(draft, Whole))
    BY <1>1 DEF InVerify
  <2>2. Len(Whole) - 1 \in 0 .. Len(Whole) /\ Len(All) \in 0 .. Len(Whole) - 1
    BY <1>2, <1>4, LenProperties
  <2>3. Len(x) = Len(Whole) - 1
    BY <1>4, <2>2, FirstOf
  <2>4. SubSeq(x, 1, Len(All)) = SubSeq(Whole, 1, Len(All))
    BY <1>4, <2>2, FirstOfFirst
  <2>5. All = SubSeq(Whole, 1, Len(All))
    BY <1>1 DEF InVerify
  <2> HIDE DEF x
  <2>6. Holds(draft, SubSeq(x, 1, Len(All)))
    BY <1>2, <2>1, <2>2, <2>3, HoldsPrefix
  <2> QED BY <2>1, <2>4, <2>5, <2>6 DEF x
<1>13. /\ draft' \in States(Size) /\ ~draft'.borrowed
       /\ draft.path # "resident" => draft'.path # "resident"
       /\ v.accepted \/ kind = "assistant" => draft' = draft
       /\ More(text') /\ ~v.accepted /\ kind = "ordinary" => Ready(draft', All')
  <2>1. CASE ~More(text')
    BY <1>1, <1>5, <2>1 DEF Typed
  <2>2. CASE More(text') /\ (v.accepted \/ kind = "assistant")
    BY <1>1, <1>5, <2>2 DEF Typed, Correct, Done
  <2>3. CASE More(text') /\ ~v.accepted /\ kind # "assistant"
    <3>1. PICK r \in Correct(draft, v) : draft' = r.s
      BY <1>5, <2>3
    <3>2. r \in Forward(draft, t, Len(All), TRUE) /\ r.ok
      BY <1>3, <2>3, <3>1 DEF Correct, Advance, t
    <3>3. Holds(draft, All)
      BY <1>1, <1>3, <1>12, <2>3 DEF Typed, Kinds
    <3>4. /\ r.s \in States(Size) /\ ~r.s.borrowed
          /\ draft.path # "resident" => r.s.path # "resident"
          /\ Ready(r.s, Append(All, t))
      BY <1>1, <1>2, <1>7, <3>2, <3>3, AdvanceHolds
    <3> QED BY <1>8, <2>3, <3>1, <3>4
  <2> QED BY <2>1, <2>2, <2>3
<1>14. /\ accepted' \in Nat /\ accepted' <= Len(text') /\ accepted' <= drafted'
       /\ accepted' + n - checked' <= drafted'
  <2>1. /\ accepted' = IF v.accepted THEN accepted + 1 ELSE accepted
        /\ checked' = checked + 1 /\ drafted' = drafted /\ Len(text') = Len(text) + 1
        /\ v.accepted \in BOOLEAN
    BY <1>5, <1>6, <1>7, <1>8
  <2>2. accepted <= Len(text) /\ accepted <= drafted /\ accepted + n - checked <= drafted
    BY <1>1, <1>3 DEF Typed
  <2> HIDE DEF n
  <2>3. CASE v.accepted
    <3>1. accepted' = accepted + 1
      BY <2>1, <2>3
    <3> QED BY <1>2, <2>1, <2>2, <3>1
  <2>4. CASE ~v.accepted
    <3>1. accepted' = accepted
      BY <2>1, <2>4
    <3> QED BY <1>2, <2>1, <2>2, <3>1
  <2> QED BY <2>1, <2>3, <2>4
<1>15. steps' = IF More(text') THEN Len(All') ELSE Len(All)
  BY <1>2, <1>3, <1>5, <1>8
<1>16. /\ phase' \in {"round", "verify", "bonus"}
       /\ phase' = "verify" => v.accepted /\ More(text') /\ checked + 1 < n
       /\ phase' = "bonus" => v.accepted /\ More(text') /\ checked + 1 = n /\ kind = "ordinary"
       /\ phase' = "round" /\ More(text') /\ v.accepted => kind # "ordinary"
  <2>1. CASE ~v.accepted \/ ~More(text')
    BY <1>5, <2>1
  <2>2. CASE v.accepted /\ More(text') /\ checked + 1 < n
    <3>1. phase' = "verify"
      BY <1>5, <2>2
    <3> QED BY <2>2, <3>1
  <2>3. CASE v.accepted /\ More(text') /\ checked + 1 = n
    <3>1. phase' = IF kind = "ordinary" THEN "bonus" ELSE "round"
      BY <1>2, <1>5, <2>3
    <3> QED BY <2>3, <3>1
  <2>4. checked + 1 < n \/ checked + 1 = n
    BY <1>2
  <2> QED BY <1>7, <2>1, <2>2, <2>3, <2>4
<1>17. Typed'
  <2>1. /\ position' \in 0 .. Size' /\ borrowed_length' \in 0 .. position' /\ steps' \in Nat
        /\ checked' \in 0 .. Len(proposals')
    <3>1. position' \in 0 .. Size' /\ steps' \in Nat
      BY <1>2, <1>3, <1>6, <1>8, <1>15
    <3>2. borrowed_length' \in 0 .. position'
      BY <1>1, <1>2, <1>3, <1>6 DEF Typed
    <3>3. checked' \in 0 .. Len(proposals')
      BY <1>2, <1>6
    <3> QED BY <3>1, <3>2, <3>3
  <2> QED BY <1>1, <1>3, <1>6, <1>8, <1>11, <1>13, <1>14, <1>16, <2>1 DEF Typed, request
<1>18. /\ kind' = kind /\ position' = Len(All')
       /\ More(text') => More(text)' /\ steps' = position' /\ Ready(target', All')
  BY <1>2, <1>3, <1>6, <1>8, <1>11, <1>15 DEF request
<1>19. CASE phase' = "verify"
  <2>1. v.accepted /\ More(text') /\ checked' < Len(proposals') /\ checked' <= Len(text')
    BY <1>2, <1>6, <1>8, <1>16, <1>19
  <2>2. Whole' = Whole /\ All' = SubSeq(Whole', 1, Len(All')) /\ Len(Whole') <= Size'
    BY <1>1, <1>8, <1>10, <2>1 DEF InVerify
  <2>3. \A i \in 1 .. Len(proposals') - 1 : proposals'[i] # End
    BY <1>1, <1>6 DEF InVerify
  <2>4. Len(All') - checked' = Len(All) - checked
    BY <1>2, <1>6, <1>8
  <2>5. \A i \in 1 .. Len(proposals') :
          q_bank'[i] = SubSeq(Whole', 1, Len(All') - checked' + i - 1)
    BY <1>1, <1>6, <2>2, <2>4 DEF InVerify
  <2>6. kind' = "ordinary" =>
          /\ Holds(draft', SubSeq(Whole', 1, Len(Whole') - 1))
          /\ proposals'[Len(proposals')] # End => Holds(draft', Whole')
    BY <1>6, <1>12, <1>13, <1>18, <2>1, <2>2
  <2>7. InVerify'
    BY <1>3, <1>6, <1>14, <1>18, <2>1, <2>2, <2>3, <2>5, <2>6 DEF InVerify
  <2> QED BY <1>17, <1>19, <2>7 DEF IInv, InPhase
<1>20. CASE phase' = "bonus"
  <2>1. v.accepted /\ More(text') /\ checked + 1 = n /\ kind = "ordinary"
    BY <1>16, <1>20
  <2>2. proposals[n] # End
    BY <1>7, <1>8, <2>1
  <2>3. Len(All') = Len(Whole)
    <3>1. Len(Whole) = Len(All) - checked + (checked + 1)
      BY <1>4, <2>1
    <3> QED BY <1>2, <1>8, <3>1
  <2>4. All' = Whole
    BY <1>4, <1>10, <2>1, <2>3, SubSeqFull
  <2>5. Holds(draft', All')
    BY <1>12, <1>13, <2>1, <2>2, <2>4
  <2>6. InBonus'
    BY <1>18, <2>1, <2>5 DEF InBonus
  <2> QED BY <1>17, <1>20, <2>6 DEF IInv, InPhase
<1>21. CASE phase' = "round"
  <2>1. CASE More(text')
    <3>1. kind' = "ordinary" => Ready(draft', All')
      BY <1>7, <1>13, <1>16, <1>18, <1>21, <2>1
    <3>2. kind' = "assistant" => target'.hidden = All'
      BY <1>1, <1>11, <1>18, <2>1 DEF Typed
    <3>3. InRound'
      BY <1>3, <1>18, <2>1, <3>1, <3>2 DEF InRound
    <3> QED BY <1>17, <1>21, <3>3 DEF IInv, InPhase
  <2>2. CASE ~More(text')
    <3>1. InRound'
      BY <1>2, <1>8, <1>15, <2>2 DEF InRound
    <3> QED BY <1>17, <1>21, <3>1 DEF IInv, InPhase
  <2> QED BY <2>1, <2>2
<1> QED BY <1>16, <1>19, <1>20, <1>21

LEMMA BonusStep == IInv /\ Bonus => IInv'
<1> SUFFICES ASSUME IInv, Bonus PROVE IInv'
  OBVIOUS
<1> DEFINE s == Consume(target, greedy)
<1>1. Typed /\ InBonus
  BY DEF IInv, InPhase, Bonus
<1>2. /\ Size \in Nat /\ All \in Seq(Tokens) /\ Len(All) \in Nat \ {0} /\ Len(All) <= Size
      /\ prompt \in Prompts /\ limit \in Limits /\ Len(text) \in Nat
      /\ draft \in States(Size) /\ target \in States(Size)
  BY <1>1, RequestTypes, AllType DEF Typed
<1>3. /\ target.logits = All /\ Holds(target, All) /\ Holds(draft, All) /\ kind = "ordinary"
      /\ position = Len(All) /\ steps = Len(All) /\ More(text)
  BY <1>1 DEF InBonus, Ready, Exact
<1>4. PICK t \in Drawable(target.logits) :
        /\ text' = Append(text, t)
        /\ IF More(text')
           THEN /\ \E r \in Advance(s, t) : target' = r.s
                /\ \E r \in Advance(draft, t) : draft' = r.s
                /\ steps' = steps + 1
           ELSE target' = s /\ UNCHANGED <<draft, steps>>
  BY DEF Bonus
<1>5. /\ position' = position + 1 /\ phase' = "round"
      /\ UNCHANGED <<request, drafted, accepted, round>>
  BY DEF Bonus
<1>6. t \in Tokens
  BY <1>2, <1>3, <1>4, ChoicesAreTokens
<1>7. /\ All' = Append(All, t) /\ Len(All') = Len(All) + 1 /\ Size' = Size
      /\ text' \in Seq(Tokens) /\ Len(text') <= limit /\ Len(text') = Len(text) + 1
      /\ (More(text)' <=> More(text')) /\ Len(All) < Size
  BY <1>1, <1>3, <1>4, <1>5, <1>6, Emit
<1>8. /\ s \in States(Size) /\ s.path = target.path /\ s.borrowed = target.borrowed
      /\ Holds(s, All)
  BY <1>1, <1>2, <1>3, ConsumeKeeps
<1> HIDE DEF s
<1>9. CASE More(text')
  <2>1. PICK r \in Advance(s, t) : target' = r.s
    BY <1>4, <1>9
  <2>2. PICK d \in Advance(draft, t) : draft' = d.s
    BY <1>4, <1>9
  <2>3. /\ r \in Forward(s, t, Len(All), TRUE) /\ r.ok
        /\ d \in Forward(draft, t, Len(All), TRUE) /\ d.ok
    BY <1>3, <2>1, <2>2 DEF Advance
  <2>4. /\ r.s \in States(Size) /\ ~r.s.borrowed /\ Ready(r.s, Append(All, t))
    BY <1>1, <1>6, <1>8, <2>3, AdvanceHolds
  <2>5. /\ d.s \in States(Size) /\ ~d.s.borrowed /\ Ready(d.s, Append(All, t))
    BY <1>1, <1>2, <1>3, <1>6, <2>3, AdvanceHolds
  <2>6. steps' = steps + 1
    BY <1>4, <1>9
  <2>7. Typed'
    <3>1. /\ position' \in 0 .. Size' /\ borrowed_length' \in 0 .. position' /\ steps' \in Nat
          /\ accepted' <= Len(text')
      BY <1>1, <1>2, <1>3, <1>5, <1>7, <2>6 DEF Typed, round
    <3> QED BY <1>1, <1>3, <1>5, <1>7, <2>1, <2>2, <2>4, <2>5, <3>1 DEF Typed, request, round
  <2>8. InRound'
    BY <1>2, <1>3, <1>5, <1>7, <1>9, <2>1, <2>2, <2>4, <2>5, <2>6 DEF InRound, request
  <2> QED BY <1>5, <2>7, <2>8 DEF IInv, InPhase
<1>10. CASE ~More(text')
  <2>1. target' = s /\ UNCHANGED <<draft, steps>>
    BY <1>4, <1>10
  <2>2. Typed'
    <3>1. /\ position' \in 0 .. Size' /\ borrowed_length' \in 0 .. position'
          /\ accepted' <= Len(text')
      BY <1>1, <1>2, <1>3, <1>5, <1>7 DEF Typed, round
    <3> QED BY <1>1, <1>3, <1>5, <1>7, <1>8, <2>1, <3>1 DEF Typed, request, round
  <2>3. InRound'
    BY <1>2, <1>3, <1>7, <1>10, <2>1 DEF InRound
  <2> QED BY <1>5, <2>2, <2>3 DEF IInv, InPhase
<1> QED BY <1>9, <1>10

LEMMA FinishStep == IInv /\ Finish => IInv'
<1> SUFFICES ASSUME IInv, Finish PROVE IInv'
  OBVIOUS
<1>1. Typed /\ InRound /\ ~More(text)
  BY DEF IInv, InPhase, Finish
<1>2. /\ phase' = "complete"
      /\ UNCHANGED <<request, target, draft, text, counters, position, round>>
  BY DEF Finish
<1>3. All' = All /\ Size' = Size
  BY <1>2, Silent
<1>4. Typed'
  BY <1>1, <1>2, <1>3 DEF Typed, request, counters, round
<1>5. steps' = Len(All') - 1
  BY <1>1, <1>2, <1>3 DEF InRound, counters
<1> QED BY <1>2, <1>4, <1>5 DEF IInv, InPhase

LEMMA AbortStep == IInv /\ Abort => IInv'
<1> SUFFICES ASSUME IInv, Abort PROVE IInv'
  OBVIOUS
<1>1. /\ phase' = "failed" /\ text' = <<>> /\ steps' = 0 /\ drafted' = 0 /\ accepted' = 0
      /\ UNCHANGED <<request, target, draft, position, round>>
  BY DEF Abort
<1>2. Typed
  BY DEF IInv
<1>3. Size' = Size /\ limit \in Nat
  BY <1>1, <1>2, RequestTypes DEF Size, request, Typed
<1>4. <<>> \in Seq(Tokens) /\ Len(<<>>) = 0
  BY EmptySeq
<1>5. Typed'
  BY <1>1, <1>2, <1>3, <1>4 DEF Typed, request, round
<1> QED BY <1>1, <1>5 DEF IInv, InPhase

LEMMA StutterStep == IInv /\ UNCHANGED vars => IInv'
<1> SUFFICES ASSUME IInv, UNCHANGED vars PROVE IInv'
  OBVIOUS
<1>1. All' = All /\ Size' = Size /\ (More(text)' <=> More(text)) /\ Maximum' = Maximum
  BY Silent DEF vars, request
<1>2. Typed'
  BY <1>1 DEF IInv, Typed, vars
<1>3. InPrefill => InPrefill'
  BY DEF InPrefill, vars
<1>4. InPrefillDraft => InPrefillDraft'
  BY <1>1 DEF InPrefillDraft, vars
<1>5. InFeed => InFeed'
  BY <1>1 DEF InFeed, vars
<1>6. InSample => InSample'
  BY <1>1 DEF InSample, vars
<1>7. InRound => InRound'
  BY <1>1 DEF InRound, vars
<1>8. InPropose => InPropose'
  BY <1>1 DEF InPropose, vars
<1>9. InVerify => InVerify'
  <2>1. Whole' = Whole
    BY <1>1 DEF Whole, vars
  <2> QED BY <1>1, <2>1 DEF InVerify, vars
<1>10. InBonus => InBonus'
  BY <1>1 DEF InBonus, vars
<1>11. phase' = phase /\ steps' = steps /\ text' = text
  BY DEF vars
<1> QED BY <1>1, <1>2, <1>3, <1>4, <1>5, <1>6, <1>7, <1>8, <1>9, <1>10, <1>11
        DEF IInv, InPhase

LEMMA NextHolds == IInv /\ [Next]_vars => IInv'
  BY PrefillStep, PrefillDraftStep, FeedStep, SampleStep, BaseStep, BeginRoundStep,
     ProposeStep, VerifyStep, BonusStep, FinishStep, AbortStep, StutterStep DEF Next

LEMMA AlwaysIInv == Spec => []IInv
  BY InitHolds, NextHolds, PTL DEF Spec

-----------------------------------------------------------------------------
(* The properties of the runs                                              *)

LEMMA IInvExact == IInv => ExactTexts
<1> SUFFICES ASSUME IInv PROVE ExactTexts
  OBVIOUS
<1>1. phase = "verify" => q_bank[checked + 1] = All
  BY WholeIs DEF IInv, InPhase
<1>2. phase \in {"sample", "verify", "bonus"} => Exact(target, All)
  BY DEF IInv, InPhase, InSample, InVerify, InBonus, Ready
<1>3. phase = "round" /\ kind = "assistant" /\ More(text)
        => Exact(target, All) /\ target.hidden = All
  BY DEF IInv, InPhase, InRound, Ready
<1>4. phase = "propose" => Exact(draft, All \o proposals)
  BY DEF IInv, InPhase, InPropose
<1> QED BY <1>1, <1>2, <1>3, <1>4 DEF ExactTexts, All

LEMMA IInvCounts == IInv => CountsAreExact
<1> SUFFICES ASSUME IInv PROVE CountsAreExact
  OBVIOUS
<1>1. Typed
  BY DEF IInv
<1>2. /\ Size \in Nat /\ limit \in Nat /\ window \in Nat /\ Len(prompt) \in Nat
      /\ Len(text) \in Nat /\ Len(All) = Len(prompt) + Len(text) /\ Len(All) <= Size
      /\ Len(proposals) \in Nat
  BY <1>1, RequestTypes, AllType, LenProperties DEF Typed
<1>3. Capacity(target) = Size /\ Capacity(draft) = Size
  BY <1>1, <1>2, StateParts DEF Typed
<1>4. text \in BoundedSeq(Tokens, limit)
  BY <1>1, <1>2, BoundedSeqIs DEF Typed
<1>5. More(text) => Len(All) < Size
  BY <1>2 DEF More, Size
<1>6. phase = "feed" => position < Size
  BY <1>1, <1>2 DEF IInv, InPhase, InFeed, Typed
<1>7. phase = "propose" => position + Len(proposals) < Size
  BY <1>2 DEF IInv, InPhase, InPropose, Maximum, Size
<1>8. phase \in {"verify", "bonus"} => position < Size
  BY <1>2, <1>5 DEF IInv, InPhase, InVerify, InBonus
<1>9. TypeOK
  BY <1>1, <1>2, <1>3, <1>4, <1>6, <1>7, <1>8 DEF TypeOK, Typed
<1>10. phase = "complete" => /\ steps = Len(prompt) + Len(text) - 1
                             /\ accepted <= drafted /\ accepted <= Len(text)
                             /\ drafted > 0 => kind # "none"
  BY <1>1, <1>2 DEF IInv, InPhase, Typed
<1> QED BY <1>9, <1>10 DEF CountsAreExact

(* Every probability that decides about a token belongs to the exact text  *)
(* before it, whatever the windows, prompts, limits, models and failures:  *)
(* refused rows stay in the caches of nya_llm_generate_draft, but no pass  *)
(* reads them.                                                             *)
THEOREM SpecExactTexts == Spec => []ExactTexts
  BY AlwaysIInv, IInvExact, PTL

(* Rounds stay inside the buffers of both run states, and a complete       *)
(* response counts one step for each token but the last and no more        *)
(* accepted tokens than proposed or generated.                             *)
THEOREM SpecCountsAreExact == Spec => []CountsAreExact
  BY AlwaysIInv, IInvCounts, PTL

-----------------------------------------------------------------------------
(* LlmDraft implements Generation                                          *)

\* A token drawn from the exact text is one a plain generation may draw.
LEMMA EmitIsDraw ==
  ASSUME Typed, More(text), ~Over, NEW t \in Drawable(All), text' = Append(text, t),
         UNCHANGED request, phase' \notin {"complete", "failed"}
  PROVE  G!Draw
<1>1. t \in G!Choices
  BY DEF G!Choices, Drawable, All
<1>2. G!More
  BY DEF More, Ended, G!More, G!Ended
<1>3. Status = "running" /\ Status' = "running"
  BY DEF Status, Over
<1>4. UNCHANGED <<prompt, limit, greedy>>
  BY DEF request
<1> QED BY <1>1, <1>2, <1>3, <1>4 DEF G!Draw

LEMMA StepImplements == IInv /\ [Next]_vars => [G!Next]_G!vars
<1> SUFFICES ASSUME IInv, [Next]_vars PROVE [G!Next]_G!vars
  OBVIOUS
<1> USE DEF Over
<1>1. Typed
  BY DEF IInv
<1>2. ASSUME UNCHANGED <<request, text>>, Status' = Status PROVE UNCHANGED G!vars
  BY <1>2 DEF G!vars, request
<1>3. CASE Prefill
  <2>1. phase = "prefill" /\ phase' \in {"sample", "prefill_draft", "round"}
        /\ UNCHANGED <<request, text>>
    BY <1>1, <1>3 DEF Prefill, Typed, Kinds
  <2> QED BY <1>2, <2>1 DEF Status
<1>4. CASE PrefillDraft
  BY <1>2, <1>4 DEF PrefillDraft, Status
<1>5. CASE Feed
  <2>1. phase = "feed" /\ phase' \in {"sample", "feed"} /\ UNCHANGED <<request, text>>
    BY <1>5 DEF Feed
  <2> QED BY <1>2, <2>1 DEF Status
<1>6. CASE Sample
  <2>1. InSample /\ phase = "sample" /\ phase' \in {"feed", "round"} /\ UNCHANGED request
    BY <1>6 DEF IInv, InPhase, Sample
  <2>2. target.logits = All /\ More(text)
    BY <2>1 DEF InSample, Ready, Exact
  <2>3. PICK t \in Drawable(All) : text' = Append(text, t)
    BY <1>6, <2>2 DEF Sample
  <2>4. G!Draw
    BY <1>1, <2>1, <2>2, <2>3, EmitIsDraw
  <2> QED BY <2>4 DEF G!Next
<1>7. CASE Base
  <2>1. /\ InRound /\ More(text) /\ kind = "assistant" /\ phase = "round"
        /\ phase' \in {"propose", "round"} /\ UNCHANGED request
    BY <1>7 DEF IInv, InPhase, Base
  <2>2. target.logits = All
    BY <2>1 DEF InRound, Ready, Exact
  <2>3. PICK t \in Drawable(All) : text' = Append(text, t)
    BY <1>7, <2>2 DEF Base
  <2>4. G!Draw
    BY <1>1, <2>1, <2>3, EmitIsDraw
  <2> QED BY <2>4 DEF G!Next
<1>8. CASE BeginRound
  BY <1>2, <1>8 DEF BeginRound, Status
<1>9. CASE Propose
  <2>1. phase = "propose" /\ phase' \in {"verify", "propose"} /\ UNCHANGED <<request, text>>
    BY <1>9 DEF Propose
  <2> QED BY <1>2, <2>1 DEF Status
<1>10. CASE Verify
  <2>1. InVerify /\ phase = "verify" /\ UNCHANGED request
    BY <1>10 DEF IInv, InPhase, Verify
  <2>2. target.logits = All /\ More(text)
    BY <2>1 DEF InVerify, Ready, Exact
  <2>3. PICK v \in Verdicts(proposals[checked + 1], Drawable(All)) :
          /\ text' = Append(text, v.token)
          /\ phase' = CASE ~v.accepted \/ ~More(text') -> "round"
                        [] v.accepted /\ More(text') /\ checked + 1 < Len(proposals) -> "verify"
                        [] v.accepted /\ More(text') /\ checked + 1 = Len(proposals) ->
                             IF kind = "ordinary" THEN "bonus" ELSE "round"
    BY <1>10, <2>2 DEF Verify
  <2>4. v.token \in Drawable(All) /\ v.accepted \in BOOLEAN
    BY VerdictIsChoice
  <2>5. phase' \in {"round", "verify", "bonus"}
    <3>1. checked + 1 < Len(proposals) \/ checked + 1 = Len(proposals)
      BY <1>1, <2>1, LenProperties DEF Typed, InVerify
    <3> QED BY <2>3, <2>4, <3>1
  <2>6. G!Draw
    BY <1>1, <2>1, <2>2, <2>3, <2>4, <2>5, EmitIsDraw
  <2> QED BY <2>6 DEF G!Next
<1>11. CASE Bonus
  <2>1. InBonus /\ phase = "bonus" /\ phase' = "round" /\ UNCHANGED request
    BY <1>11 DEF IInv, InPhase, Bonus
  <2>2. target.logits = All /\ More(text)
    BY <2>1 DEF InBonus, Ready, Exact
  <2>3. PICK t \in Drawable(All) : text' = Append(text, t)
    BY <1>11, <2>2 DEF Bonus
  <2>4. G!Draw
    BY <1>1, <2>1, <2>2, <2>3, EmitIsDraw
  <2> QED BY <2>4 DEF G!Next
<1>12. CASE Finish
  <2>1. G!Finish
    BY <1>12 DEF Finish, G!Finish, Status, G!More, G!Ended, More, Ended, request
  <2> QED BY <2>1 DEF G!Next
<1>13. CASE Abort
  <2>1. G!Fail
    BY <1>13 DEF Abort, G!Fail, Status, request
  <2> QED BY <2>1 DEF G!Next
<1>14. CASE UNCHANGED vars
  BY <1>14 DEF vars, G!vars, Status
<1> QED BY <1>3, <1>4, <1>5, <1>6, <1>7, <1>8, <1>9, <1>10, <1>11, <1>12, <1>13, <1>14
        DEF Next

(* Speculation changes nothing: every step of a request with a draft, an   *)
(* assistant, a device or a replay is a step of a plain generation that    *)
(* draws from the target's own distribution, or changes nothing it can     *)
(* see.  (That a request is always answered is left to TLC.)               *)
THEOREM DraftImplementsGeneration == Spec => G!Init /\ [][G!Next]_G!vars
<1>1. Init => G!Init
  BY DEF Init, G!Init, Status
<1> QED BY <1>1, AlwaysIInv, StepImplements, PTL DEF Spec

-----------------------------------------------------------------------------
(* The row partition.                                                      *)

\* A product of naturals grows with its factor.
LEMMA TimesMonotone ==
  ASSUME NEW b \in Nat, NEW i \in Nat, NEW j \in Nat, i =< j
  PROVE  i * b =< j * b
  BY SMT

LEMMA TimesNext ==
  ASSUME NEW b \in Nat, NEW i \in Nat
  PROVE  /\ i * b \in Nat /\ b * i = i * b
         /\ (i + 1) * b = i * b + b /\ i * (b + 1) = i * b + i /\ (b + 1) * i = i * b + i
  BY SMT

LEMMA DivMod ==
  ASSUME NEW n \in Nat, NEW p \in Nat, p > 0
  PROVE  /\ n \div p \in Nat /\ n % p \in 0 .. p - 1
         /\ n = p * (n \div p) + (n % p)
  BY SMT

LEMMA ShareBounds ==
  ASSUME NEW n \in Nat, NEW p \in Nat \ {0}, NEW k \in 0 .. p - 1
  PROVE  /\ ShareBegin(n, k, p) \in Nat /\ ShareEnd(n, k, p) \in Nat
         /\ ShareBegin(n, k, p) =< ShareEnd(n, k, p)
         /\ ShareEnd(n, k, p) =< n
<1> DEFINE b == n \div p
           m == n % p
<1>1. b \in Nat /\ m \in 0 .. p - 1 /\ n = p * b + m
  BY DivMod
<1>2. /\ k * b \in Nat /\ p * b \in Nat
      /\ (k + 1) * b =< p * b /\ (k + 1) * b = k * b + b
  <2>1. k \in Nat /\ k + 1 \in Nat /\ k + 1 =< p
    OBVIOUS
  <2> HIDE DEF b
  <2> QED
    BY <1>1, <2>1, TimesMonotone, TimesNext
<1> HIDE DEF b, m
<1>3. ShareBegin(n, k, p) = k * b + (IF k < m THEN k ELSE m)
  BY DEF ShareBegin, Min2, b, m
<1>4. ShareEnd(n, k, p) = k * b + (IF k < m THEN k ELSE m) + b + (IF k < m THEN 1 ELSE 0)
  BY <1>3 DEF ShareEnd, b, m
<1> QED
  BY <1>1, <1>2, <1>3, <1>4

LEMMA ShareRange ==
  ASSUME NEW n \in Nat, NEW p \in Nat \ {0}, NEW k \in 0 .. p - 1
  PROVE  Share(n, k, p) \subseteq 0 .. n - 1
<1> DEFINE x == ShareBegin(n, k, p)
           y == ShareEnd(n, k, p)
<1>1. x \in Nat /\ y \in Nat /\ y =< n
  BY ShareBounds
<1>2. Share(n, k, p) = x .. y - 1
  BY DEF Share
<1> HIDE DEF x, y
<1> QED
  BY <1>1, <1>2

(* Shares of different threads have no row in common.                      *)
THEOREM SharesDisjoint ==
  ASSUME NEW n \in Nat, NEW p \in Nat \ {0}, NEW i \in 0 .. p - 1, NEW j \in 0 .. p - 1, i # j
  PROVE  Share(n, i, p) \intersect Share(n, j, p) = {}
<1> DEFINE b == n \div p
           m == n % p
<1>1. b \in Nat /\ m \in 0 .. p - 1
  BY DivMod
<1>2. ASSUME NEW k \in 0 .. p - 1, NEW l \in 0 .. p - 1, k < l
      PROVE  ShareEnd(n, k, p) =< ShareBegin(n, l, p)
  <2>1. (k + 1) * b =< l * b /\ (k + 1) * b = k * b + b /\ k * b \in Nat /\ l * b \in Nat
    BY <1>1, <1>2, TimesMonotone, TimesNext
  <2> HIDE DEF b, m
  <2>2. ShareBegin(n, l, p) = l * b + (IF l < m THEN l ELSE m)
    BY DEF ShareBegin, Min2, b, m
  <2>3. ShareEnd(n, k, p) = k * b + (IF k < m THEN k ELSE m) + b + (IF k < m THEN 1 ELSE 0)
    BY DEF ShareBegin, ShareEnd, Min2, b, m
  <2> QED
    BY <1>1, <1>2, <2>1, <2>2, <2>3
<1>3. CASE i < j
  BY <1>2, <1>3, ShareBounds DEF Share
<1>4. CASE j < i
  BY <1>2, <1>4, ShareBounds DEF Share
<1> QED
  BY <1>3, <1>4

(* Every row is in somebody's share.                                       *)
THEOREM SharesCover ==
  ASSUME NEW n \in Nat, NEW p \in Nat \ {0}, NEW r \in 0 .. n - 1
  PROVE  \E k \in 0 .. p - 1 : r \in Share(n, k, p)
<1> DEFINE b == n \div p
           m == n % p
           c == m * (b + 1)
<1>1. b \in Nat /\ m \in 0 .. p - 1 /\ n = p * b + m
  BY DivMod
<1>2. /\ c \in Nat /\ c = m * b + m /\ m * b \in Nat
      /\ p * b \in Nat
  BY <1>1, TimesNext
<1> HIDE DEF b, m, c
<1>3. CASE r < c
  <2> DEFINE k == r \div (b + 1)
             e == r % (b + 1)
  <2>1. k \in Nat /\ e \in 0 .. b /\ r = (b + 1) * k + e
    <3>1. b + 1 \in Nat /\ b + 1 > 0 /\ r \in Nat /\ (b + 1) - 1 = b
      BY <1>1
    <3> QED
      BY <3>1, DivMod
  <2> HIDE DEF k, e
  <2>3. (b + 1) * k = k * b + k /\ k * b \in Nat
    BY <1>1, <2>1, TimesNext
  <2>2. k < m
    <3>1. SUFFICES ASSUME k >= m PROVE FALSE
      BY <1>1, <2>1
    <3> DEFINE x == k * b
               y == m * b
    <3>2. y =< x /\ x \in Nat /\ y \in Nat
      BY <1>1, <1>2, <2>1, <2>3, <3>1, TimesMonotone
    <3>3. r = x + k + e /\ c = y + m
      BY <1>2, <2>1, <2>3
    <3> HIDE DEF x, y
    <3> QED
      BY <1>1, <1>2, <1>3, <2>1, <3>1, <3>2, <3>3
  <2>4. ShareBegin(n, k, p) = k * b + k
    BY <1>1, <2>1, <2>2 DEF ShareBegin, Min2, b, m
  <2>5. ShareEnd(n, k, p) = k * b + k + b + 1
    BY <1>1, <2>2, <2>4 DEF ShareEnd, b, m
  <2>6. r = k * b + k + e
    BY <2>1, <2>3
  <2> DEFINE x == k * b
  <2>7. x \in Nat /\ r = x + k + e
    BY <2>3, <2>6
  <2>8. ShareBegin(n, k, p) = x + k /\ ShareEnd(n, k, p) = x + k + b + 1
    BY <2>4, <2>5
  <2> HIDE DEF x
  <2>9. r \in Share(n, k, p)
    BY <1>1, <2>1, <2>7, <2>8 DEF Share
  <2> QED
    BY <1>1, <2>1, <2>2, <2>9
<1>4. CASE r >= c
  <2>1. b > 0
    BY <1>1, <1>2, <1>4, SMT
  <2> DEFINE q == (r - c) \div b
             e == (r - c) % b
             k == m + q
  <2>2. q \in Nat /\ e \in 0 .. b - 1 /\ r - c = b * q + e
    <3>1. r - c \in Nat
      BY <1>2, <1>4
    <3> QED
      BY <1>1, <2>1, <3>1, DivMod
  <2> HIDE DEF q, e
  <2>3. k * b = m * b + b * q /\ b * q \in Nat /\ k * b \in Nat
    <3>1. (m + q) * b = m * b + b * q
      BY <1>1, <2>2, SMT
    <3> QED
      BY <1>1, <1>2, <2>2, <3>1, TimesNext
  <2>4. k < p
    <3>1. SUFFICES ASSUME k >= p PROVE FALSE
      BY <1>1, <2>2
    <3> DEFINE x == b * q
               y == m * b
               z == p * b
    <3>2. z =< y + x /\ x \in Nat /\ y \in Nat /\ z \in Nat
      BY <1>1, <1>2, <2>2, <2>3, <3>1, TimesMonotone
    <3>3. r - c = x + e /\ c = y + m /\ n = z + m
      BY <1>1, <1>2, <2>2, TimesNext
    <3> HIDE DEF x, y, z
    <3> QED
      BY <1>1, <1>2, <2>2, <3>2, <3>3
  <2>5. k \in Nat /\ ~ (k < m)
    BY <1>1, <2>2
  <2> HIDE DEF k
  <2>6. ShareBegin(n, k, p) = k * b + m
    BY <1>1, <2>5 DEF ShareBegin, Min2, b, m
  <2>7. ShareEnd(n, k, p) = k * b + m + b
    BY <1>1, <2>3, <2>5, <2>6 DEF ShareEnd, b, m
  <2> DEFINE x == b * q
             y == m * b
  <2>8. r - c = x + e /\ c = y + m /\ x \in Nat /\ y \in Nat
    BY <1>2, <2>2, <2>3
  <2>9. ShareBegin(n, k, p) = y + x + m /\ ShareEnd(n, k, p) = y + x + m + b
    BY <2>3, <2>6, <2>7
  <2> HIDE DEF x, y
  <2>10. r \in Share(n, k, p)
    BY <1>1, <1>2, <2>2, <2>8, <2>9 DEF Share
  <2> QED
    BY <2>4, <2>5, <2>10
<1> QED
  BY <1>2, <1>3, <1>4

-----------------------------------------------------------------------------
(* The inductive invariant.                                                *)

Parallel == {"own", "join", "asleep"}

\* The workers that have not yet counted themselves out of this epoch.
Owing == {t \in 1 .. count : seen[t] # epoch \/ pc[t] \in {"fetch", "rows"}}

\* The rows a worker that still owes its share has left.
Left(t) == IF pc[t] = "rows" THEN todo[t] ELSE Share(rows, t, count + 1)

Undone(r) == r \in mine \/ \E t \in Owing : r \in Left(t)

ThreadInv == /\ \A t \in Threads : pc[t] = "unborn" <=> t > count
             /\ \A t \in Threads : pc[t] \in {"fetch", "rows"} => seen[t] = epoch
             /\ \A t \in Threads : pc[t] = "exited" => stopping
             /\ stopping <=> callpc \in {"reap", "freed"}
             /\ callpc = "freed" => \A t \in 1 .. count : pc[t] = "exited"
             /\ callpc = "create" => epoch = 0 /\ \A t \in Threads : seen[t] = 0

\* pending counts the workers that owe, and outside a parallel call none does.
PendingInv == /\ pending = Cardinality(Owing)
              /\ callpc \notin Parallel => Owing = {}

JobInv == /\ callpc \in Parallel \union {"dispatch", "alone", "done"} => job = asked
          /\ \A t \in Threads : pc[t] = "rows" => has[t] = asked

\* A row is counted once or still on exactly one list of rows to do.
HitInv ==
  /\ \A r \in 0 .. MaxRows - 1 : hits[r] =< (IF r < rows THEN 1 ELSE 0)
  /\ callpc = "dispatch" => \A r \in 0 .. MaxRows - 1 : hits[r] = 0
  /\ callpc \in Parallel =>
       /\ mine \subseteq Share(rows, 0, count + 1)
       /\ \A t \in Owing : Left(t) \subseteq Share(rows, t, count + 1)
       /\ \A r \in 0 .. rows - 1 : hits[r] = IF Undone(r) THEN 0 ELSE 1
  /\ callpc = "alone" =>
       /\ mine \subseteq 0 .. rows - 1
       /\ \A r \in 0 .. rows - 1 : hits[r] = IF r \in mine THEN 0 ELSE 1
  /\ callpc \in {"join", "asleep"} => mine = {}
  /\ callpc = "done" => \A r \in 0 .. rows - 1 : hits[r] = 1

PoolInv == PoolTypeOK /\ ThreadInv /\ PendingInv /\ JobInv /\ HitInv

-----------------------------------------------------------------------------
LEMMA OwingFinite ==
  ASSUME PoolTypeOK
  PROVE  /\ Owing \subseteq 1 .. count /\ 1 .. count \subseteq Threads
         /\ Owing \subseteq Threads /\ IsFiniteSet(Owing)
<1>1. Owing \subseteq 1 .. count /\ count \in Nat
  BY DEF Owing, PoolTypeOK
<1>2. IsFiniteSet(1 .. count)
  BY <1>1, FS_Interval
<1>3. 1 .. count \subseteq Threads
  BY PoolAssumption DEF PoolTypeOK, Threads
<1> QED
  BY <1>1, <1>2, <1>3, FS_Subset

\* Whoever reads a job owes its share, so the caller is in its parallel section.
LEMMA BusyOwes ==
  ASSUME PoolInv, NEW t \in Threads, pc[t] \in {"fetch", "rows"}
  PROVE  /\ t \in Owing /\ t \in 1 .. count /\ callpc \in Parallel /\ seen[t] = epoch
         /\ stopping = FALSE /\ job = asked
<1>1. t =< count /\ seen[t] = epoch
  BY PoolAssumption DEF PoolInv, ThreadInv, PoolTypeOK, Threads
<1>2. t \in 1 .. count /\ t \in Owing
  BY <1>1 DEF Owing, Threads, PoolInv, PoolTypeOK
<1> QED
  BY <1>1, <1>2 DEF PoolInv, PendingInv, ThreadInv, Parallel, PoolTypeOK, JobInv

THEOREM PoolInitInvariant == PoolInit => PoolInv
<1> SUFFICES ASSUME PoolInit PROVE PoolInv
  OBVIOUS
<1>1. PoolTypeOK
  <2>1. /\ count \in 0 .. NThreads /\ epoch \in 0 .. EpochCount - 1 /\ pending \in 0 .. NThreads
        /\ rows \in 0 .. MaxRows /\ asked \in 0 .. MaxJobs
    BY PoolAssumption DEF PoolInit
  <2>2. /\ seen \in [Threads -> 0 .. EpochCount - 1] /\ todo \in [Threads -> SUBSET (0 .. MaxRows - 1)]
        /\ hits \in [0 .. MaxRows - 1 -> Nat] /\ mine \subseteq 0 .. MaxRows - 1
    BY PoolAssumption DEF PoolInit
  <2> QED
    BY <2>1, <2>2 DEF PoolInit, PoolTypeOK, CallPC
<1>2. Owing = {}
  BY DEF PoolInit, Owing
<1>3. PendingInv
  BY <1>2, FS_EmptySet DEF PendingInv, PoolInit
<1>4. ThreadInv
  BY PoolAssumption DEF PoolInit, ThreadInv, Threads
<1>5. JobInv /\ HitInv
  BY DEF PoolInit, JobInv, HitInv, Parallel
<1> QED
  BY <1>1, <1>3, <1>4, <1>5 DEF PoolInv

-----------------------------------------------------------------------------
(* One lemma per action: it preserves the inductive invariant.         *)

LEMMA CreateThreadStep ==
  ASSUME PoolInv, CreateThread
  PROVE  PoolInv'
<1> USE PoolAssumption DEF PoolInv, CreateThread, shared, fields, worker, caller
<1>1. PoolTypeOK'
  BY DEF PoolTypeOK, CallPC, ThreadInv, Threads
<1>2. Owing' = Owing
  BY DEF Owing, PoolTypeOK, ThreadInv, Threads
<1>3. PendingInv'
  BY <1>2 DEF PendingInv, Parallel
<1>4. ThreadInv'
  BY DEF ThreadInv, PendingInv, Parallel, Owing, PoolTypeOK, Threads
<1>5. JobInv'
  BY DEF JobInv, Parallel, ThreadInv, PoolTypeOK
<1>6. HitInv'
  BY <1>2 DEF HitInv, Left, Undone, Parallel, Owing, PoolTypeOK, Threads
<1> QED
  BY <1>1, <1>3, <1>4, <1>5, <1>6

LEMMA CreateDoneStep ==
  ASSUME PoolInv, CreateDone
  PROVE  PoolInv'
<1> USE PoolAssumption DEF PoolInv, CreateDone, shared, fields, worker, caller
<1>1. PoolTypeOK'
  BY DEF PoolTypeOK, CallPC, ThreadInv, Threads
<1>2. Owing' = Owing
  BY DEF Owing, PoolTypeOK, ThreadInv, Threads
<1>3. PendingInv'
  BY <1>2 DEF PendingInv, Parallel
<1>4. ThreadInv'
  BY DEF ThreadInv, PendingInv, Parallel, Owing, PoolTypeOK, Threads
<1>5. JobInv'
  BY DEF JobInv, Parallel, ThreadInv, PoolTypeOK
<1>6. HitInv'
  BY <1>2 DEF HitInv, Left, Undone, Parallel, Owing, PoolTypeOK, Threads
<1> QED
  BY <1>1, <1>3, <1>4, <1>5, <1>6

LEMMA CreateFailsStep ==
  ASSUME PoolInv, CreateFails
  PROVE  PoolInv'
<1> USE PoolAssumption DEF PoolInv, CreateFails, shared, fields, worker, caller
<1>1. PoolTypeOK'
  BY DEF PoolTypeOK, CallPC, ThreadInv, Threads
<1>2. Owing' = Owing
  BY DEF Owing, PoolTypeOK, ThreadInv, Threads
<1>3. PendingInv'
  BY <1>2 DEF PendingInv, Parallel
<1>4. ThreadInv'
  BY DEF ThreadInv, PendingInv, Parallel, Owing, PoolTypeOK, Threads
<1>5. JobInv'
  BY DEF JobInv, Parallel, ThreadInv, PoolTypeOK
<1>6. HitInv'
  BY <1>2 DEF HitInv, Left, Undone, Parallel, Owing, PoolTypeOK, Threads
<1> QED
  BY <1>1, <1>3, <1>4, <1>5, <1>6

LEMMA OwnDoneStep ==
  ASSUME PoolInv, OwnDone
  PROVE  PoolInv'
<1> USE PoolAssumption DEF PoolInv, OwnDone, shared, fields, worker, caller
<1>1. PoolTypeOK'
  BY DEF PoolTypeOK, CallPC, ThreadInv, Threads
<1>2. Owing' = Owing
  BY DEF Owing, PoolTypeOK, ThreadInv, Threads
<1>3. PendingInv'
  BY <1>2 DEF PendingInv, Parallel
<1>4. ThreadInv'
  BY DEF ThreadInv, PendingInv, Parallel, Owing, PoolTypeOK, Threads
<1>5. JobInv'
  BY DEF JobInv, Parallel, ThreadInv, PoolTypeOK
<1>6. HitInv'
  BY <1>2 DEF HitInv, Left, Undone, Parallel, Owing, PoolTypeOK, Threads
<1> QED
  BY <1>1, <1>3, <1>4, <1>5, <1>6

LEMMA JoinWaitStep ==
  ASSUME PoolInv, JoinWait
  PROVE  PoolInv'
<1> USE PoolAssumption DEF PoolInv, JoinWait, shared, fields, worker, caller
<1>1. PoolTypeOK'
  BY DEF PoolTypeOK, CallPC, ThreadInv, Threads
<1>2. Owing' = Owing
  BY DEF Owing, PoolTypeOK, ThreadInv, Threads
<1>3. PendingInv'
  BY <1>2 DEF PendingInv, Parallel
<1>4. ThreadInv'
  BY DEF ThreadInv, PendingInv, Parallel, Owing, PoolTypeOK, Threads
<1>5. JobInv'
  BY DEF JobInv, Parallel, ThreadInv, PoolTypeOK
<1>6. HitInv'
  BY <1>2 DEF HitInv, Left, Undone, Parallel, Owing, PoolTypeOK, Threads
<1> QED
  BY <1>1, <1>3, <1>4, <1>5, <1>6

LEMMA JoinDoneStep ==
  ASSUME PoolInv, JoinDone
  PROVE  PoolInv'
<1> USE PoolAssumption DEF PoolInv, JoinDone, shared, fields, worker, caller
<1>1. PoolTypeOK'
  BY DEF PoolTypeOK, CallPC, ThreadInv, Threads
<1>2. Owing' = Owing
  BY DEF Owing, PoolTypeOK, ThreadInv, Threads
<1>3. PendingInv' /\ Owing = {}
  BY <1>2, OwingFinite, FS_EmptySet DEF PendingInv, Parallel
<1>4. ThreadInv'
  BY DEF ThreadInv, PendingInv, Parallel, Owing, PoolTypeOK, Threads
<1>5. JobInv'
  BY DEF JobInv, Parallel, ThreadInv, PoolTypeOK
<1>6. HitInv'
  BY <1>3 DEF HitInv, Undone, Parallel, PoolTypeOK
<1> QED
  BY <1>1, <1>3, <1>4, <1>5, <1>6

LEMMA EndCallStep ==
  ASSUME PoolInv, EndCall
  PROVE  PoolInv'
<1> USE PoolAssumption DEF PoolInv, EndCall, shared, fields, worker, caller
<1>1. PoolTypeOK'
  BY DEF PoolTypeOK, CallPC, ThreadInv, Threads
<1>2. Owing' = Owing
  BY DEF Owing, PoolTypeOK, ThreadInv, Threads
<1>3. PendingInv'
  BY <1>2 DEF PendingInv, Parallel
<1>4. ThreadInv'
  BY DEF ThreadInv, PendingInv, Parallel, Owing, PoolTypeOK, Threads
<1>5. JobInv'
  BY DEF JobInv, Parallel, ThreadInv, PoolTypeOK
<1>6. HitInv'
  BY <1>2 DEF HitInv, Left, Undone, Parallel, Owing, PoolTypeOK, Threads
<1> QED
  BY <1>1, <1>3, <1>4, <1>5, <1>6

LEMMA SpuriousCallerStep ==
  ASSUME PoolInv, SpuriousCaller
  PROVE  PoolInv'
<1> USE PoolAssumption DEF PoolInv, SpuriousCaller, shared, fields, worker, caller
<1>1. PoolTypeOK'
  BY DEF PoolTypeOK, CallPC, ThreadInv, Threads
<1>2. Owing' = Owing
  BY DEF Owing, PoolTypeOK, ThreadInv, Threads
<1>3. PendingInv'
  BY <1>2 DEF PendingInv, Parallel
<1>4. ThreadInv'
  BY DEF ThreadInv, PendingInv, Parallel, Owing, PoolTypeOK, Threads
<1>5. JobInv'
  BY DEF JobInv, Parallel, ThreadInv, PoolTypeOK
<1>6. HitInv'
  BY <1>2 DEF HitInv, Left, Undone, Parallel, Owing, PoolTypeOK, Threads
<1> QED
  BY <1>1, <1>3, <1>4, <1>5, <1>6

LEMMA CloseStep ==
  ASSUME PoolInv, Close
  PROVE  PoolInv'
<1> USE PoolAssumption DEF PoolInv, Close, shared, fields, worker, caller
<1>1. PoolTypeOK'
  BY DEF PoolTypeOK, CallPC, ThreadInv, Threads
<1>2. Owing' = Owing
  BY DEF Owing, PoolTypeOK, ThreadInv, Threads
<1>3. PendingInv'
  BY <1>2 DEF PendingInv, Parallel
<1>4. ThreadInv'
  BY DEF ThreadInv, PendingInv, Parallel, Owing, PoolTypeOK, Threads
<1>5. JobInv'
  BY DEF JobInv, Parallel, ThreadInv, PoolTypeOK
<1>6. HitInv'
  BY <1>2 DEF HitInv, Left, Undone, Parallel, Owing, PoolTypeOK, Threads
<1> QED
  BY <1>1, <1>3, <1>4, <1>5, <1>6

LEMMA StopAllStep ==
  ASSUME PoolInv, StopAll
  PROVE  PoolInv'
<1> USE PoolAssumption DEF PoolInv, StopAll, shared, fields, worker, caller
<1>1. PoolTypeOK'
  BY DEF PoolTypeOK, CallPC, ThreadInv, Threads
<1>2. Owing' = Owing
  BY DEF Owing, PoolTypeOK, ThreadInv, Threads
<1>3. PendingInv'
  BY <1>2 DEF PendingInv, Parallel
<1>4. ThreadInv'
  BY DEF ThreadInv, PendingInv, Parallel, Owing, PoolTypeOK, Threads
<1>5. JobInv'
  BY DEF JobInv, Parallel, ThreadInv, PoolTypeOK
<1>6. HitInv'
  BY <1>2 DEF HitInv, Left, Undone, Parallel, Owing, PoolTypeOK, Threads
<1> QED
  BY <1>1, <1>3, <1>4, <1>5, <1>6

LEMMA ReapStep ==
  ASSUME PoolInv, Reap
  PROVE  PoolInv'
<1> USE PoolAssumption DEF PoolInv, Reap, shared, fields, worker, caller
<1>1. PoolTypeOK'
  BY DEF PoolTypeOK, CallPC, ThreadInv, Threads
<1>2. Owing' = Owing
  BY DEF Owing, PoolTypeOK, ThreadInv, Threads
<1>3. PendingInv'
  BY <1>2 DEF PendingInv, Parallel
<1>4. ThreadInv'
  BY DEF ThreadInv, PendingInv, Parallel, Owing, PoolTypeOK, Threads
<1>5. JobInv'
  BY DEF JobInv, Parallel, ThreadInv, PoolTypeOK
<1>6. HitInv'
  BY <1>2 DEF HitInv, Left, Undone, Parallel, Owing, PoolTypeOK, Threads
<1> QED
  BY <1>1, <1>3, <1>4, <1>5, <1>6

LEMMA SpuriousWorkerStep ==
  ASSUME PoolInv, NEW t \in Threads, SpuriousWorker(t)
  PROVE  PoolInv'
<1> USE PoolAssumption DEF PoolInv, SpuriousWorker, shared, fields, worker, caller
<1>1. PoolTypeOK'
  BY DEF PoolTypeOK, CallPC, ThreadInv, Threads
<1>2. Owing' = Owing
  BY DEF Owing, PoolTypeOK, ThreadInv, Threads
<1>3. PendingInv'
  BY <1>2 DEF PendingInv, Parallel
<1>4. ThreadInv'
  BY DEF ThreadInv, PendingInv, Parallel, Owing, PoolTypeOK, Threads
<1>5. JobInv'
  BY DEF JobInv, Parallel, ThreadInv, PoolTypeOK
<1>6. HitInv'
  <2>1. \A s \in Threads : Left(s)' = Left(s)
    BY DEF Left, PoolTypeOK, Threads
  <2>2. Owing \subseteq Threads /\ Owing \subseteq 1 .. count
    BY DEF Owing, PoolTypeOK, Threads
  <2>3. \A r : Undone(r)' <=> Undone(r)
    BY <1>2, <2>1, <2>2 DEF Undone
  <2> HIDE DEF SpuriousWorker
  <2>4. /\ hits' = hits /\ rows' = rows /\ mine' = mine /\ count' = count
        /\ callpc' = callpc
    BY DEF SpuriousWorker, shared, fields, worker, caller
  <2> QED
    BY <1>2, <2>1, <2>2, <2>3, <2>4 DEF HitInv, Parallel
<1> QED
  BY <1>1, <1>3, <1>4, <1>5, <1>6

LEMMA EnterStep ==
  ASSUME PoolInv, NEW t \in Threads, Enter(t)
  PROVE  PoolInv'
<1> USE PoolAssumption DEF PoolInv, Enter, Loop, shared, fields, worker, caller
<1>1. PoolTypeOK'
  BY DEF PoolTypeOK, CallPC, ThreadInv, Threads
<1>2. Owing' = Owing
  BY SMTT(30) DEF Owing, PoolTypeOK, ThreadInv, Threads
<1>3. PendingInv'
  BY <1>2 DEF PendingInv, Parallel
<1>4. ThreadInv'
  BY DEF ThreadInv, PendingInv, Parallel, Owing, PoolTypeOK, Threads
<1>5. JobInv'
  BY DEF JobInv, Parallel, ThreadInv, PoolTypeOK
<1>6. HitInv'
  <2>1. \A s \in Threads : Left(s)' = Left(s)
    BY DEF Left, PoolTypeOK, Threads
  <2>2. Owing \subseteq Threads /\ Owing \subseteq 1 .. count
    BY DEF Owing, PoolTypeOK, Threads
  <2>3. \A r : Undone(r)' <=> Undone(r)
    BY <1>2, <2>1, <2>2 DEF Undone
  <2> HIDE DEF Enter
  <2>4. /\ hits' = hits /\ rows' = rows /\ mine' = mine /\ count' = count
        /\ callpc' = callpc
    BY DEF Enter, Loop, shared, fields, worker, caller
  <2> QED
    BY <1>2, <2>1, <2>2, <2>3, <2>4 DEF HitInv, Parallel
<1> QED
  BY <1>1, <1>3, <1>4, <1>5, <1>6

LEMMA PrepareStep ==
  ASSUME PoolInv, NEW n \in 1 .. MaxRows, Prepare(n)
  PROVE  PoolInv'
<1> USE PoolAssumption DEF PoolInv, Prepare, shared, fields, worker, caller
<1>1. PoolTypeOK'
  <2>1. hits' \in [0 .. MaxRows - 1 -> Nat]
    OBVIOUS
  <2> QED
    BY <2>1 DEF PoolTypeOK, CallPC, Jobs
<1>2. Owing' = Owing /\ Owing = {}
  BY DEF Owing, PendingInv, Parallel
<1>3. PendingInv'
  BY <1>2 DEF PendingInv, Parallel
<1>4. ThreadInv'
  BY DEF ThreadInv
<1>5. \A t \in Threads : pc[t] \notin {"fetch", "rows"}
  BY <1>2, BusyOwes
<1>6. JobInv'
  BY <1>5 DEF JobInv, Parallel
<1>7. HitInv'
  BY DEF HitInv, Parallel, PoolTypeOK
<1> QED
  BY <1>1, <1>3, <1>4, <1>6, <1>7

LEMMA SerialStep ==
  ASSUME PoolInv, Serial
  PROVE  PoolInv'
<1> USE PoolAssumption DEF PoolInv, Serial, shared, fields, worker, caller
<1>1. mine' = 0 .. rows - 1
  <2>1. rows \in Nat /\ rows \div 1 = rows /\ rows % 1 = 0
    BY DEF PoolTypeOK
  <2>2. ShareBegin(rows, 0, 1) = 0
    BY <2>1 DEF ShareBegin, Min2
  <2>3. ShareEnd(rows, 0, 1) = rows
    BY <2>1, <2>2 DEF ShareEnd
  <2> QED
    BY <2>2, <2>3 DEF Share
<1>2. PoolTypeOK'
  BY <1>1 DEF PoolTypeOK, CallPC
<1>3. Owing' = Owing
  BY DEF Owing
<1>4. PendingInv' /\ ThreadInv'
  BY <1>3 DEF PendingInv, ThreadInv, Parallel
<1>5. JobInv'
  BY DEF JobInv, Parallel
<1>6. HitInv'
  BY <1>1 DEF HitInv, Parallel, PoolTypeOK
<1> QED
  BY <1>2, <1>4, <1>5, <1>6

(* The new epoch differs from the one every worker answered, so all owe.   *)
LEMMA PublishStep ==
  ASSUME PoolInv, Publish
  PROVE  PoolInv'
<1>1. /\ callpc = "dispatch" /\ count > 0 /\ pending' = count
      /\ epoch' = (epoch + 1) % EpochCount
      /\ pc' = [t \in Threads |-> IF pc[t] = "wait" THEN "top" ELSE pc[t]]
      /\ mine' = Share(rows, 0, count + 1)
      /\ callpc' = "own"
      /\ count' = count /\ stopping' = stopping /\ job' = job /\ rows' = rows
      /\ seen' = seen /\ has' = has /\ todo' = todo /\ asked' = asked /\ hits' = hits
  BY DEF Publish, fields
<1>2. Owing = {}
  BY <1>1 DEF PoolInv, PendingInv, Parallel
<1>3. /\ count \in 1 .. NThreads /\ epoch \in 0 .. EpochCount - 1 /\ NThreads \in Nat
      /\ rows \in 0 .. MaxRows /\ count + 1 \in Nat \ {0}
  BY <1>1, PoolAssumption DEF PoolInv, PoolTypeOK
<1>4. epoch' \in 0 .. EpochCount - 1 /\ epoch' # epoch
  <2>1. CASE epoch + 1 = EpochCount
    <3>1. EpochCount % EpochCount = 0
      BY PoolAssumption
    <3> QED
      BY <1>1, <1>3, <2>1, <3>1, PoolAssumption
  <2>2. CASE epoch + 1 # EpochCount
    <3>1. epoch + 1 \in 0 .. EpochCount - 1
      BY <1>3, <2>2, PoolAssumption
    <3>2. (epoch + 1) % EpochCount = epoch + 1
      BY <3>1, PoolAssumption
    <3> QED
      BY <1>1, <1>3, <3>1, <3>2
  <2> QED
    BY <2>1, <2>2
<1>5. \A t \in Threads : pc[t] \notin {"fetch", "rows"} /\ pc'[t] \notin {"fetch", "rows"}
  BY <1>1, <1>2, BusyOwes
<1>6. \A t \in 1 .. count : seen[t] = epoch /\ t \in Threads
  BY <1>2, <1>3 DEF Owing, Threads
<1>7. Owing' = 1 .. count
  BY <1>1, <1>4, <1>6 DEF Owing
<1>8. \A k \in 0 .. count : Share(rows, k, count + 1) \subseteq 0 .. MaxRows - 1
  <2> SUFFICES ASSUME NEW k \in 0 .. count
               PROVE  Share(rows, k, count + 1) \subseteq 0 .. MaxRows - 1
    OBVIOUS
  <2>1. k \in 0 .. (count + 1) - 1 /\ rows \in Nat
    BY <1>3
  <2> QED
    BY <1>3, <2>1, ShareRange, PoolAssumption
<1>9. PoolTypeOK'
  <2>1. mine' \subseteq 0 .. MaxRows - 1
    BY <1>1, <1>3, <1>8
  <2>2. pc' \in [Threads -> {"unborn", "top", "wait", "fetch", "rows", "exited"}]
    BY <1>1 DEF PoolInv, PoolTypeOK
  <2> QED
    BY <1>1, <1>3, <1>4, <2>1, <2>2 DEF PoolInv, PoolTypeOK, CallPC
<1>10. PendingInv'
  BY <1>1, <1>3, <1>7, FS_Interval DEF PendingInv, Parallel
<1>11. ThreadInv'
  BY <1>1, <1>5 DEF PoolInv, ThreadInv, PoolTypeOK
<1>12. JobInv'
  BY <1>1, <1>5 DEF PoolInv, JobInv, Parallel
<1>13. HitInv'
  <2>1. \A r \in 0 .. MaxRows - 1 : hits[r] = 0
    BY <1>1 DEF PoolInv, HitInv
  <2>2. \A t \in Owing' : Left(t)' = Share(rows, t, count + 1)
    BY <1>1, <1>5, <1>6, <1>7 DEF Left
  <2>3. \A r \in 0 .. rows - 1 : Undone(r)'
    <3> SUFFICES ASSUME NEW r \in 0 .. rows - 1 PROVE Undone(r)'
      OBVIOUS
    <3>1. PICK k \in 0 .. (count + 1) - 1 : r \in Share(rows, k, count + 1)
      BY <1>3, SharesCover
    <3>2. CASE k = 0
      BY <1>1, <3>1, <3>2 DEF Undone
    <3>3. CASE k # 0
      <4>1. k \in 1 .. count
        BY <1>3, <3>3
      <4> QED
        BY <1>7, <2>2, <3>1, <4>1 DEF Undone
    <3> QED
      BY <3>2, <3>3
  <2> QED
    BY <1>1, <1>3, <2>1, <2>2, <2>3, PoolAssumption DEF HitInv, Parallel, PoolInv, PoolTypeOK
<1> QED
  BY <1>9, <1>10, <1>11, <1>12, <1>13 DEF PoolInv

\* Two lists never hold the same row, so a row taken from one is on no other.
LEMMA RowOnOneList ==
  ASSUME PoolInv, callpc \in Parallel, NEW r
  PROVE  /\ r \in mine => \A t \in Owing : r \notin Left(t)
         /\ \A s, t \in Owing : s # t /\ r \in Left(s) => r \notin Left(t)
         /\ \A t \in Owing : r \in Left(t) => r \in 0 .. rows - 1
         /\ r \in mine => r \in 0 .. rows - 1
<1> USE DEF PoolInv
<1>1. rows \in Nat /\ count + 1 \in Nat \ {0} /\ 0 \in 0 .. (count + 1) - 1
  BY DEF PoolTypeOK
<1>2. \A t \in Owing : t \in 0 .. (count + 1) - 1 /\ t # 0
  BY OwingFinite DEF PoolTypeOK
<1>3. /\ mine \subseteq Share(rows, 0, count + 1)
      /\ \A t \in Owing : Left(t) \subseteq Share(rows, t, count + 1)
  BY DEF HitInv
<1>4. \A i, j \in 0 .. (count + 1) - 1 : i # j => Share(rows, i, count + 1) \intersect Share(rows, j, count + 1) = {}
  BY <1>1, SharesDisjoint
<1>5. \A i \in 0 .. (count + 1) - 1 : Share(rows, i, count + 1) \subseteq 0 .. rows - 1
  BY <1>1, ShareRange
<1> HIDE DEF PoolInv
<1>6. r \in mine => \A t \in Owing : r \notin Left(t)
  BY <1>1, <1>2, <1>3, <1>4
<1>7. \A s, t \in Owing : s # t /\ r \in Left(s) => r \notin Left(t)
  BY <1>2, <1>3, <1>4
<1>8. /\ \A t \in Owing : r \in Left(t) => r \in 0 .. rows - 1
      /\ r \in mine => r \in 0 .. rows - 1
  BY <1>1, <1>2, <1>3, <1>5
<1> QED
  BY <1>6, <1>7, <1>8

LEMMA OwnRowStep ==
  ASSUME PoolInv, NEW r \in 0 .. MaxRows - 1, OwnRow(r)
  PROVE  PoolInv'
<1> USE PoolAssumption DEF PoolInv, OwnRow, Hit, shared, fields, worker
<1>1. PoolTypeOK'
  BY SMTT(30) DEF PoolTypeOK, CallPC
<1>2. Owing' = Owing /\ \A t \in Threads : Left(t)' = Left(t)
  BY DEF Owing, Left
<1>3. PendingInv' /\ ThreadInv' /\ JobInv'
  BY <1>2 DEF PendingInv, ThreadInv, JobInv, Parallel
<1>4. ASSUME callpc = "alone" PROVE HitInv'
  <2>1. /\ mine \subseteq 0 .. rows - 1 /\ r \in 0 .. rows - 1 /\ r \in mine
        /\ \A q \in 0 .. rows - 1 : hits[q] = IF q \in mine THEN 0 ELSE 1
        /\ \A q \in 0 .. MaxRows - 1 : hits[q] =< (IF q < rows THEN 1 ELSE 0)
    BY <1>4 DEF HitInv
  <2>2. /\ rows' = rows /\ callpc' = callpc /\ mine' = mine \ {r}
        /\ hits' = [hits EXCEPT ![r] = @ + 1]
        /\ rows \in 0 .. MaxRows /\ hits \in [0 .. MaxRows - 1 -> Nat] /\ MaxRows \in Nat
    BY DEF PoolTypeOK
  <2> HIDE DEF PoolInv, OwnRow
  <2>3. /\ \A q \in 0 .. rows - 1 : hits'[q] = IF q \in mine' THEN 0 ELSE 1
        /\ \A q \in 0 .. MaxRows - 1 : hits'[q] =< (IF q < rows' THEN 1 ELSE 0)
    <3>1. hits[r] = 0 /\ r < rows
      BY <2>1, <2>2
    <3> QED
      BY <2>1, <2>2, <3>1
  <2> QED
    BY <1>4, <2>1, <2>2, <2>3 DEF HitInv, Parallel
<1>5. ASSUME callpc = "own" PROVE HitInv'
  <2>1. r \in 0 .. rows - 1 /\ Undone(r) /\ hits[r] = 0
    BY <1>5, RowOnOneList DEF Parallel, HitInv, Undone
  <2>2. Owing \subseteq Threads
    BY OwingFinite DEF Threads, PoolTypeOK
  <2>3. \A q : Undone(q)' <=> Undone(q) /\ q # r
    <3>1. \A t \in Owing : r \notin Left(t)
      BY <1>5, RowOnOneList DEF Parallel
    <3> QED
      BY <1>2, <2>2, <3>1 DEF Undone
  <2>4. /\ rows' = rows /\ count' = count /\ callpc' = callpc /\ mine' = mine \ {r}
        /\ hits' = [hits EXCEPT ![r] = @ + 1]
    OBVIOUS
  <2>5. rows \in 0 .. MaxRows /\ hits \in [0 .. MaxRows - 1 -> Nat] /\ HitInv
    BY DEF PoolTypeOK
  <2> HIDE DEF PoolInv, OwnRow
  <2> QED
    <3>1. \A q \in 0 .. MaxRows - 1 : hits'[q] =< (IF q < rows' THEN 1 ELSE 0)
      BY <2>1, <2>4, <2>5 DEF HitInv
    <3>2. /\ mine \subseteq Share(rows, 0, count + 1)
          /\ \A t \in Owing : Left(t) \subseteq Share(rows, t, count + 1)
          /\ \A q \in 0 .. rows - 1 : hits[q] = IF Undone(q) THEN 0 ELSE 1
      BY <1>5, <2>5 DEF HitInv, Parallel
    <3>3. \A q \in 0 .. rows - 1 : hits'[q] = IF Undone(q)' THEN 0 ELSE 1
      BY <2>1, <2>3, <2>4, <2>5, <3>2
    <3>4. \A t \in Owing' : Left(t)' \subseteq Share(rows, t, count + 1)
      BY <1>2, <2>2, <3>2
    <3> QED
      BY <1>5, <2>4, <3>1, <3>2, <3>3, <3>4 DEF HitInv, Parallel
<1> QED
  BY <1>1, <1>3, <1>4, <1>5

LEMMA FetchStep ==
  ASSUME PoolInv, NEW t \in Threads, Fetch(t)
  PROVE  PoolInv'
<1>1. /\ pc[t] = "fetch" /\ has' = [has EXCEPT ![t] = job]
      /\ todo' = [todo EXCEPT ![t] = Share(rows, t, count + 1)]
      /\ pc' = [pc EXCEPT ![t] = "rows"]
      /\ count' = count /\ epoch' = epoch /\ pending' = pending /\ stopping' = stopping
      /\ job' = job /\ rows' = rows /\ seen' = seen /\ callpc' = callpc /\ mine' = mine
      /\ asked' = asked /\ hits' = hits
  BY DEF Fetch, shared, fields, caller
<1>2. /\ t \in Owing /\ t \in 1 .. count /\ callpc \in Parallel /\ seen[t] = epoch
      /\ stopping = FALSE /\ job = asked
  BY <1>1, BusyOwes
<1>3. PoolTypeOK'
  <2>1. Share(rows, t, count + 1) \subseteq 0 .. MaxRows - 1
    <3>1. /\ rows \in Nat /\ count + 1 \in Nat \ {0} /\ t \in 0 .. (count + 1) - 1
          /\ rows =< MaxRows /\ MaxRows \in Nat
      BY <1>2, PoolAssumption DEF PoolInv, PoolTypeOK
    <3> QED
      BY <3>1, ShareRange
  <2> QED
    BY <1>1, <2>1 DEF PoolInv, PoolTypeOK, CallPC
<1>4. Owing' = Owing
  BY <1>1 DEF Owing, PoolInv, PoolTypeOK
<1>5. \A s \in Threads : Left(s)' = Left(s)
  BY <1>1 DEF Left, PoolInv, PoolTypeOK
<1>6. PendingInv'
  BY <1>1, <1>4 DEF PendingInv, PoolInv
<1>7. ThreadInv'
  BY <1>1, <1>2 DEF ThreadInv, PoolInv, PoolTypeOK, Threads
<1>8. JobInv'
  BY <1>1, <1>2 DEF JobInv, PoolInv, PoolTypeOK
<1>9. HitInv'
  <2>1. Owing \subseteq Threads
    BY OwingFinite DEF PoolInv
  <2>2. \A r : Undone(r)' <=> Undone(r)
    BY <1>1, <1>4, <1>5, <2>1 DEF Undone
  <2> QED
    BY <1>1, <1>4, <1>5, <2>1, <2>2 DEF HitInv, PoolInv
<1> QED
  BY <1>3, <1>6, <1>7, <1>8, <1>9 DEF PoolInv

LEMMA RowStep ==
  ASSUME PoolInv, NEW t \in Threads, NEW r \in 0 .. MaxRows - 1, WorkerRow(t, r)
  PROVE  PoolInv'
<1>1. /\ pc[t] = "rows" /\ r \in todo[t]
      /\ todo' = [todo EXCEPT ![t] = @ \ {r}]
      /\ hits' = [hits EXCEPT ![r] = @ + 1]
      /\ count' = count /\ epoch' = epoch /\ pending' = pending /\ stopping' = stopping
      /\ job' = job /\ rows' = rows /\ seen' = seen /\ pc' = pc /\ has' = has
      /\ callpc' = callpc /\ mine' = mine /\ asked' = asked
  BY DEF WorkerRow, Hit, shared, fields, caller
<1>2. t \in Owing /\ callpc \in Parallel /\ Left(t) = todo[t]
  BY <1>1, BusyOwes DEF Left
<1>3. PoolTypeOK'
  BY <1>1 DEF PoolInv, PoolTypeOK, CallPC
<1>4. Owing' = Owing /\ Owing \subseteq Threads
  BY <1>1, OwingFinite DEF Owing, PoolInv, PoolTypeOK, Threads
<1>5. /\ \A s \in Threads \ {t} : Left(s)' = Left(s)
      /\ Left(t)' = Left(t) \ {r}
  BY <1>1 DEF Left, PoolInv, PoolTypeOK
<1>6. PendingInv' /\ ThreadInv' /\ JobInv'
  BY <1>1, <1>4 DEF PendingInv, ThreadInv, JobInv, PoolInv
<1>7. HitInv'
  <2>1. r \in 0 .. rows - 1 /\ Undone(r) /\ hits[r] = 0
    BY <1>1, <1>2, RowOnOneList DEF PoolInv, HitInv, Undone
  <2>2. r \notin mine /\ \A s \in Owing \ {t} : r \notin Left(s)
    BY <1>1, <1>2, RowOnOneList
  <2>3. \A q : Undone(q)' <=> Undone(q) /\ q # r
    BY <1>1, <1>2, <1>4, <1>5, <2>2 DEF Undone
  <2>4. rows \in 0 .. MaxRows /\ hits \in [0 .. MaxRows - 1 -> Nat] /\ MaxRows \in Nat /\ HitInv
    BY PoolAssumption DEF PoolInv, PoolTypeOK
  <2>5. \A s \in Owing : Left(s)' \subseteq Left(s)
    BY <1>2, <1>4, <1>5
  <2> QED
    BY <1>1, <1>2, <1>4, <2>1, <2>3, <2>4, <2>5 DEF HitInv, Parallel
<1> QED
  BY <1>3, <1>6, <1>7 DEF PoolInv

LEMMA CountOutStep ==
  ASSUME PoolInv, NEW t \in Threads, CountOut(t)
  PROVE  PoolInv'
<1>1. /\ pc[t] = "rows" /\ todo[t] = {} /\ pending' = pending - 1
      /\ callpc' = IF pending = 1 /\ callpc = "asleep" THEN "join" ELSE callpc
      /\ has' = [has EXCEPT ![t] = NoJob] /\ Loop(t)
      /\ count' = count /\ epoch' = epoch /\ stopping' = stopping /\ job' = job
      /\ rows' = rows /\ todo' = todo /\ mine' = mine /\ asked' = asked /\ hits' = hits
  BY DEF CountOut, fields
<1>2. /\ t \in Owing /\ t \in 1 .. count /\ callpc \in Parallel /\ seen[t] = epoch
      /\ stopping = FALSE /\ job = asked /\ Left(t) = {}
  BY <1>1, BusyOwes DEF Left
<1>3. pc' = [pc EXCEPT ![t] = "wait"] /\ seen' = seen
  BY <1>1, <1>2 DEF Loop, PoolInv, PoolTypeOK
<1>4. Owing' = Owing \ {t} /\ Owing \subseteq Threads
  <2>1. Owing \subseteq Threads
    BY OwingFinite DEF PoolInv
  <2>2. /\ seen'[t] = epoch' /\ pc'[t] = "wait"
        /\ \A s \in Threads \ {t} : seen'[s] = seen[s] /\ pc'[s] = pc[s]
    BY <1>1, <1>2, <1>3 DEF PoolInv, PoolTypeOK
  <2>3. 1 .. count \subseteq Threads
    BY OwingFinite DEF PoolInv
  <2> QED
    BY <1>1, <2>1, <2>2, <2>3 DEF Owing
<1>5. IsFiniteSet(Owing) /\ pending = Cardinality(Owing)
  BY OwingFinite DEF PoolInv, PendingInv
<1>6. Cardinality(Owing') = pending - 1
  BY <1>2, <1>4, <1>5, FS_RemoveElement
<1>7. callpc' \in Parallel /\ pending > 0
  BY <1>1, <1>2, <1>5, FS_EmptySet DEF Parallel, PoolInv, PoolTypeOK
<1>8. PoolTypeOK'
  <2>1. pending' \in 0 .. NThreads
    BY <1>1, <1>7, PoolAssumption DEF PoolInv, PoolTypeOK
  <2>2. callpc' \in CallPC
    BY <1>7 DEF Parallel, CallPC
  <2> QED
    BY <1>1, <1>3, <2>1, <2>2 DEF PoolInv, PoolTypeOK
<1>9. PendingInv'
  BY <1>1, <1>6, <1>7 DEF PendingInv
<1>10. ThreadInv'
  BY <1>1, <1>2, <1>3, <1>7 DEF ThreadInv, PoolInv, PoolTypeOK, Threads, Parallel
<1>11. JobInv'
  BY <1>1, <1>2, <1>3 DEF JobInv, PoolInv, PoolTypeOK
<1>12. HitInv'
  <2>1. \A s \in Threads \ {t} : Left(s)' = Left(s)
    BY <1>1, <1>3 DEF Left, PoolInv, PoolTypeOK
  <2>2. \A q : Undone(q)' <=> Undone(q)
    BY <1>1, <1>2, <1>4, <2>1 DEF Undone
  <2>3. callpc' \in {"join", "asleep"} => callpc \in {"join", "asleep"}
    BY <1>1
  <2> QED
    BY <1>1, <1>2, <1>4, <1>7, <2>1, <2>2, <2>3 DEF HitInv, Parallel, PoolInv
<1> QED
  BY <1>8, <1>9, <1>10, <1>11, <1>12 DEF PoolInv

-----------------------------------------------------------------------------
(* PoolInv is inductive, so it holds in every reachable state.                *)
THEOREM PoolInvariance == RowPoolSpec => []PoolInv
<1>1. PoolInv /\ [PoolNext]_poolVars => PoolInv'
  <2> SUFFICES ASSUME PoolInv, [PoolNext]_poolVars PROVE PoolInv'
    OBVIOUS
  <2>1. ASSUME Caller PROVE PoolInv'
    BY <2>1, CreateThreadStep, CreateDoneStep, CreateFailsStep, PrepareStep, SerialStep,
       PublishStep, OwnRowStep, OwnDoneStep, JoinWaitStep, JoinDoneStep, EndCallStep,
       CloseStep, StopAllStep, ReapStep DEF Caller
  <2>2. ASSUME NEW t \in Threads, Worker(t) PROVE PoolInv'
    BY <2>2, EnterStep, FetchStep, RowStep, CountOutStep DEF Worker
  <2>3. ASSUME Spurious PROVE PoolInv'
    BY <2>3, SpuriousCallerStep, SpuriousWorkerStep DEF Spurious
  <2>4. ASSUME poolVars' = poolVars PROVE PoolInv'
    BY <2>4 DEF poolVars, PoolInv, PoolTypeOK, ThreadInv, PendingInv, JobInv, HitInv, Owing, Left, Undone
  <2> QED
    BY <2>1, <2>2, <2>3, <2>4 DEF PoolNext, Terminated
<1> QED
  BY <1>1, PoolInitInvariant, PTL DEF RowPoolSpec

(* Every variable keeps its type: in particular pending never leaves       *)
(* 0 .. NThreads, so no worker counts itself out twice.                    *)
THEOREM PoolTyping == RowPoolSpec => []PoolTypeOK
<1>1. PoolInv => PoolTypeOK
  BY DEF PoolInv
<1> QED
  BY <1>1, PoolInvariance, PTL

(* Workers read a job only while its caller waits for them, and only that  *)
(* job: cpu_worker and train_worker_main read its fields unlocked.         *)
THEOREM JobsArePinned == RowPoolSpec => []JobIsPinned
<1>1. PoolInv => JobIsPinned
  <2> SUFFICES ASSUME PoolInv PROVE JobIsPinned
    OBVIOUS
  <2>1. Busy # {} => callpc \in {"own", "join", "asleep"}
    BY BusyOwes DEF Busy, Parallel
  <2>2. callpc = "freed" => \A t \in Threads : pc[t] \in {"unborn", "exited"}
    BY DEF PoolInv, ThreadInv, PoolTypeOK, Threads
  <2> QED
    BY <2>1, <2>2 DEF JobIsPinned, PoolInv, JobInv
<1> QED
  BY <1>1, PoolInvariance, PTL

(* A call that returns has computed every row of its job exactly once,     *)
(* whatever the number of threads and rows and however the epoch wraps.    *)
THEOREM RowsAreComputedOnce == RowPoolSpec => []EveryRowOnce
<1>1. PoolInv => EveryRowOnce
  BY DEF PoolInv, HitInv, EveryRowOnce
<1> QED
  BY <1>1, PoolInvariance, PTL
=============================================================================
