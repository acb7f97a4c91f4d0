----------------------------- MODULE MCLlmDraft -----------------------------
(***************************************************************************)
(* LlmDraft for TLC: a vocabulary of two words and a stop token, prompts   *)
(* of one and two tokens.  The greedy target is one fixed model whose      *)
(* choice depends on every token before; at other temperatures the target  *)
(* may leave out one word.  The draft may propose anything, so every draft *)
(* model is covered.                                                       *)
(***************************************************************************)
EXTENDS LlmDraft

MCTokens == 0 .. 2
MCPrompts == {<<1>>, <<2, 1>>}
MCLimits == {1, 4}

\* Different for texts of the same length, and a stop token after some.
Hash(p) == FoldFunction(LAMBDA t, h : 2 * h + t, Len(p), p)

MCBest(p) == (Hash(p) \div 2) % 3
MCLikely(p) == MCTokens \ {Hash(p) % 3}
MCGuess(p) == MCTokens
=============================================================================
