------------------------------ MODULE RunState ------------------------------
(***************************************************************************)
(* nya_llm_run_state (src/backend/core/llm_cpu.c) and the operations on    *)
(* it: what one forward pass, a prefill or the replay after a device       *)
(* failure leaves in the caches and in the logits.  A cached key and value *)
(* row, a logits vector and a hidden state are represented by the token    *)
(* prefix they were computed from, so a row that was computed over stale   *)
(* rows is visible: it is Corrupt.  Row i of a cache belongs to position   *)
(* i - 1 of the code.  Numbers, layers and attention windows are           *)
(* abstracted.  An operation returns the set of its outcomes, each a       *)
(* record [ok, s]: the return value and the state it leaves.               *)
(***************************************************************************)
EXTENDS Naturals, Sequences, SequencesExt

CONSTANTS Tokens,  \* the vocabulary
          Unset    \* an element of device_tokens that was never written

ASSUME RunStateAssumption == Unset \notin Tokens

\* Computed from rows that do not belong together, or not at all.
Corrupt == <<>>

Paths == {"resident",  \* device_plan != NULL
          "batched",   \* prefill_batch != 0
          "tokens"}    \* one token at a time on the host

Blank(n) == [i \in 1 .. n |-> Corrupt]

\* nya_llm_state_create: capacity rows, nothing computed.
NewState(capacity, path) ==
  [path |-> path,
   cache |-> Blank(capacity),   \* key_cache and value_cache
   kv |-> Blank(capacity),      \* the caches of the device plan
   valid |-> 0,                 \* rows the plan has accepted
   doubt |-> FALSE,             \* a launched kernel failed, not yet seen
   tokens |-> [i \in 1 .. capacity |-> Unset],  \* device_tokens
   logits |-> Corrupt,
   fresh |-> FALSE,             \* logits not yet turned into probabilities
   hidden |-> Corrupt,          \* normalized, after the output norm
   borrowed |-> FALSE]          \* embedded_input and layer_input are set

Capacity(s) == Len(s.cache)

\* The first n rows are the prefixes of one sequence of n tokens.
Coherent(rows, n) ==
  \A i \in 1 .. n : Len(rows[i]) = i /\ IsPrefix(rows[i], rows[n])

Prefix(rows, n) == IF n = 0 THEN <<>> ELSE rows[n]

\* Rows n + 1, n + 2, ... computed for the tokens of q, each over all rows
\* before it.
Written(rows, n, q) ==
  [i \in DOMAIN rows |->
     IF i \notin n + 1 .. n + Len(q) THEN rows[i]
     ELSE IF Coherent(rows, n) THEN Prefix(rows, n) \o SubSeq(q, 1, i - n)
          ELSE Corrupt]

Spoiled(rows, n, m) ==
  [i \in DOMAIN rows |-> IF i \in n + 1 .. n + m THEN Corrupt ELSE rows[i]]

Done(s)   == [ok |-> TRUE, s |-> s]
Failed(s) == [ok |-> FALSE, s |-> s]

\* compute_logits: the output norm and the vocabulary projection of row n.
\* Without it normalized is scratch memory of the last layer.
Output(s, n, want) ==
  IF want THEN [s EXCEPT !.logits = s.cache[n], !.hidden = s.cache[n],
                         !.fresh = TRUE]
  ELSE [s EXCEPT !.hidden = Corrupt]

\* A pass that stopped in some layer: its rows and outputs are half done.
Broken(s, n, m) ==
  [s EXCEPT !.cache = Spoiled(@, n, m), !.logits = Corrupt,
            !.hidden = Corrupt, !.fresh = FALSE]

\* nya_llm_forward_impl for each token of q in turn from position n, and
\* nya_llm_cpu_prefill, which visits layers before positions.  Non-finite
\* values make it fail; a position above the capacity is refused.
HostRun(s, q, n, want) ==
  IF n + Len(q) > Capacity(s) THEN {Failed(s)}
  ELSE LET rows == IF s.borrowed THEN Spoiled(s.cache, n, Len(q))
                   ELSE Written(s.cache, n, q)
       IN {Done(Output([s EXCEPT !.cache = rows], n + Len(q), want)),
           Failed(Broken(s, n, Len(q)))}

\* nya_compute_plan_free
FreePlan(s) ==
  [s EXCEPT !.path = IF @ = "resident" THEN "tokens" ELSE @,
            !.kv = Blank(Capacity(s)), !.valid = 0, !.doubt = FALSE]

\* cuda_plan_batch: rows may be rewritten or appended, never left out.
PlanAccepts(s, n) == n = 0 \/ n <= s.valid

\* The plan succeeds.  Without logits nothing is synchronised: a kernel that
\* fails is noticed by a later call that waits for the stream.
PlanRuns(s, q, n, want) ==
  LET next == [s EXCEPT !.kv = Written(@, n, q), !.valid = n + Len(q)]
  IN IF ~PlanAccepts(s, n) THEN {}
     ELSE IF want
     THEN IF s.doubt THEN {}
          ELSE {Done([next EXCEPT !.logits = next.kv[n + Len(q)],
                                  !.fresh = TRUE, !.hidden = Corrupt])}
     ELSE {Done(next),
           Done([next EXCEPT !.kv = Spoiled(@, n, Len(q)), !.doubt = TRUE])}

\* Mutant: only the tokens of the failing call are computed again.
ReplayTail(s, n, m, want) ==
  HostRun(FreePlan(s), SubSeq(s.tokens, n + 1, n + m), n, want)

\* The plan failed: it is freed, and the host computes every row again from
\* device_tokens before it continues.
Replay(s, n, m, want) ==
  HostRun(FreePlan(s), SubSeq(s.tokens, 1, n + m), 0, want)

\* device_tokens[n ..] = q
Remember(s, q, n) ==
  [s EXCEPT !.tokens = [i \in DOMAIN @ |->
                          IF i \in n + 1 .. n + Len(q) THEN q[i - n] ELSE @[i]]]

\* nya_llm_device_prefill, and the device half of nya_llm_forward.
DeviceRun(s, q, n, want) ==
  IF n + Len(q) > Capacity(s) THEN {Failed(s)}
  ELSE LET t == Remember(s, q, n)
       IN PlanRuns(t, q, n, want) \cup Replay(t, n, Len(q), want)

\* nya_llm_forward
Forward(s, token, n, want) ==
  IF s.path = "resident" THEN DeviceRun(s, <<token>>, n, want)
  ELSE HostRun(s, <<token>>, n, want)

\* nya_llm_prefill without soft tokens, and nya_llm_session_run with each = 0.
TextPrefill(s, q, n) ==
  IF s.path = "resident" THEN DeviceRun(s, q, n, TRUE)
  ELSE HostRun(s, q, n, TRUE)

\* cleanup of nya_llm_prefill
Return(s) == [s EXCEPT !.borrowed = FALSE]

\* nya_llm_prefill with soft tokens: the plan is given up, then all layers of
\* the prompt are computed from borrowed inputs, whose rows are those of the
\* prompt.  The spans may be invalid and the buffers not available.
SoftPrefill(s, q) ==
  LET t == FreePlan(s)
      rows == Written(t.cache, 0, q)
  IN {Failed(Return(t)),
      Failed(Return(Broken([t EXCEPT !.borrowed = TRUE], 0, Len(q)))),
      Done(Return(Output([t EXCEPT !.cache = rows, !.borrowed = TRUE],
                         Len(q), TRUE)))}

\* nya_llm_sample and nya_llm_distribution: above temperature 0 the
\* probabilities replace the logits.
Consume(s, greedy) == IF greedy THEN s ELSE [s EXCEPT !.fresh = FALSE]

\* nya_llm_forward_impl of an MTP assistant at position n: it has no cache of
\* its own, reads the first `length` rows of the target and carries the
\* hidden state from call to call.
AssistantRun(s, target, token, n, length) ==
  LET known == /\ Coherent(target.cache, length)
               /\ Len(s.hidden) = n
               /\ IsPrefix(target.cache[length], s.hidden)
      p == IF known THEN Append(s.hidden, token) ELSE Corrupt
  IN IF n >= Capacity(s) \/ length = 0 \/ length > Capacity(target)
     THEN {Failed(s)}
     ELSE {Done([s EXCEPT !.logits = p, !.hidden = p, !.fresh = TRUE]),
           Failed([s EXCEPT !.logits = Corrupt, !.hidden = Corrupt,
                            !.fresh = FALSE])}
=============================================================================
