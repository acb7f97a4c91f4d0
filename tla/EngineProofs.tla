---------------------------- MODULE EngineProofs ----------------------------
(***************************************************************************)
(* What the engine's run checks of an inference session, of a ROCm         *)
(* context, of the MLX library and of tensor execution, for every capacity *)
(* and vocabulary, every set of matrices, budget and request.              *)
(***************************************************************************)
EXTENDS MCEngine, RunStateProofs, FiniteSetTheorems, WellFoundedInduction

\* While a session has not failed, its run state holds what a pass after the
\* accepted tokens needs; between calls its logits are those of these tokens.
SessionInv ==
  /\ state \in States(Size) /\ ~state.borrowed
  /\ position \in 0 .. Size
  /\ failed \in BOOLEAN /\ has_logits \in BOOLEAN /\ each \in BOOLEAN
  /\ todo \in Seq(Tokens) /\ position + Len(todo) <= Size
  /\ accepted \in Seq(Tokens) /\ Len(accepted) <= Size
  /\ failed => todo = <<>>
  /\ ~failed => /\ Holds(state, accepted) /\ position = Len(accepted)
                /\ has_logits => accepted # <<>>
  /\ ~failed /\ todo = <<>> => /\ accepted # <<>> => has_logits
                               /\ has_logits => state.logits = accepted

LEMMA SessionInit == Init => SessionInv
<1> SUFFICES ASSUME Init PROVE SessionInv
  OBVIOUS
<1>1. PICK p \in Paths : state = NewState(Size, p)
  BY DEF Init
<1>2. Size \in Nat
  BY LlmSessionAssumption
<1>3. state \in States(Size) /\ Holds(state, <<>>)
  BY <1>1, <1>2, NewStateType
<1>4. <<>> \in Seq(Tokens) /\ Len(<<>>) = 0
  BY EmptySeq
<1>5. /\ position = 0 /\ failed = FALSE /\ has_logits = FALSE /\ todo = <<>>
      /\ each = FALSE /\ accepted = <<>>
  BY DEF Init
<1>6. ~state.borrowed
  BY <1>1 DEF NewState
<1>7. 0 \in 0 .. Size /\ 0 + 0 <= Size /\ 0 <= Size
  BY <1>2
<1>8. Holds(state, accepted) /\ Len(todo) = 0 /\ Len(accepted) = 0
  BY <1>3, <1>4, <1>5
<1> HIDE DEF Init
<1> QED BY <1>2, <1>3, <1>4, <1>5, <1>6, <1>7, <1>8 DEF SessionInv

LEMMA SessionReset == SessionInv /\ Reset => SessionInv'
<1> SUFFICES ASSUME SessionInv, Reset PROVE SessionInv'
  OBVIOUS
<1>1. Size \in Nat /\ state \in States(Size) /\ ~state.borrowed
  BY LlmSessionAssumption DEF SessionInv
<1>2. <<>> \in Seq(Tokens) /\ Len(<<>>) = 0 /\ Capacity(state) = Size
  BY <1>1, EmptySeq, StateParts
<1>3. Holds(state, <<>>)
  BY <1>1, <1>2 DEF Holds, RowsOf
<1>4. /\ position' = 0 /\ failed' = FALSE /\ has_logits' = FALSE /\ accepted' = <<>>
      /\ state' = state /\ todo' = todo /\ each' = each /\ todo = <<>>
  BY DEF Reset, Idle
<1>5. 0 \in 0 .. Size /\ 0 + 0 <= Size /\ 0 <= Size
  BY <1>1
<1>6. each \in BOOLEAN
  BY DEF SessionInv
<1> HIDE DEF Reset
<1> QED BY <1>1, <1>2, <1>3, <1>4, <1>5, <1>6 DEF SessionInv

\* A call that fails leaves the session to be reset.
LEMMA SessionFails ==
  ASSUME SessionInv, RunFails, state' \in States(Size), ~state'.borrowed, each' = each
  PROVE  SessionInv'
<1>1. <<>> \in Seq(Tokens) /\ Len(<<>>) = 0
  BY EmptySeq
<1>2. /\ failed' = TRUE /\ has_logits' = FALSE /\ todo' = <<>>
      /\ position' = position /\ accepted' = accepted
  BY DEF RunFails
<1>3. Size \in Nat /\ position \in 0 .. Size /\ position + 0 <= Size
  BY LlmSessionAssumption DEF SessionInv
<1> QED BY <1>1, <1>2, <1>3 DEF SessionInv

LEMMA SessionPrefill == SessionInv /\ RunPrefill => SessionInv'
<1> SUFFICES ASSUME SessionInv, RunPrefill PROVE SessionInv'
  OBVIOUS
<1>1. PICK q \in Inputs : \E r \in TextPrefill(state, q, position) :
        /\ state' = r.s
        /\ IF r.ok
           THEN /\ position' = position + Len(q)
                /\ accepted' = accepted \o q
                /\ has_logits' = TRUE
                /\ UNCHANGED <<failed, todo>>
           ELSE RunFails
  BY DEF RunPrefill
<1>1a. PICK r \in TextPrefill(state, q, position) :
        /\ state' = r.s
        /\ IF r.ok
           THEN /\ position' = position + Len(q)
                /\ accepted' = accepted \o q
                /\ has_logits' = TRUE
                /\ UNCHANGED <<failed, todo>>
           ELSE RunFails
  BY <1>1
<1>2. each' = each /\ ~failed /\ todo = <<>>
  BY DEF RunPrefill, CanRun, Idle
<1>3. /\ Size \in Nat /\ state \in States(Size) /\ Holds(state, accepted)
      /\ position = Len(accepted) /\ accepted \in Seq(Tokens) /\ position \in 0 .. Size
  BY <1>2, LlmSessionAssumption DEF SessionInv
<1>4. q \in Seq(Tokens) /\ Len(q) <= Size - position /\ q # <<>> /\ Len(q) \in Nat
  <2>1. Size - position \in Nat /\ q \in BoundedSeq(Tokens, Size - position) /\ q # <<>>
    BY <1>3 DEF Inputs
  <2> QED BY <2>1, BoundedSeqIs, LenProperties
<1>5. r \in Pass(state, q, Len(accepted), TRUE)
  BY <1>1a, <1>3, TextPrefillIsPass
<1>6. /\ r.s \in States(Size) /\ r.ok \in BOOLEAN /\ ~r.s.borrowed
      /\ r.ok => Holds(r.s, accepted \o q) /\ r.s.logits = accepted \o q
  BY <1>3, <1>4, <1>5, PassHolds
<1>7. CASE r.ok
  <2>1. /\ accepted' = accepted \o q /\ position' = position + Len(q) /\ has_logits' = TRUE
        /\ failed' = failed /\ todo' = todo /\ state' = r.s
    BY <1>1a, <1>7
  <2>2. accepted \o q \in Seq(Tokens) /\ Len(accepted \o q) = position + Len(q)
        /\ accepted \o q # <<>>
    <3>1. accepted \o q \in Seq(Tokens) /\ Len(accepted \o q) = Len(accepted) + Len(q)
      BY <1>3, <1>4, ConcatProperties
    <3>2. Len(q) > 0
      BY <1>4, EmptySeq
    <3> QED BY <1>3, <3>1, <3>2, EmptySeq
  <2>3. position + Len(q) \in 0 .. Size
    BY <1>3, <1>4
  <2>4. Len(<<>>) = 0 /\ <<>> \in Seq(Tokens)
    BY EmptySeq
  <2>5. Holds(state', accepted') /\ state'.logits = accepted' /\ state' \in States(Size)
        /\ ~state'.borrowed
    BY <1>6, <1>7, <2>1
  <2> HIDE DEF Holds
  <2> QED BY <1>2, <1>3, <2>1, <2>2, <2>3, <2>4, <2>5 DEF SessionInv
<1>8. CASE ~r.ok
  BY <1>1a, <1>2, <1>6, <1>8, SessionFails
<1> QED BY <1>7, <1>8

LEMMA SessionTokens == SessionInv /\ RunTokens => SessionInv'
<1> SUFFICES ASSUME SessionInv, RunTokens PROVE SessionInv'
  OBVIOUS
<1>1. PICK q \in Inputs, e \in BOOLEAN : todo' = q /\ each' = e
  BY DEF RunTokens
<1>2. /\ UNCHANGED <<state, position, failed, has_logits, accepted>> /\ ~failed
  BY DEF RunTokens, CanRun
<1>3. Size \in Nat /\ position \in 0 .. Size
  BY LlmSessionAssumption DEF SessionInv
<1>4. q \in Seq(Tokens) /\ position + Len(q) <= Size /\ q # <<>>
  <2>1. Size - position \in Nat /\ q \in BoundedSeq(Tokens, Size - position) /\ q # <<>>
    BY <1>3 DEF Inputs
  <2>2. q \in Seq(Tokens) /\ Len(q) <= Size - position /\ Len(q) \in Nat
    BY <2>1, BoundedSeqIs, LenProperties
  <2> QED BY <1>3, <2>1, <2>2
<1> QED BY <1>1, <1>2, <1>3, <1>4 DEF SessionInv

LEMMA SessionToken == SessionInv /\ RunToken => SessionInv'
<1> SUFFICES ASSUME SessionInv, RunToken PROVE SessionInv'
  OBVIOUS
<1> DEFINE want == each \/ Len(todo) = 1
           t == Head(todo)
<1>1. PICK r \in Forward(state, t, position, want) :
        /\ state' = r.s
        /\ IF r.ok
           THEN /\ position' = position + 1
                /\ accepted' = Append(accepted, t)
                /\ todo' = Tail(todo)
                /\ has_logits' = (has_logits \/ Len(todo) = 1)
                /\ UNCHANGED failed
           ELSE RunFails
  BY DEF RunToken
<1>2. each' = each /\ todo # <<>> /\ ~failed /\ each \in BOOLEAN /\ has_logits \in BOOLEAN
  BY DEF RunToken, Idle, SessionInv
<1>3. /\ Size \in Nat /\ state \in States(Size) /\ Holds(state, accepted)
      /\ position = Len(accepted) /\ accepted \in Seq(Tokens) /\ position \in 0 .. Size
      /\ todo \in Seq(Tokens) /\ position + Len(todo) <= Size
  BY <1>2, LlmSessionAssumption DEF SessionInv
<1>4. /\ t \in Tokens /\ Tail(todo) \in Seq(Tokens) /\ Len(Tail(todo)) = Len(todo) - 1
      /\ Len(todo) \in Nat
  BY <1>2, <1>3, HeadTailProperties, LenProperties
<1> HIDE DEF want, t
<1>5. want \in BOOLEAN /\ r \in Forward(state, t, Len(accepted), want)
  BY <1>1, <1>2, <1>3 DEF want
<1>6. /\ r.s \in States(Size) /\ r.ok \in BOOLEAN /\ ~r.s.borrowed
      /\ r.ok => /\ Holds(r.s, Append(accepted, t))
                 /\ want => r.s.logits = Append(accepted, t)
  BY <1>3, <1>4, <1>5, ForwardHolds
<1>7. CASE r.ok
  <2>1. /\ accepted' = Append(accepted, t) /\ position' = position + 1 /\ todo' = Tail(todo)
        /\ has_logits' = (has_logits \/ Len(todo) = 1) /\ failed' = failed /\ state' = r.s
    BY <1>1, <1>7
  <2>2. /\ accepted' \in Seq(Tokens) /\ accepted' # <<>> /\ Len(accepted') = position + 1
    BY <1>3, <1>4, <2>1, AppendProperties
  <2>3. position' \in 0 .. Size /\ position' + Len(todo') <= Size /\ Len(accepted') <= Size
    BY <1>3, <1>4, <2>1, <2>2
  <2>4. ASSUME todo' = <<>> PROVE Len(todo) = 1
    <3>1. Len(Tail(todo)) = 0
      BY <2>1, <2>4, EmptySeq
    <3>2. Len(Tail(todo)) = Len(todo) - 1 /\ Len(todo) \in Nat
      BY <1>4
    <3> QED BY <3>1, <3>2
  <2>5. todo' = <<>> => has_logits' /\ state'.logits = accepted'
    BY <1>6, <1>7, <2>1, <2>4 DEF want
  <2>6. Holds(state', accepted') /\ state' \in States(Size) /\ ~state'.borrowed
    BY <1>6, <1>7, <2>1
  <2>7. todo' \in Seq(Tokens) /\ has_logits' \in BOOLEAN
    BY <1>2, <1>4, <2>1
  <2> QED BY <1>2, <2>1, <2>2, <2>3, <2>5, <2>6, <2>7 DEF SessionInv
<1>8. CASE ~r.ok
  BY <1>1, <1>2, <1>6, <1>8, SessionFails
<1> QED BY <1>7, <1>8

LEMMA SessionNext == SessionInv /\ [Next]_vars => SessionInv'
<1>1. SessionInv /\ UNCHANGED vars => SessionInv'
  BY DEF SessionInv, vars
<1> QED BY <1>1, SessionReset, SessionPrefill, SessionTokens, SessionToken DEF Next

LEMMA SessionInvReads == SessionInv => TypeOK /\ ReadsAreExact
<1> SUFFICES ASSUME SessionInv PROVE TypeOK /\ ReadsAreExact
  OBVIOUS
<1>1. Size \in Nat /\ state \in States(Size) /\ position \in 0 .. Size
  BY LlmSessionAssumption DEF SessionInv
<1>2. \A x : x \in BoundedSeq(Tokens, Size) <=> x \in Seq(Tokens) /\ Len(x) <= Size
  BY <1>1, BoundedSeqIs
<1>3. todo \in BoundedSeq(Tokens, Size) /\ accepted \in BoundedSeq(Tokens, Size)
  <2>1. Len(todo) <= Size
    BY <1>1, LenProperties DEF SessionInv
  <2> QED BY <1>2, <2>1 DEF SessionInv
<1>4. TypeOK
  BY <1>1, <1>3 DEF TypeOK, SessionInv, States, Texts
<1>5. ASSUME Idle, ~failed
      PROVE  /\ position = Len(accepted)
             /\ has_logits <=> accepted # <<>>
             /\ has_logits => state.logits = accepted
  BY <1>5 DEF SessionInv, Idle
<1>6. ASSUME Idle, ~failed, NEW n \in 1 .. position, Readable(n)
      PROVE  Row(n) = SubSeq(accepted, 1, n)
  <2>1. Holds(state, accepted) /\ n \in 1 .. Len(accepted)
    BY <1>6 DEF SessionInv
  <2> QED BY <1>6, <2>1 DEF Holds, RowsOf, Readable, Row
<1>7. ReadsAreExact
  BY <1>5, <1>6 DEF ReadsAreExact
<1> QED BY <1>4, <1>7

(* Between calls an inference session shows exactly what it has accepted   *)
(* since the last reset, through device failures with a replay, failed     *)
(* calls and any mix of calls on stale rows (nya_llm_session_run,          *)
(* nya_llm_session_read_kv).                                               *)
THEOREM SessionIsExact == EngineSpec => []SessionReadsAreExact
<1> DEFINE Inv == driven = "session" => SessionInv
<1>1. EngineInit => Inv
  BY SessionInit DEF EngineInit
<1>2. Inv /\ [EngineNext]_every => Inv'
  <2> SUFFICES ASSUME Inv, [EngineNext]_every, (driven = "session")' PROVE SessionInv'
    OBVIOUS
  <2>1. driven = "session" /\ [Next]_vars
    BY DEF EngineNext, every, session, vars
  <2> QED BY <2>1, SessionNext
<1>3. Inv => SessionReadsAreExact
  BY SessionInvReads DEF SessionReadsAreExact
<1> QED BY <1>1, <1>2, <1>3, PTL DEF EngineSpec
-----------------------------------------------------------------------------
Cache == INSTANCE VendorCache

LEMMA LessIsWellFounded == IsWellFoundedOn({ss \in Nat \X Nat : ss[1] < ss[2]}, Nat)
  BY NatLessThanWellFounded DEF OpToRel

\* A set of naturals that is not empty has a least element.
LEMMA LeastElement ==
  ASSUME NEW T, T \subseteq Nat, T # {}
  PROVE  \E x \in T : \A y \in T : x <= y
<1> DEFINE R == {ss \in Nat \X Nat : ss[1] < ss[2]}
<1>1. \E x \in T : \A y \in T : ~(<<y, x>> \in R)
  <2>1. IsWellFoundedOn(R, Nat)
    BY LessIsWellFounded
  <2> HIDE DEF R
  <2> QED BY <2>1, WFMin
<1>2. PICK x \in T : \A y \in T : ~(<<y, x>> \in R)
  BY <1>1
<1>3. ASSUME NEW y \in T PROVE x <= y
  <2>1. x \in Nat /\ y \in Nat /\ ~(<<y, x>> \in R)
    BY <1>2
  <2>2. ~(y < x)
    BY <2>1
  <2> QED BY <2>1, <2>2
<1> QED BY <1>3

-----------------------------------------------------------------------------
(* The entries of a weight cache                                              *)

\* Entries that count their total.
Sized(entries) == Len(entries) \in Nat /\ \A i \in 1 .. Len(entries) : entries[i].bytes \in Nat

\* f[i] are the total of the first i entries.
Sums(entries, f) == /\ f \in [0 .. Len(entries) -> Nat] /\ f[0] = 0
                 /\ \A i \in 1 .. Len(entries) : f[i] = f[i - 1] + entries[i].bytes

LEMMA SumsExist ==
  ASSUME NEW entries, Sized(entries)
  PROVE  \E f : Sums(entries, f)
<1> DEFINE Good(n) == \E f \in [0 .. n -> Nat] :
                        f[0] = 0 /\ \A i \in 1 .. n : f[i] = f[i - 1] + entries[i].bytes
           Bad == {n \in 0 .. Len(entries) : ~Good(n)}
<1>1. Bad = {}
  <2> SUFFICES ASSUME Bad # {} PROVE FALSE
    OBVIOUS
  <2>1. Bad \subseteq Nat
    BY DEF Sized
  <2>2. PICK n \in Bad : \A m \in Bad : n <= m
    <3> HIDE DEF Bad
    <3> QED BY <2>1, LeastElement
  <2>3. n \in 0 .. Len(entries) /\ ~Good(n) /\ Len(entries) \in Nat
    BY DEF Sized
  <2>4. CASE n = 0
    <3>1. [i \in 0 .. n |-> 0] \in [0 .. n -> Nat] /\ [i \in 0 .. n |-> 0][0] = 0 /\ 1 .. n = {}
      BY <2>4
    <3> QED BY <2>3, <3>1
  <2>5. CASE n # 0
    <3>1. n - 1 \in 0 .. Len(entries) /\ n \in 1 .. Len(entries) /\ ~(n <= n - 1) /\ n - 1 \in Nat
      BY <2>3, <2>5
    <3>2. Good(n - 1)
      BY <2>2, <3>1
    <3>3. PICK f \in [0 .. n - 1 -> Nat] :
            f[0] = 0 /\ \A i \in 1 .. n - 1 : f[i] = f[i - 1] + entries[i].bytes
      BY <3>2
    <3>4. entries[n].bytes \in Nat /\ f[n - 1] \in Nat
      BY <3>1 DEF Sized
    <3> DEFINE g == [i \in 0 .. n |-> IF i = n THEN f[n - 1] + entries[n].bytes ELSE f[i]]
    <3>5. g \in [0 .. n -> Nat]
      <4>1. ASSUME NEW i \in 0 .. n PROVE g[i] \in Nat
        <5>1. i # n => i \in 0 .. n - 1
          BY <3>1
        <5> QED BY <3>4, <5>1
      <4> QED BY <4>1
    <3>6. g[0] = 0
      BY <2>5, <3>1, <3>3
    <3>7. ASSUME NEW i \in 1 .. n PROVE g[i] = g[i - 1] + entries[i].bytes
      <4>1. CASE i = n
        <5>1. g[i] = f[n - 1] + entries[n].bytes /\ g[i - 1] = f[n - 1]
          BY <3>1, <4>1
        <5> QED BY <4>1, <5>1
      <4>2. CASE i # n
        <5>1. i \in 1 .. n - 1 /\ i - 1 \in 0 .. n /\ i - 1 # n /\ i \in 0 .. n
          BY <3>1, <4>2
        <5>2. g[i] = f[i] /\ g[i - 1] = f[i - 1]
          BY <4>2, <5>1
        <5> QED BY <3>3, <5>1, <5>2
      <4> QED BY <4>1, <4>2
    <3> HIDE DEF g
    <3>8. Good(n)
      BY <3>5, <3>6, <3>7
    <3> QED BY <2>3, <3>8
  <2> QED BY <2>4, <2>5
<1>2. Good(Len(entries))
  <2>1. Len(entries) \in 0 .. Len(entries)
    BY DEF Sized
  <2> HIDE DEF Good
  <2> QED BY <1>1, <2>1
<1> QED BY <1>2 DEF Sums

\* f and g start alike, and agree at a number when they agree at the one before
\* it; f and g agree. Both are kept folded where the lemma below is cited.
AgreeByStep(n, f, g) ==
  f[0] = g[0] /\ \A i \in 1 .. n : f[i - 1] = g[i - 1] => f[i] = g[i]
Agree(n, f, g) == \A i \in 0 .. n : f[i] = g[i]

\* Two solutions of a recursion along an interval agree.
LEMMA SameByStep ==
  ASSUME NEW n, n \in Nat, NEW f, NEW g, AgreeByStep(n, f, g)
  PROVE  Agree(n, f, g)
<1> USE DEF AgreeByStep, Agree
<1> DEFINE Wrong == {i \in 0 .. n : f[i] # g[i]}
<1>1. Wrong \subseteq Nat
  OBVIOUS
<1>2. ASSUME Wrong # {} PROVE FALSE
  <2>1. PICK i \in Wrong : \A j \in Wrong : i <= j
    <3> HIDE DEF Wrong
    <3> QED BY <1>1, <1>2, LeastElement
  <2>2. i \in 0 .. n /\ i # 0 /\ f[i] # g[i]
    OBVIOUS
  <2>3. i \in 1 .. n /\ i - 1 \in 0 .. n /\ ~(i <= i - 1)
    BY <2>2
  <2>4. f[i - 1] = g[i - 1]
    BY <2>1, <2>3
  <2> QED BY <2>2, <2>3, <2>4
<1> QED BY <1>2

LEMMA SumsTotal ==
  ASSUME NEW entries, Sized(entries), NEW f, Sums(entries, f)
  PROVE  Cache!Total(entries) = f[Len(entries)]
<1> DEFINE Body(h) == [i \in 0 .. Len(entries) |-> IF i = 0 THEN 0 ELSE h[i - 1] + entries[i].bytes]
           sum == CHOOSE h : h = Body(h)
<1>1. f = Body(f)
  <2>1. Len(entries) \in Nat
    BY DEF Sized
  <2>2. ASSUME NEW i \in 0 .. Len(entries) PROVE f[i] = Body(f)[i]
    <3>1. i = 0 \/ i \in 1 .. Len(entries)
      BY <2>1
    <3> QED BY <3>1 DEF Sums
  <2>3. f \in [0 .. Len(entries) -> Nat]
    BY DEF Sums
  <2> QED BY <2>2, <2>3
<1>2. sum = Body(sum)
  <2> HIDE DEF Body
  <2> QED BY <1>1
<1>3. Len(entries) \in Nat
  BY DEF Sized
<1>4. \A i \in 0 .. Len(entries) : sum[i] = f[i]
  <2>1. sum[0] = 0 /\ f[0] = 0
    <3> HIDE DEF sum
    <3> QED BY <1>2, <1>3 DEF Sums
  <2>2. ASSUME NEW i \in 1 .. Len(entries) PROVE sum[i] = sum[i - 1] + entries[i].bytes
    <3>1. i \in 0 .. Len(entries) /\ i # 0
      BY <1>3
    <3> HIDE DEF sum
    <3> QED BY <1>2, <3>1
  <2>3. ASSUME NEW i \in 1 .. Len(entries), sum[i - 1] = f[i - 1] PROVE sum[i] = f[i]
    <3> HIDE DEF sum
    <3> QED BY <2>2, <2>3 DEF Sums
  <2>4. sum[0] = f[0] /\ \A i \in 1 .. Len(entries) : sum[i - 1] = f[i - 1] => sum[i] = f[i]
    <3> HIDE DEF sum
    <3> QED BY <2>1, <2>3
  <2> DEFINE n == Len(entries)
  <2>5. n \in Nat /\ \A i \in 1 .. n : sum[i - 1] = f[i - 1] => sum[i] = f[i]
    BY <1>3, <2>4
  <2> HIDE DEF sum, n
  <2>6. \A i \in 0 .. n : sum[i] = f[i]
    <3>1. AgreeByStep(n, sum, f)
      BY <2>4, <2>5 DEF AgreeByStep
    <3>2. Agree(n, sum, f)
      BY <2>5, <3>1, SameByStep
    <3> QED BY <3>2 DEF Agree
  <2> QED BY <2>6 DEF n
<1>5. Cache!Total(entries) = sum[Len(entries)]
  BY DEF Cache!Total
<1>6. Len(entries) \in 0 .. Len(entries)
  BY <1>3
<1> HIDE DEF sum
<1> QED BY <1>4, <1>5, <1>6

\* The entries of a cache that counts `total`, no key twice.
Counted(S, entries, total) ==
  /\ entries \in Seq(S) /\ \A e \in S : e.bytes \in Nat
  /\ total = Cache!Total(entries)
  /\ \A i, j \in 1 .. Len(entries) : entries[i].key = entries[j].key => i = j

LEMMA CountedSized ==
  ASSUME NEW S, NEW entries, NEW total, Counted(S, entries, total)
  PROVE  Sized(entries) /\ total \in Nat
<1>1. Sized(entries)
  <2>1. Len(entries) \in Nat /\ \A i \in 1 .. Len(entries) : entries[i] \in S
    BY LenProperties, ElementOfSeq DEF Counted
  <2> QED BY <2>1 DEF Counted, Sized
<1>2. PICK f : Sums(entries, f)
  BY <1>1, SumsExist
<1>3. total = f[Len(entries)]
  BY <1>1, <1>2, SumsTotal DEF Counted
<1>4. Len(entries) \in 0 .. Len(entries)
  BY <1>1 DEF Sized
<1> QED BY <1>1, <1>2, <1>3, <1>4 DEF Sums

LEMMA CountedEmpty ==
  ASSUME NEW S, \A e \in S : e.bytes \in Nat
  PROVE  Counted(S, <<>>, 0) /\ Cache!Keys(<<>>) = {}
<1>1. Len(<<>>) = 0 /\ <<>> \in Seq(S)
  BY EmptySeq
<1>2. Sized(<<>>) /\ Sums(<<>>, [i \in 0 .. 0 |-> 0])
  BY <1>1 DEF Sized, Sums
<1>3. Cache!Total(<<>>) = [i \in 0 .. 0 |-> 0][0]
  BY <1>1, <1>2, SumsTotal
<1> QED BY <1>1, <1>3 DEF Counted, Cache!Keys

LEMMA CountedKeys ==
  ASSUME NEW S, NEW entries, NEW total, Counted(S, entries, total)
  PROVE  Cardinality(Cache!Keys(entries)) = Len(entries)
<1> DEFINE f == [i \in 1 .. Len(entries) |-> entries[i].key]
<1>1. Len(entries) \in Nat
  BY CountedSized DEF Sized
<1>2. f \in Bijection(1 .. Len(entries), Cache!Keys(entries))
  <2>1. f \in [1 .. Len(entries) -> Cache!Keys(entries)]
    BY DEF Cache!Keys
  <2>2. \A i, j \in 1 .. Len(entries) : f[i] = f[j] => i = j
    BY DEF Counted
  <2>3. \A k \in Cache!Keys(entries) : \E i \in 1 .. Len(entries) : f[i] = k
    BY DEF Cache!Keys
  <2> HIDE DEF f
  <2>4. f \in Injection(1 .. Len(entries), Cache!Keys(entries))
    BY <2>1, <2>2 DEF Injection, IsInjective
  <2>5. f \in Surjection(1 .. Len(entries), Cache!Keys(entries))
    BY <2>1, <2>3 DEF Surjection
  <2> QED BY <2>4, <2>5 DEF Bijection
<1>3. ExistsBijection(1 .. Len(entries), Cache!Keys(entries))
  BY <1>2 DEF ExistsBijection
<1>4. IsFiniteSet(1 .. Len(entries)) /\ Cardinality(1 .. Len(entries)) = Len(entries)
  <2> DEFINE n == Len(entries)
  <2>1. n \in Nat
    BY <1>1
  <2> HIDE DEF n
  <2>2. IsFiniteSet(1 .. n) /\ Cardinality(1 .. n) = IF 1 > n THEN 0 ELSE n - 1 + 1
    BY <2>1, FS_Interval, SMTT(30)
  <2>3. IsFiniteSet(1 .. n) /\ Cardinality(1 .. n) = n
    BY <2>1, <2>2
  <2> QED BY <2>3 DEF n
<1> QED BY <1>3, <1>4, FS_Bijection

\* A matrix that was not in the entries is put in front.
LEMMA CountedFront ==
  ASSUME NEW S, NEW entries, NEW total, Counted(S, entries, total),
         NEW e \in S, e.key \notin Cache!Keys(entries)
  PROVE  /\ Counted(S, <<e>> \o entries, total + e.bytes)
         /\ Cache!Keys(<<e>> \o entries) = Cache!Keys(entries) \cup {e.key}
<1> DEFINE new == <<e>> \o entries
<1>1. Len(entries) \in Nat /\ Sized(entries) /\ entries \in Seq(S) /\ total \in Nat
  BY CountedSized DEF Counted, Sized
<1>2. /\ new \in Seq(S) /\ Len(new) = Len(entries) + 1 /\ new[1] = e
      /\ \A i \in 1 .. Len(entries) : new[i + 1] = entries[i]
  <2>1. <<e>> \in Seq(S) /\ Len(<<e>>) = 1 /\ <<e>>[1] = e
    OBVIOUS
  <2>2. /\ new \in Seq(S) /\ Len(new) = 1 + Len(entries)
        /\ \A i \in 1 .. 1 + Len(entries) : new[i] = IF i <= 1 THEN <<e>>[i] ELSE entries[i - 1]
    BY <1>1, <2>1, ConcatProperties
  <2> HIDE DEF new
  <2> QED BY <1>1, <2>1, <2>2
<1> HIDE DEF new
<1>3. \A i \in 1 .. Len(new) : i = 1 \/ (i - 1 \in 1 .. Len(entries) /\ new[i] = entries[i - 1])
  <2> SUFFICES ASSUME NEW i \in 1 .. Len(new), i # 1
               PROVE  i - 1 \in 1 .. Len(entries) /\ new[i] = entries[i - 1]
    OBVIOUS
  <2>1. i - 1 \in 1 .. Len(entries) /\ (i - 1) + 1 = i
    BY <1>1, <1>2
  <2> QED BY <1>2, <2>1
<1>4. PICK f : Sums(entries, f)
  BY <1>1, SumsExist
<1>5. total = f[Len(entries)] /\ e.bytes \in Nat
  BY <1>1, <1>4, SumsTotal DEF Counted
<1> DEFINE g == [i \in 0 .. Len(new) |-> IF i = 0 THEN 0 ELSE e.bytes + f[i - 1]]
<1>6. Sums(new, g)
  <2>1. ASSUME NEW i \in 1 .. Len(new)
        PROVE  i \in 0 .. Len(new) /\ i - 1 \in 0 .. Len(entries) /\ i - 1 \in 0 .. Len(new) /\ i # 0
    BY <1>1, <1>2
  <2>2. ASSUME NEW i \in 0 .. Len(new) PROVE g[i] \in Nat
    <3>1. CASE i = 0
      BY <3>1
    <3>2. CASE i # 0
      <4>1. i \in 1 .. Len(new)
        BY <1>1, <1>2, <3>2
      <4>2. f[i - 1] \in Nat
        BY <1>4, <2>1, <4>1 DEF Sums
      <4> QED BY <1>5, <3>2, <4>2
    <3> QED BY <3>1, <3>2
  <2>3. ASSUME NEW i \in 1 .. Len(new) PROVE g[i] = g[i - 1] + new[i].bytes
    <3>1. CASE i = 1
      <4>1. g[1] = e.bytes + f[0] /\ g[0] = 0 /\ f[0] = 0
        BY <1>4, <2>1, <3>1 DEF Sums
      <4> QED BY <1>2, <1>5, <3>1, <4>1
    <3>2. CASE i # 1
      <4>1. i - 1 \in 1 .. Len(entries) /\ new[i] = entries[i - 1]
        BY <1>3, <3>2
      <4>2. f[i - 1] = f[i - 2] + entries[i - 1].bytes /\ f[i - 2] \in Nat /\ entries[i - 1].bytes \in Nat
        <5>1. (i - 1) - 1 = i - 2 /\ i - 2 \in 0 .. Len(entries)
          BY <1>1, <4>1
        <5> QED BY <1>1, <1>4, <4>1, <5>1 DEF Sums, Sized
      <4>3. g[i] = e.bytes + f[i - 1] /\ g[i - 1] = e.bytes + f[i - 2]
        <5>1. i \in 0 .. Len(new) /\ i - 1 \in 0 .. Len(new) /\ i # 0 /\ i - 1 # 0 /\ (i - 1) - 1 = i - 2
          BY <2>1, <4>1
        <5> QED BY <5>1
      <4> HIDE DEF g
      <4> QED BY <1>5, <4>1, <4>2, <4>3
    <3> QED BY <3>1, <3>2
  <2>4. g[0] = 0
    BY <1>1, <1>2
  <2>5. g \in [0 .. Len(new) -> Nat]
    BY <2>2
  <2> HIDE DEF g
  <2> QED BY <2>3, <2>4, <2>5 DEF Sums
<1>7. Sized(new)
  <2>1. ASSUME NEW i \in 1 .. Len(new) PROVE new[i].bytes \in Nat
    BY <1>1, <1>2, <1>3, <1>5 DEF Sized
  <2> QED BY <1>1, <1>2, <2>1 DEF Sized
<1>8. Cache!Total(new) = g[Len(new)] /\ g[Len(new)] = e.bytes + f[Len(entries)]
  <2>1. Len(new) \in 0 .. Len(new) /\ Len(new) # 0 /\ Len(new) - 1 = Len(entries)
    BY <1>1, <1>2
  <2>2. g[Len(new)] = e.bytes + f[Len(entries)]
    BY <2>1
  <2> HIDE DEF g
  <2> QED BY <1>6, <1>7, <2>2, SumsTotal
<1>9. total + e.bytes = Cache!Total(new)
  <2>1. f[Len(entries)] \in Nat
    BY <1>1, <1>5
  <2> HIDE DEF g
  <2> QED BY <1>5, <1>8, <2>1
<1>10. ASSUME NEW i \in 1 .. Len(new), NEW j \in 1 .. Len(new), new[i].key = new[j].key
       PROVE  i = j
  <2>1. \A k \in 1 .. Len(entries) : entries[k].key # e.key
    BY DEF Cache!Keys
  <2>2. \A k, l \in 1 .. Len(entries) : entries[k].key = entries[l].key => k = l
    BY DEF Counted
  <2>3. CASE i = 1
    BY <1>2, <1>3, <1>10, <2>1, <2>3
  <2>4. CASE j = 1
    BY <1>2, <1>3, <1>10, <2>1, <2>4
  <2>5. CASE i # 1 /\ j # 1
    <3>1. /\ i - 1 \in 1 .. Len(entries) /\ new[i] = entries[i - 1]
          /\ j - 1 \in 1 .. Len(entries) /\ new[j] = entries[j - 1]
      BY <1>3, <2>5
    <3>2. i - 1 = j - 1
      BY <1>10, <2>2, <3>1
    <3> QED BY <3>2
  <2> QED BY <2>3, <2>4, <2>5
<1>11. Cache!Keys(new) = Cache!Keys(entries) \cup {e.key}
  <2>1. ASSUME NEW k \in Cache!Keys(new) PROVE k \in Cache!Keys(entries) \cup {e.key}
    <3>1. PICK i \in 1 .. Len(new) : k = new[i].key
      BY DEF Cache!Keys
    <3>2. CASE i = 1
      BY <1>2, <3>1, <3>2
    <3>3. CASE i # 1
      <4>1. i - 1 \in 1 .. Len(entries) /\ k = entries[i - 1].key
        BY <1>3, <3>1, <3>3
      <4> QED BY <4>1 DEF Cache!Keys
    <3> QED BY <3>2, <3>3
  <2>2. ASSUME NEW k \in Cache!Keys(entries) PROVE k \in Cache!Keys(new)
    <3>1. PICK i \in 1 .. Len(entries) : k = entries[i].key
      BY DEF Cache!Keys
    <3>2. i + 1 \in 1 .. Len(new) /\ new[i + 1] = entries[i]
      BY <1>1, <1>2
    <3> QED BY <3>1, <3>2 DEF Cache!Keys
  <2>3. e.key \in Cache!Keys(new)
    <3>1. 1 \in 1 .. Len(new)
      BY <1>1, <1>2
    <3> QED BY <1>2, <3>1 DEF Cache!Keys
  <2> QED BY <2>1, <2>2, <2>3
<1> HIDE DEF g
<1>12. Counted(S, new, total + e.bytes)
  BY <1>2, <1>9, <1>10 DEF Counted
<1> QED BY <1>11, <1>12 DEF new

\* What nya_vendor_find moves to the front was there before.
LEMMA FoundPlaces ==
  ASSUME NEW S, NEW entries \in Seq(S), NEW key, Cache!Cached(entries, key)
  PROVE  \E i \in 1 .. Len(entries) :
           /\ Cache!Found(entries, key) \in Seq(S)
           /\ Len(Cache!Found(entries, key)) = Len(entries)
           /\ Cache!Found(entries, key)[1] = entries[i]
           /\ \A j \in 1 .. Len(entries) :
                Cache!Found(entries, key)[j] = IF j = 1 THEN entries[i]
                                           ELSE IF j <= i THEN entries[j - 1] ELSE entries[j]
<1> DEFINE i == CHOOSE j \in Cache!Position(entries, key) : TRUE
           n == Len(entries)
           new == <<entries[i]>> \o RemoveAt(entries, i)
<1>1. i \in 1 .. n /\ n \in Nat
  <2>1. i \in Cache!Position(entries, key)
    BY DEF Cache!Cached
  <2>2. i \in 1 .. n
    <3> HIDE DEF i
    <3> QED BY <2>1 DEF Cache!Position
  <2> HIDE DEF i
  <2> QED BY <2>2, LenProperties
<1>2. Cache!Found(entries, key) = new
  BY DEF Cache!Found, Cache!RemoveAt, RemoveAt
<1> HIDE DEF i
<1>3. \A j \in 1 .. n : entries[j] \in S
  BY ElementOfSeq
<1> DEFINE a == SubSeq(entries, 1, i - 1)
           b == SubSeq(entries, i + 1, n)
<1>4. a \in Seq(S) /\ Len(a) = i - 1 /\ \A j \in 1 .. i - 1 : a[j] = entries[j]
  <2>1. i - 1 \in 0 .. n
    BY <1>1
  <2> QED BY <2>1, FirstOf
<1>5. b \in Seq(S) /\ Len(b) = n - i /\ \A j \in 1 .. n - i : b[j] = entries[i + j]
  <2>1. i + 1 \in 1 .. n + 1 /\ n \in i .. n
    BY <1>1
  <2>2. \A j \in i + 1 .. n : entries[j] \in S
    BY <1>1, <1>3
  <2>3. n - (i + 1) + 1 = n - i /\ \A j \in 1 .. n - i : i + 1 + j - 1 = i + j
    BY <1>1
  <2>4. i + 1 \in Int /\ n \in Int /\ (IF i + 1 <= n THEN n - (i + 1) + 1 ELSE 0) = n - i
    BY <1>1
  <2>5. /\ b \in Seq(S) /\ Len(b) = IF i + 1 <= n THEN n - (i + 1) + 1 ELSE 0
        /\ \A j \in 1 .. n - (i + 1) + 1 : b[j] = entries[(i + 1) + j - 1]
    <3> HIDE DEF n
    <3> QED BY <2>2, <2>4, SubSeqProperties DEF b
  <2> HIDE DEF b, n
  <2> QED BY <1>1, <2>3, <2>4, <2>5
<1> HIDE DEF a, b
<1>6. RemoveAt(entries, i) = a \o b
  BY DEF RemoveAt, a, b, n
<1>7. /\ a \o b \in Seq(S) /\ Len(a \o b) = n - 1
      /\ \A j \in 1 .. n - 1 : (a \o b)[j] = IF j <= i - 1 THEN entries[j] ELSE entries[j + 1]
  <2>1. a \o b \in Seq(S) /\ Len(a \o b) = n - 1
    <3>1. a \o b \in Seq(S) /\ Len(a \o b) = Len(a) + Len(b)
      BY <1>4, <1>5, ConcatProperties
    <3> HIDE DEF n
    <3> QED BY <1>1, <1>4, <1>5, <3>1
  <2>2. ASSUME NEW j \in 1 .. n - 1
        PROVE  (a \o b)[j] = IF j <= i - 1 THEN entries[j] ELSE entries[j + 1]
    <3>1. (a \o b)[j] = IF j <= Len(a) THEN a[j] ELSE b[j - Len(a)]
      <4>1. j \in 1 .. Len(a) + Len(b)
        <5> HIDE DEF n
        <5> QED BY <1>1, <1>4, <1>5
      <4> QED BY <1>4, <1>5, <4>1, ConcatProperties
    <3>2. CASE j <= i - 1
      <4>1. j \in 1 .. i - 1
        BY <3>2
      <4> QED BY <1>4, <3>1, <3>2, <4>1
    <3>3. CASE ~(j <= i - 1)
      <4>1. j - (i - 1) \in 1 .. n - i /\ i + (j - (i - 1)) = j + 1
        BY <1>1, <3>3
      <4>2. (a \o b)[j] = b[j - (i - 1)]
        BY <1>4, <3>1, <3>3
      <4> QED BY <1>5, <3>3, <4>1, <4>2
    <3> QED BY <3>2, <3>3
  <2> QED BY <2>1, <2>2
<1> DEFINE c == a \o b
<1>8. c \in Seq(S) /\ Len(c) = n - 1
      /\ \A j \in 1 .. n - 1 : c[j] = IF j <= i - 1 THEN entries[j] ELSE entries[j + 1]
  BY <1>7
<1> HIDE DEF c
<1>9. new = <<entries[i]>> \o c /\ <<entries[i]>> \in Seq(S) /\ Len(<<entries[i]>>) = 1
      /\ <<entries[i]>>[1] = entries[i]
  BY <1>1, <1>3, <1>6 DEF c
<1>10. new \in Seq(S) /\ Len(new) = n
  <2>1. <<entries[i]>> \o c \in Seq(S) /\ Len(<<entries[i]>> \o c) = Len(<<entries[i]>>) + Len(c)
    BY <1>8, <1>9, ConcatProperties
  <2> HIDE DEF n, new
  <2>2. 1 + (n - 1) = n
    BY <1>1
  <2> QED BY <1>8, <1>9, <2>1, <2>2
<1>11. ASSUME NEW j \in 1 .. n
       PROVE  new[j] = IF j = 1 THEN entries[i] ELSE IF j <= i THEN entries[j - 1] ELSE entries[j]
  <2>1. new[j] = IF j <= 1 THEN <<entries[i]>>[j] ELSE c[j - 1]
    <3>1. j \in 1 .. Len(<<entries[i]>>) + Len(c)
      BY <1>1, <1>8, <1>9
    <3>2. (<<entries[i]>> \o c)[j] = IF j <= Len(<<entries[i]>>) THEN <<entries[i]>>[j]
                                  ELSE c[j - Len(<<entries[i]>>)]
      BY <1>8, <1>9, <3>1, ConcatProperties
    <3> QED BY <1>9, <3>2
  <2>2. CASE j = 1
    BY <1>9, <2>1, <2>2
  <2>3. CASE j # 1
    <3>1. j - 1 \in 1 .. n - 1 /\ (j - 1 <= i - 1 <=> j <= i) /\ (j - 1) + 1 = j /\ ~(j <= 1)
      BY <1>1, <2>3
    <3>2. new[j] = c[j - 1]
      BY <2>1, <3>1
    <3>3. c[j - 1] = IF j - 1 <= i - 1 THEN entries[j - 1] ELSE entries[(j - 1) + 1]
      BY <1>8, <3>1
    <3> QED BY <2>3, <3>1, <3>2, <3>3
  <2> QED BY <2>2, <2>3
<1> HIDE DEF new
<1>12. 1 \in 1 .. n
  BY <1>1
<1>13. new[1] = entries[i]
  BY <1>11, <1>12
<1> QED BY <1>1, <1>2, <1>10, <1>11, <1>13 DEF n

\* Moving an entry to the front changes neither the keys nor the total.
LEMMA CountedFound ==
  ASSUME NEW S, NEW entries, NEW total, Counted(S, entries, total),
         NEW key, Cache!Cached(entries, key)
  PROVE  /\ Counted(S, Cache!Found(entries, key), total)
         /\ Cache!Keys(Cache!Found(entries, key)) = Cache!Keys(entries)
<1> DEFINE n == Len(entries)
           new == Cache!Found(entries, key)
<1>1. n \in Nat /\ Sized(entries) /\ entries \in Seq(S)
  BY CountedSized DEF Counted, Sized
<1>2. PICK i \in 1 .. n :
        /\ new \in Seq(S) /\ Len(new) = n /\ new[1] = entries[i]
        /\ \A j \in 1 .. n : new[j] = IF j = 1 THEN entries[i]
                                     ELSE IF j <= i THEN entries[j - 1] ELSE entries[j]
  BY <1>1, FoundPlaces
<1> DEFINE from(j) == IF j = 1 THEN i ELSE IF j <= i THEN j - 1 ELSE j
           to(k) == IF k = i THEN 1 ELSE IF k < i THEN k + 1 ELSE k
<1>3. \A j \in 1 .. n : from(j) \in 1 .. n /\ new[j] = entries[from(j)]
  BY <1>1, <1>2
<1>4. \A j, k \in 1 .. n : from(j) = from(k) => j = k
  BY <1>1
<1>5. \A k \in 1 .. n : to(k) \in 1 .. n /\ from(to(k)) = k
  BY <1>1
<1>6. ASSUME NEW j \in 1 .. n, NEW k \in 1 .. n, new[j].key = new[k].key
      PROVE  j = k
  <2>1. from(j) \in 1 .. n /\ from(k) \in 1 .. n /\ entries[from(j)].key = entries[from(k)].key
    <3> HIDE DEF from, new, n
    <3> QED BY <1>3, <1>6
  <2>2. from(j) = from(k)
    <3> HIDE DEF from
    <3> QED BY <2>1 DEF Counted
  <2> HIDE DEF from
  <2> QED BY <1>4, <2>2
<1>7. Cache!Keys(new) = Cache!Keys(entries)
  <2> HIDE DEF from, to, new
  <2>1. ASSUME NEW x \in Cache!Keys(new) PROVE x \in Cache!Keys(entries)
    <3>1. PICK j \in 1 .. n : x = new[j].key
      BY <1>2 DEF Cache!Keys
    <3>2. from(j) \in 1 .. n /\ x = entries[from(j)].key
      BY <1>3, <3>1
    <3> QED BY <3>2 DEF Cache!Keys, n
  <2>2. ASSUME NEW x \in Cache!Keys(entries) PROVE x \in Cache!Keys(new)
    <3>1. PICK k \in 1 .. n : x = entries[k].key
      BY DEF Cache!Keys
    <3>2. to(k) \in 1 .. n /\ x = new[to(k)].key
      BY <1>3, <1>5, <3>1
    <3> QED BY <1>2, <3>2 DEF Cache!Keys
  <2> QED BY <2>1, <2>2
<1>8. PICK f : Sums(entries, f)
  BY <1>1, SumsExist
<1>9. total = f[n] /\ f \in [0 .. n -> Nat] /\ f[0] = 0
      /\ \A j \in 1 .. n : f[j] = f[j - 1] + entries[j].bytes
  BY <1>1, <1>8, SumsTotal DEF Counted, Sums
<1>10. \A j \in 1 .. n : entries[j].bytes \in Nat
  BY <1>1 DEF Sized
<1> DEFINE g == [j \in 0 .. n |-> IF j = 0 THEN 0
                                ELSE IF j <= i THEN entries[i].bytes + f[j - 1] ELSE f[j]]
<1>11. \A j \in 0 .. n : g[j] \in Nat
  <2> SUFFICES ASSUME NEW j \in 0 .. n PROVE g[j] \in Nat
    OBVIOUS
  <2>1. CASE j = 0
    BY <2>1
  <2>2. CASE j # 0 /\ j <= i
    <3>1. j - 1 \in 0 .. n
      BY <1>1, <2>2
    <3>2. f[j - 1] \in Nat /\ entries[i].bytes \in Nat
      BY <1>9, <1>10, <3>1
    <3>3. g[j] = entries[i].bytes + f[j - 1]
      BY <2>2
    <3> QED BY <3>2, <3>3
  <2>3. CASE j # 0 /\ ~(j <= i)
    BY <1>9, <2>3
  <2> QED BY <2>1, <2>2, <2>3
<1>12. ASSUME NEW j \in 1 .. n PROVE g[j] = g[j - 1] + new[j].bytes
  <2>1. j \in 0 .. n /\ j - 1 \in 0 .. n /\ j # 0 /\ (j = 1 \/ j - 1 \in 1 .. n)
    BY <1>1
  <2>2. f[j] = f[j - 1] + entries[j].bytes /\ f[j - 1] \in Nat /\ entries[j].bytes \in Nat
        /\ entries[i].bytes \in Nat /\ f[j] \in Nat
    BY <1>9, <1>10, <2>1
  <2> HIDE DEF new
  <2>3. CASE j = 1
    <3>1. g[1] = entries[i].bytes + f[0] /\ g[0] = 0
      BY <2>1, <2>3
    <3>2. new[j] = entries[i] /\ f[0] = 0
      BY <1>2, <1>9, <2>3
    <3> HIDE DEF g
    <3> QED BY <2>2, <2>3, <3>1, <3>2
  <2>4. CASE j # 1 /\ j <= i
    <3>1. f[j - 1] = f[(j - 1) - 1] + entries[j - 1].bytes /\ f[(j - 1) - 1] \in Nat
          /\ entries[j - 1].bytes \in Nat
      <4>1. j - 1 \in 1 .. n /\ (j - 1) - 1 \in 0 .. n
        BY <1>1, <2>4
      <4> QED BY <1>9, <1>10, <4>1
    <3>2. g[j] = entries[i].bytes + f[j - 1] /\ g[j - 1] = entries[i].bytes + f[(j - 1) - 1]
      <4>1. j - 1 # 0 /\ j - 1 <= i
        BY <1>1, <2>4
      <4> QED BY <2>1, <2>4, <4>1
    <3>3. new[j] = entries[j - 1]
      BY <1>2, <2>4
    <3> HIDE DEF g
    <3>4. g[j] = entries[i].bytes + (f[(j - 1) - 1] + entries[j - 1].bytes)
      BY <3>1, <3>2
    <3>5. g[j - 1] + new[j].bytes = (entries[i].bytes + f[(j - 1) - 1]) + entries[j - 1].bytes
      BY <3>2, <3>3
    <3>6. \A a, b, c \in Nat : a + (b + c) = (a + b) + c
      OBVIOUS
    <3>7. entries[i].bytes + (f[(j - 1) - 1] + entries[j - 1].bytes)
          = (entries[i].bytes + f[(j - 1) - 1]) + entries[j - 1].bytes
      BY <2>2, <3>1, <3>6
    <3> QED BY <3>4, <3>5, <3>7
  <2>5. CASE j = i + 1
    <3>1. g[j] = f[j] /\ g[j - 1] = entries[i].bytes + f[(j - 1) - 1] /\ (j - 1) = i
      <4>1. j - 1 # 0 /\ j - 1 <= i /\ ~(j <= i)
        BY <1>1, <2>5
      <4> QED BY <2>1, <2>5, <4>1
    <3>2. f[i] = f[i - 1] + entries[i].bytes /\ f[i - 1] \in Nat
      <4>1. i - 1 \in 0 .. n
        BY <1>1
      <4> QED BY <1>9, <4>1
    <3>3. new[j] = entries[j]
      <4>1. j # 1 /\ ~(j <= i)
        BY <1>1, <2>5
      <4> QED BY <1>2, <4>1
    <3> HIDE DEF g
    <3> QED BY <2>2, <3>1, <3>2, <3>3
  <2>6. CASE j > i + 1
    <3>1. g[j] = f[j] /\ g[j - 1] = f[j - 1]
      <4>1. j - 1 # 0 /\ ~(j - 1 <= i) /\ ~(j <= i)
        BY <1>1, <2>6
      <4> QED BY <2>1, <2>6, <4>1
    <3>2. new[j] = entries[j]
      <4>1. j # 1 /\ ~(j <= i)
        BY <1>1, <2>6
      <4> QED BY <1>2, <4>1
    <3> HIDE DEF g
    <3> QED BY <2>2, <3>1, <3>2
  <2> QED BY <1>1, <2>3, <2>4, <2>5, <2>6
<1>13. Sums(new, g)
  <2>1. g[0] = 0 /\ g \in [0 .. n -> Nat]
    BY <1>1, <1>11
  <2> HIDE DEF g, new, n
  <2> QED BY <1>2, <1>12, <2>1 DEF Sums
<1>14. Sized(new)
  <2>1. \A j \in 1 .. n : new[j].bytes \in Nat
    <3> HIDE DEF from, new, n
    <3> QED BY <1>3, <1>10
  <2> HIDE DEF new
  <2> QED BY <1>1, <1>2, <2>1 DEF Sized
<1>15. g[n] = f[n]
  <2>1. CASE n = i
    <3>1. n \in 0 .. n /\ n # 0 /\ n <= i /\ n \in 1 .. n
      BY <1>1, <2>1
    <3>2. g[n] = entries[i].bytes + f[n - 1] /\ f[n] = f[n - 1] + entries[n].bytes
      BY <1>9, <3>1
    <3>3. f[n - 1] \in Nat /\ entries[n].bytes \in Nat
      <4>1. n - 1 \in 0 .. n
        BY <1>1, <3>1
      <4> QED BY <1>9, <1>10, <3>1, <4>1
    <3> HIDE DEF g
    <3> QED BY <2>1, <3>2, <3>3
  <2>2. CASE n # i
    <3>1. n \in 0 .. n /\ n # 0 /\ ~(n <= i)
      BY <1>1, <2>2
    <3> QED BY <3>1
  <2> QED BY <2>1, <2>2
<1>16. total = Cache!Total(new)
  <2> HIDE DEF g, new, n
  <2> QED BY <1>2, <1>9, <1>13, <1>14, <1>15, SumsTotal
<1> HIDE DEF new, n
<1>17. Counted(S, new, total)
  BY <1>2, <1>6, <1>16 DEF Counted
<1> QED BY <1>7, <1>17 DEF new

\* nya_vendor_reserve keeps a part of the entries that fits.
LEMMA CountedKept ==
  ASSUME NEW S, NEW entries, NEW total, Counted(S, entries, total), NEW room \in Nat
  PROVE  LET kept == Cache!Kept(entries, total, room)
         IN  /\ Counted(S, kept.list, kept.bytes)
             /\ kept.bytes <= room
             /\ Cache!Keys(kept.list) \subseteq Cache!Keys(entries)
<1> DEFINE n == Len(entries)
           Body(h) == [i \in 0 .. n |-> IF i = 0 THEN total ELSE h[i - 1] - entries[n - i + 1].bytes]
           left == CHOOSE h : h = Body(h)
           gone == CHOOSE i \in 0 .. n : left[i] <= room /\ \A j \in 0 .. i - 1 : left[j] > room
           kept == Cache!Kept(entries, total, room)
<1>1. n \in Nat /\ Sized(entries) /\ entries \in Seq(S)
  BY CountedSized DEF Counted, Sized
<1>2. PICK f : Sums(entries, f)
  BY <1>1, SumsExist
<1>3. total = f[n] /\ f \in [0 .. n -> Nat] /\ f[0] = 0
      /\ \A j \in 1 .. n : f[j] = f[j - 1] + entries[j].bytes
  BY <1>1, <1>2, SumsTotal DEF Counted, Sums
<1>4. \A j \in 1 .. n : entries[j].bytes \in Nat
  BY <1>1 DEF Sized
<1> DEFINE g == [i \in 0 .. n |-> f[n - i]]
<1>5. g = Body(g)
  <2>1. ASSUME NEW i \in 0 .. n PROVE g[i] = Body(g)[i]
    <3>1. CASE i = 0
      BY <1>1, <1>3, <3>1
    <3>2. CASE i # 0
      <4>1. n - i + 1 \in 1 .. n /\ (n - i + 1) - 1 = n - i /\ i - 1 \in 0 .. n
            /\ n - (i - 1) = n - i + 1 /\ n - i \in 0 .. n
        BY <1>1, <3>2
      <4>2. f[n - i + 1] = f[n - i] + entries[n - i + 1].bytes
        BY <1>3, <4>1
      <4>3. f[n - i] \in Nat /\ entries[n - i + 1].bytes \in Nat
        BY <1>3, <1>4, <4>1
      <4>4. g[i] = f[n - i] /\ g[i - 1] = f[n - i + 1]
        BY <4>1
      <4>5. Body(g)[i] = g[i - 1] - entries[n - i + 1].bytes
        <5> HIDE DEF g
        <5> QED BY <3>2
      <4> HIDE DEF g, Body
      <4> QED BY <4>2, <4>3, <4>4, <4>5
    <3> QED BY <3>1, <3>2
  <2>2. g = [i \in 0 .. n |-> g[i]] /\ Body(g) = [i \in 0 .. n |-> Body(g)[i]]
    OBVIOUS
  <2> HIDE DEF g, Body
  <2> QED BY <2>1, <2>2
<1>6. left = Body(left)
  <2> HIDE DEF Body
  <2> QED BY <1>5
<1> HIDE DEF left
<1>7. \A i \in 0 .. n : left[i] = f[n - i]
  <2>1. left[0] = total /\ \A i \in 1 .. n : left[i] = left[i - 1] - entries[n - i + 1].bytes
    <3>1. \A i \in 0 .. n : left[i] = IF i = 0 THEN total ELSE left[i - 1] - entries[n - i + 1].bytes
      BY <1>6
    <3>2. \A i \in 1 .. n : i \in 0 .. n /\ i # 0
      BY <1>1
    <3>3. 0 \in 0 .. n
      BY <1>1
    <3> QED BY <3>1, <3>2, <3>3
  <2>2. g[0] = total /\ \A i \in 1 .. n : g[i] = g[i - 1] - entries[n - i + 1].bytes
    <3>1. \A i \in 0 .. n : Body(g)[i] = IF i = 0 THEN total ELSE g[i - 1] - entries[n - i + 1].bytes
      <4> HIDE DEF g
      <4> QED OBVIOUS
    <3>2. \A i \in 1 .. n : i \in 0 .. n /\ i # 0
      BY <1>1
    <3>3. 0 \in 0 .. n
      BY <1>1
    <3> HIDE DEF g, Body
    <3> QED BY <1>5, <3>1, <3>2, <3>3
  <2>3. left[0] = g[0] /\ \A i \in 1 .. n : left[i - 1] = g[i - 1] => left[i] = g[i]
    <3> HIDE DEF g
    <3> QED BY <2>1, <2>2
  <2>4. \A i \in 0 .. n : left[i] = g[i]
    <3> HIDE DEF g, n
    <3>1. AgreeByStep(n, left, g)
      BY <2>3 DEF AgreeByStep
    <3>2. n \in Nat
      BY <1>1
    <3>3. Agree(n, left, g)
      BY <3>1, <3>2, SameByStep
    <3> QED BY <3>3 DEF Agree
  <2> QED BY <2>4
<1>8. gone \in 0 .. n /\ left[gone] <= room
  <2> DEFINE Fit == {i \in 0 .. n : left[i] <= room}
  <2>1. Fit \subseteq Nat /\ n \in Fit
    <3>1. n \in 0 .. n /\ n - n = 0
      BY <1>1
    <3>2. left[n] = 0
      BY <1>3, <1>7, <3>1
    <3> QED BY <3>1, <3>2
  <2>2. PICK i \in Fit : \A j \in Fit : i <= j
    <3> HIDE DEF Fit
    <3> QED BY <2>1, LeastElement
  <2>3. ASSUME NEW j \in 0 .. i - 1 PROVE left[j] > room
    <3>1. j \in 0 .. n /\ ~(i <= j) /\ n - j \in 0 .. n
      BY <1>1
    <3>2. ~(left[j] <= room)
      BY <2>2, <3>1
    <3>3. left[j] \in Nat
      BY <1>3, <1>7, <3>1
    <3> QED BY <3>2, <3>3
  <2> QED BY <2>3
<1>9. kept = [list |-> SubSeq(entries, 1, n - gone), bytes |-> left[gone]]
  BY DEF Cache!Kept, left
<1> HIDE DEF gone
<1> DEFINE m == n - gone
<1>10. m \in 0 .. n
  BY <1>1, <1>8
<1>11. kept.list = SubSeq(entries, 1, m) /\ kept.bytes = f[m] /\ kept.bytes <= room
  BY <1>7, <1>8, <1>9
<1> HIDE DEF kept, m
<1>12. /\ kept.list \in Seq(S) /\ Len(kept.list) = m
       /\ \A i \in 1 .. m : kept.list[i] = entries[i]
  BY <1>1, <1>10, <1>11, FirstOf
<1>13. \A i \in 1 .. m : i \in 1 .. n
  BY <1>1, <1>10
<1>14. Sized(kept.list)
  BY <1>4, <1>10, <1>12, <1>13 DEF Sized
<1> DEFINE h == [i \in 0 .. m |-> f[i]]
<1>15. Sums(kept.list, h)
  <2>1. \A i \in 0 .. m : i \in 0 .. n
    BY <1>1, <1>10
  <2>2. h \in [0 .. m -> Nat]
    BY <1>3, <2>1
  <2>3. ASSUME NEW i \in 1 .. m PROVE h[i] = h[i - 1] + kept.list[i].bytes
    <3>1. i \in 0 .. m /\ i - 1 \in 0 .. m
      BY <1>10
    <3>2. h[i] = f[i] /\ h[i - 1] = f[i - 1]
      BY <3>1
    <3> HIDE DEF h
    <3> QED BY <1>3, <1>12, <1>13, <3>2
  <2>4. h[0] = 0
    BY <1>3, <1>10
  <2> HIDE DEF h
  <2> QED BY <1>12, <2>2, <2>3, <2>4 DEF Sums
<1>16. Cache!Total(kept.list) = h[m] /\ h[m] = f[m]
  <2>1. m \in 0 .. m
    BY <1>10
  <2>2. h[m] = f[m]
    BY <2>1
  <2> HIDE DEF h
  <2> QED BY <1>12, <1>14, <1>15, <2>2, SumsTotal
<1>17. Counted(S, kept.list, kept.bytes)
  <2>1. \A i, j \in 1 .. n : entries[i].key = entries[j].key => i = j
    BY DEF Counted
  <2>2. \A i, j \in 1 .. m : kept.list[i].key = kept.list[j].key => i = j
    BY <1>12, <1>13, <2>1
  <2>3. \A e \in S : e.bytes \in Nat
    BY DEF Counted
  <2> QED BY <1>11, <1>12, <1>16, <2>2, <2>3 DEF Counted
<1>18. Cache!Keys(kept.list) \subseteq Cache!Keys(entries)
  BY <1>12, <1>13 DEF Cache!Keys
<1> QED BY <1>11, <1>17, <1>18 DEF kept
\* Matrices that a product can be asked for, and what the cache holds of them.
Fitting == {m \in Matrices \cup {Probe} : Hip!MatrixFits(m)}
Entries == {[key |-> Hip!Key(m), bytes |-> Hip!WeightBytes(m)] : m \in Fitting}

LEMMA FittingSizes ==
  ASSUME NEW m \in Fitting
  PROVE  /\ Hip!WeightBytes(m) \in Nat
         /\ Hip!InputBytes(m) \in Nat \ {0} /\ Hip!OutputBytes(m) \in Nat \ {0}
<1>1. m.rows \in Nat \ {0} /\ m.columns \in Nat \ {0} /\ m.batch \in Nat \ {0}
  BY EngineAssumption DEF Fitting, Hip!MatrixFits
<1>2. \A a, b \in Nat \ {0} : a * b \in Nat \ {0}
  BY SMT
<1>3. \A a, b \in Nat \ {0} : a * b * 4 \in Nat \ {0}
  BY <1>2
<1> QED BY <1>1, <1>3 DEF Hip!WeightBytes, Hip!InputBytes, Hip!OutputBytes

LEMMA EntriesCount == \A e \in Entries : e.bytes \in Nat
  BY FittingSizes DEF Entries

LEMMA ProbeFits == Probe \in Fitting
  BY EngineAssumption DEF Fitting

LEMMA BudgetType ==
  ASSUME NEW available \in Memory, NEW wanted \in Wanted
  PROVE  Hip!Budget(available, wanted) \in Nat
<1>1. available \in Nat /\ (wanted \in Nat \/ wanted = -1) /\ Reserved \in Nat
  BY EngineAssumption
<1>2. available \div 10 \in Nat
  BY <1>1
<1> QED BY <1>1, <1>2 DEF Hip!Budget

\* A key is no name of a buffer or an array.
LEMMA KeyIsNoName == \A m, name : Hip!Key(m) # <<name>>
  BY DEF Hip!Key

LEMMA KeysAreNoNames ==
  ASSUME NEW entries, NEW total, Counted(Entries, entries, total), NEW name
  PROVE  <<name>> \notin Cache!Keys(entries)
<1>1. \A i \in 1 .. Len(entries) : entries[i] \in Entries
  BY ElementOfSeq DEF Counted
<1>2. \A e \in Entries : e.key # <<name>>
  BY KeyIsNoName DEF Entries
<1> QED BY <1>1, <1>2 DEF Cache!Keys

LEMMA WeightEntry ==
  ASSUME NEW m \in Fitting
  PROVE  LET e == [key |-> Hip!Key(m), bytes |-> Hip!WeightBytes(m)]
         IN  e \in Entries /\ e.key = Hip!Key(m) /\ e.bytes = Hip!WeightBytes(m)
  BY DEF Entries

\* The operators of the cache are the same in both backends.
LEMMA HipCache ==
  /\ \A l : Hip!Keys(l) = Cache!Keys(l) /\ Hip!Total(l) = Cache!Total(l)
  /\ \A l, k : (Hip!Cached(l, k) <=> Cache!Cached(l, k)) /\ Hip!Found(l, k) = Cache!Found(l, k)
  /\ \A l, b, r : Hip!Kept(l, b, r) = Cache!Kept(l, b, r)
<1>1. \A l : Hip!Keys(l) = Cache!Keys(l)
  BY DEF Hip!Keys, Cache!Keys
<1>2. \A l : Hip!Total(l) = Cache!Total(l)
  BY DEF Hip!Total, Cache!Total
<1>3. \A l, k : Hip!Cached(l, k) <=> Cache!Cached(l, k)
  BY DEF Hip!Cached, Cache!Cached, Hip!Position, Cache!Position
<1>4. \A l, k : Hip!Found(l, k) = Cache!Found(l, k)
  BY DEF Hip!Found, Cache!Found, Hip!Position, Cache!Position, Hip!RemoveAt, Cache!RemoveAt
<1>5. \A l, b, r : Hip!Kept(l, b, r) = Cache!Kept(l, b, r)
  BY DEF Hip!Kept, Cache!Kept
<1> QED BY <1>1, <1>2, <1>3, <1>4, <1>5

LEMMA CachedIsKey ==
  ASSUME NEW l, NEW k
  PROVE  Cache!Cached(l, k) <=> k \in Cache!Keys(l)
  BY DEF Cache!Cached, Cache!Position, Cache!Keys

-----------------------------------------------------------------------------
(* A ROCm device                                                           *)

HipTyped ==
  /\ life \in {"none", "making", "ready", "gone"} /\ stream \in BOOLEAN /\ failed \in BOOLEAN
  /\ limit \in Nat /\ Counted(Entries, list, bytes)
  /\ scratch \in [Hip!Buffers -> [set : BOOLEAN, bytes : Nat]]
  /\ \A name \in Hip!Buffers : ~scratch[name].set => scratch[name].bytes = 0
  /\ matrix \in Fitting /\ result \in {0, -1}
  /\ at \in {"idle", "setup", "destroy", "enter", "buffers", "input", "output", "weight",
             "allocate", "copy", "finish", "drop", "upload", "multiply", "download", "done",
             "returned"}

\* Which resources there are at each time of the context's life.
HipLife ==
  /\ life = "none" => at = "idle" /\ ~failed
  /\ at = "setup" => life = "making" /\ ~failed /\ ~stream
  /\ at = "destroy" => life = "making"
  /\ at = "idle" => life # "making"
  /\ at \notin {"idle", "setup", "destroy"} => stream /\ life \in {"making", "ready"}
  /\ life = "ready" => stream
  /\ life \in {"none", "gone"} => ~stream
  /\ ~stream => Hip!Owned = {} /\ bytes = 0 /\ Hip!Scratch = 0 /\ pending = {}

\* The room that was made is still there when it is used.
HipBudget ==
  /\ at \notin Hip!Buffers => bytes + Hip!Scratch <= limit
  /\ at \in Hip!Buffers => bytes + Hip!Want("input") + Hip!Want("output") <= limit
  /\ at \in {"allocate", "copy", "finish", "drop"} =>
       /\ bytes + Hip!WeightBytes(matrix) + Hip!Scratch <= limit
       /\ Hip!Weight \notin Cache!Keys(list)

\* What the product has got so far.
HipProduct ==
  /\ at \in {"enter", "buffers", "weight", "upload", "multiply", "download"} => ~failed
  /\ at \in {"buffers", "input", "output", "weight", "allocate", "copy", "finish", "drop",
             "upload", "multiply", "download"} => result = -1
  /\ at \in {"weight", "allocate", "copy", "finish", "drop", "upload", "multiply", "download"} =>
       Hip!Fits
  /\ at = "output" => scratch["input"].bytes >= Hip!Needed("input")
  /\ at \in {"upload", "multiply", "download"} => Hip!Weight \in Cache!Keys(list)
  /\ at \in {"done", "returned"} /\ result = 0 =>
       /\ ~failed /\ Hip!Fits /\ Hip!Weight \in Cache!Keys(list)
       /\ at = "returned" => device = "caller"

\* The memory of a weight that is not in the cache yet.
Upload == IF at \in {"copy", "finish", "drop"} THEN {Hip!Weight} \cup Hip!Staging ELSE {}

\* What is held is owned, being uploaded, or was refused by the driver.
HipMemory ==
  /\ ~misused
  /\ leaked # {} => failed
  /\ Hip!Owned \cup Upload \subseteq held
  /\ held \subseteq Hip!Owned \cup Upload \cup leaked
  /\ at \in Hip!Buffers => \A name \in Hip!Buffers : Hip!Buffer(name) \notin leaked
  /\ at = "allocate" => Hip!Weight \notin leaked
  /\ at \in {"enter", "buffers", "input", "output", "weight", "allocate", "copy"} => pending = {}
  /\ at \in {"idle", "returned"} /\ ~failed => pending = {}

HipInv == HipTyped /\ HipLife /\ HipBudget /\ HipProduct /\ HipMemory

LEMMA HipSame ==
  ASSUME list' = list, scratch' = scratch, matrix' = matrix
  PROVE  /\ Hip!Owned' = Hip!Owned /\ Hip!Scratch' = Hip!Scratch
         /\ Hip!Want("input")' = Hip!Want("input") /\ Hip!Want("output")' = Hip!Want("output")
         /\ Hip!Weight' = Hip!Weight /\ Hip!Staging' = Hip!Staging
         /\ Hip!Fits' = Hip!Fits /\ Hip!Needed("input")' = Hip!Needed("input")
         /\ Hip!WeightBytes(matrix)' = Hip!WeightBytes(matrix)
         /\ Cache!Keys(list)' = Cache!Keys(list)
         /\ (Counted(Entries, list, bytes) /\ bytes' = bytes) => Counted(Entries, list, bytes)'
  BY DEF Hip!Owned, Hip!Scratch, Hip!Want, Hip!Weight, Hip!Staging, Hip!Fits, Hip!Needed

LEMMA HipOwned ==
  \A x : x \in Hip!Owned <=> \/ x \in Cache!Keys(list)
                             \/ scratch["input"].set /\ x = <<"input">>
                             \/ scratch["output"].set /\ x = <<"output">>
  BY HipCache DEF Hip!Owned, Hip!Buffers, Hip!Buffer

LEMMA HipInitInv == Hip!Init => HipInv
<1> SUFFICES ASSUME Hip!Init PROVE HipInv
  OBVIOUS
<1>1. /\ life = "none" /\ stream = FALSE /\ list = <<>> /\ bytes = 0 /\ limit = 0
      /\ failed = FALSE /\ at = "idle" /\ matrix = Probe /\ result = -1
      /\ device = "caller" /\ held = {} /\ pending = {} /\ leaked = {} /\ misused = FALSE
      /\ scratch = [name \in Hip!Buffers |-> Hip!Null]
  BY DEF Hip!Init
<1>2. Counted(Entries, <<>>, 0) /\ Cache!Keys(<<>>) = {}
  BY CountedEmpty, EntriesCount
<1>3. /\ scratch \in [Hip!Buffers -> [set : BOOLEAN, bytes : Nat]]
      /\ \A name \in Hip!Buffers : ~scratch[name].set /\ scratch[name].bytes = 0
  BY <1>1 DEF Hip!Null
<1>4. Hip!Owned = {} /\ Hip!Scratch = 0
  BY <1>1, <1>2, <1>3, HipOwned DEF Hip!Scratch, Hip!Buffers
<1>5. HipTyped
  BY <1>1, <1>2, <1>3, ProbeFits DEF HipTyped
<1>6. HipLife
  BY <1>1, <1>4 DEF HipLife
<1>7. HipBudget
  BY <1>1, <1>4 DEF HipBudget, Hip!Buffers
<1>8. HipProduct
  BY <1>1 DEF HipProduct
<1>9. HipMemory
  BY <1>1, <1>4 DEF HipMemory, Upload, Hip!Buffers
<1> QED BY <1>5, <1>6, <1>7, <1>8, <1>9 DEF HipInv

\* The steps that leave the cache, the buffers and the matrix as they are.
HipKeeps == UNCHANGED <<list, bytes, scratch, matrix>>

LEMMA HipOpen == ASSUME HipInv, NEW ok \in BOOLEAN, Hip!Open(ok) PROVE HipInv'
<1>1. HipKeeps /\ UNCHANGED <<stream, limit, failed, result, device, held, pending, leaked, misused>>
  BY DEF Hip!Open, HipKeeps, Hip!cache, Hip!memory
<1>2. /\ life = "none" /\ life' = IF ok THEN "making" ELSE "gone"
      /\ at' = IF ok THEN "setup" ELSE "idle"
  BY DEF Hip!Open
<1> USE HipSame DEF HipKeeps, HipInv
<1>3. HipTyped'
  BY <1>1, <1>2 DEF HipTyped
<1>4. HipLife'
  BY <1>1, <1>2 DEF HipLife
<1>5. HipBudget'
  BY <1>1, <1>2 DEF HipBudget, HipLife, Hip!Buffers
<1>6. HipProduct'
  BY <1>1, <1>2 DEF HipProduct
<1>7. HipMemory'
  BY <1>1, <1>2 DEF HipMemory, Upload, Hip!Buffers, HipLife
<1> QED BY <1>3, <1>4, <1>5, <1>6, <1>7

LEMMA HipSetup ==
  ASSUME HipInv, NEW done \in 0 .. 4, NEW available \in Memory, NEW wanted \in Wanted,
         NEW restored \in BOOLEAN, Hip!Setup(done, available, wanted, restored)
  PROVE  HipInv'
<1>1. HipKeeps /\ UNCHANGED <<life, result, held, pending, leaked, misused>>
  BY DEF Hip!Setup, HipKeeps, Hip!memory
<1>2. /\ at = "setup" /\ stream' = (done >= 2) /\ limit' \in Nat
      /\ failed' = (failed \/ ~(done = 4 /\ restored))
      /\ at' = IF done = 4 /\ restored THEN "enter" ELSE "destroy"
  BY BudgetType DEF Hip!Setup, Hip!Checked, Hip!Go
<1>3. life = "making" /\ ~failed /\ ~stream /\ Hip!Owned = {} /\ bytes = 0 /\ Hip!Scratch = 0
      /\ pending = {}
  BY <1>2 DEF HipInv, HipLife
<1> USE HipSame DEF HipKeeps, HipInv
<1>4. HipTyped'
  BY <1>1, <1>2 DEF HipTyped
<1>5. HipLife'
  BY <1>1, <1>2, <1>3 DEF HipLife
<1>6. HipBudget'
  BY <1>1, <1>2, <1>3 DEF HipBudget, Hip!Buffers
<1>7. HipProduct'
  BY <1>1, <1>2, <1>3 DEF HipProduct
<1>8. HipMemory'
  BY <1>1, <1>2, <1>3 DEF HipMemory, Upload, Hip!Buffers
<1> QED BY <1>4, <1>5, <1>6, <1>7, <1>8

LEMMA HipProbed == ASSUME HipInv, NEW right \in BOOLEAN, Hip!Probed(right) PROVE HipInv'
<1>1. HipKeeps /\ UNCHANGED <<stream, limit, failed, result, device, held, pending, leaked, misused>>
  BY DEF Hip!Probed, HipKeeps, Hip!cache, Hip!memory
<1>2. /\ life = "making" /\ at = "returned"
      /\ IF result = 0 /\ right THEN life' = "ready" /\ at' = "idle"
                                ELSE life' = life /\ at' = "destroy"
  BY DEF Hip!Probed, Hip!Go
<1> USE HipSame DEF HipKeeps, HipInv
<1>3. HipTyped'
  BY <1>1, <1>2 DEF HipTyped
<1>4. HipLife'
  BY <1>1, <1>2 DEF HipLife
<1>5. HipBudget'
  BY <1>1, <1>2 DEF HipBudget, Hip!Buffers
<1>6. HipProduct'
  BY <1>1, <1>2 DEF HipProduct
<1>7. HipMemory'
  BY <1>1, <1>2 DEF HipMemory, Upload, Hip!Buffers
<1> QED BY <1>3, <1>4, <1>5, <1>6, <1>7

LEMMA HipBegin == ASSUME HipInv, NEW m \in Matrices, Hip!Begin(m) PROVE HipInv'
<1>1. UNCHANGED <<life, stream, list, bytes, limit, scratch, failed, result, device, held, pending,
                  leaked, misused>>
  BY DEF Hip!Begin, Hip!cache, Hip!memory
<1>2. /\ life = "ready" /\ at = "idle" /\ ~failed /\ matrix' = m /\ at' = "enter" /\ m \in Fitting
  BY DEF Hip!Begin, Hip!Go, Fitting
<1>3. Hip!Owned' = Hip!Owned /\ Hip!Scratch' = Hip!Scratch
  BY <1>1 DEF Hip!Owned, Hip!Scratch
<1> USE DEF HipInv
<1>4. HipTyped'
  BY <1>1, <1>2 DEF HipTyped
<1>5. HipLife'
  BY <1>1, <1>2, <1>3 DEF HipLife
<1>6. HipBudget'
  BY <1>1, <1>2, <1>3 DEF HipBudget, Hip!Buffers
<1>7. HipProduct'
  BY <1>1, <1>2 DEF HipProduct
<1>8. HipMemory'
  BY <1>1, <1>2, <1>3 DEF HipMemory, Upload, Hip!Buffers
<1> QED BY <1>4, <1>5, <1>6, <1>7, <1>8

LEMMA HipEnter == ASSUME HipInv, NEW ok \in BOOLEAN, Hip!Enter(ok) PROVE HipInv'
<1>1. HipKeeps /\ UNCHANGED <<life, stream, limit, held, pending, leaked, misused>>
  BY DEF Hip!Enter, HipKeeps, Hip!cache, Hip!memory
<1>2. /\ at = "enter" /\ failed' = (failed \/ ~ok) /\ result' = -1
      /\ at' = IF ok THEN "buffers" ELSE "returned"
  BY DEF Hip!Enter, Hip!Go, Hip!Checked
<1> USE HipSame DEF HipKeeps, HipInv
<1>3. HipTyped'
  BY <1>1, <1>2 DEF HipTyped
<1>4. HipLife'
  BY <1>1, <1>2 DEF HipLife
<1>5. HipBudget'
  BY <1>1, <1>2 DEF HipBudget, Hip!Buffers
<1>6. HipProduct'
  <2>1. /\ (Hip!Fits' <=> Hip!Fits) /\ Hip!Weight' = Hip!Weight /\ Hip!Needed("input")' = Hip!Needed("input")
        /\ Cache!Keys(list)' = Cache!Keys(list) /\ scratch' = scratch
    BY <1>1
  <2>2. HipProduct /\ result \in {0, -1} /\ failed \in BOOLEAN
    BY DEF HipTyped
  <2> QED BY <1>1, <1>2, <2>1, <2>2 DEF HipProduct
<1>7. HipMemory'
  BY <1>1, <1>2 DEF HipMemory, Upload, Hip!Buffers
<1> QED BY <1>3, <1>4, <1>5, <1>6, <1>7

LEMMA HipAllocateWeight ==
  ASSUME HipInv, NEW given \in BOOLEAN, Hip!AllocateWeight(given)
  PROVE  HipInv'
<1>1. HipKeeps /\ UNCHANGED <<life, stream, limit, device, result, pending, leaked>>
  BY DEF Hip!AllocateWeight, HipKeeps, Hip!rest
<1>2. /\ at = "allocate" /\ failed' = (failed \/ ~given)
      /\ held' = IF given THEN held \cup {Hip!Weight} \cup Hip!Staging ELSE held
      /\ misused' = (misused \/ Hip!Weight \in held)
      /\ at' = IF given THEN "copy" ELSE "done"
  BY DEF Hip!AllocateWeight, Hip!Go, Hip!Checked
<1>3. Hip!Weight \notin Hip!Owned
  <2>1. Hip!Weight # <<"input">> /\ Hip!Weight # <<"output">>
    BY KeyIsNoName DEF Hip!Weight
  <2> QED BY <1>2, <2>1, HipOwned DEF HipInv, HipBudget
<1> USE HipSame DEF HipKeeps, HipInv
<1>4. HipTyped'
  BY <1>1, <1>2 DEF HipTyped
<1>5. HipLife'
  BY <1>1, <1>2 DEF HipLife
<1>6. HipBudget'
  BY <1>1, <1>2 DEF HipBudget, Hip!Buffers
<1>7. HipProduct'
  BY <1>1, <1>2 DEF HipProduct
<1>8. HipMemory'
  <2>1. Hip!Weight \notin held
    BY <1>2, <1>3 DEF HipMemory, Upload
  <2> QED BY <1>1, <1>2, <2>1 DEF HipMemory, Upload, Hip!Buffers
<1> QED BY <1>4, <1>5, <1>6, <1>7, <1>8

LEMMA HipSubmit == ASSUME HipInv, NEW ok \in BOOLEAN, Hip!Submit(ok) PROVE HipInv'
<1>1. HipKeeps /\ UNCHANGED <<life, stream, limit, device, held, leaked>>
  BY DEF Hip!Submit, HipKeeps, Hip!rest
<1>2. /\ at \in {"copy", "upload", "multiply", "download"}
      /\ failed' = (failed \/ ~ok)
      /\ misused' = (misused \/ ~(Hip!Uses \subseteq held))
      /\ result' = IF ok /\ at = "download" THEN 0 ELSE result
      /\ at' = IF ok THEN Hip!Following ELSE IF at = "copy" THEN "drop" ELSE "done"
  BY DEF Hip!Submit, Hip!Go, Hip!Checked
<1>3. /\ at = "copy" => Hip!Following = "finish"
      /\ at = "upload" => Hip!Following = "multiply"
      /\ at = "multiply" => Hip!Following = "download"
      /\ at = "download" => Hip!Following = "done"
  BY DEF Hip!Following
<1>4. Hip!Uses \subseteq held
  <2>1. CASE at = "copy"
    BY <2>1 DEF Hip!Uses, HipInv, HipMemory, Upload
  <2>2. CASE at \in {"upload", "multiply", "download"}
    <3>1. Hip!Weight \in Hip!Owned
      BY <2>2, HipOwned DEF HipInv, HipProduct
    <3>2. Hip!Fits /\ matrix \in Fitting
      BY <2>2 DEF HipInv, HipProduct, HipTyped
    <3>3. scratch["input"].set /\ scratch["output"].set
      <4>1. Hip!InputBytes(matrix) \in Nat \ {0} /\ Hip!OutputBytes(matrix) \in Nat \ {0}
        BY <3>2, FittingSizes
      <4>2. /\ scratch["input"].bytes >= Hip!InputBytes(matrix)
            /\ scratch["output"].bytes >= Hip!OutputBytes(matrix)
        BY <3>2 DEF Hip!Fits, Hip!Needed, Hip!Buffers
      <4>3. \A name \in {"input", "output"} : ~scratch[name].set => scratch[name].bytes = 0
        BY DEF HipInv, HipTyped, Hip!Buffers
      <4> QED BY <4>1, <4>2, <4>3
    <3>4. {<<"input">>, <<"output">>, Hip!Weight} \subseteq Hip!Owned
      BY <3>1, <3>3, HipOwned
    <3>5. Hip!Uses \subseteq {<<"input">>, <<"output">>, Hip!Weight}
      BY <2>2 DEF Hip!Uses, Hip!Buffer
    <3>6. Hip!Owned \subseteq held
      BY DEF HipInv, HipMemory
    <3> QED BY <3>4, <3>5, <3>6
  <2> QED BY <1>2, <2>1, <2>2
<1> USE HipSame DEF HipKeeps, HipInv
<1>5. HipTyped'
  BY <1>1, <1>2, <1>3 DEF HipTyped
<1>6. HipLife'
  BY <1>1, <1>2, <1>3 DEF HipLife
<1>7. HipBudget'
  BY <1>1, <1>2, <1>3 DEF HipBudget, Hip!Buffers
<1>8. HipProduct'
  <2>1. /\ (Hip!Fits' <=> Hip!Fits) /\ Hip!Weight' = Hip!Weight /\ Hip!Needed("input")' = Hip!Needed("input")
        /\ Cache!Keys(list)' = Cache!Keys(list) /\ scratch' = scratch
    BY <1>1
  <2>2. HipProduct /\ result \in {0, -1} /\ failed \in BOOLEAN
    BY DEF HipTyped
  <2> QED BY <1>1, <1>2, <1>3, <2>1, <2>2 DEF HipProduct
<1>9. HipMemory'
  BY <1>1, <1>2, <1>3, <1>4 DEF HipMemory, Upload, Hip!Buffers
<1> QED BY <1>5, <1>6, <1>7, <1>8, <1>9

LEMMA HipDropWeight == ASSUME HipInv, NEW ok \in BOOLEAN, Hip!DropWeight(ok) PROVE HipInv'
<1>1. HipKeeps /\ UNCHANGED <<life, stream, limit, device, result>>
  BY DEF Hip!DropWeight, HipKeeps, Hip!rest
<1>2. /\ at = "drop" /\ failed' = TRUE /\ pending' = {} /\ at' = "done"
      /\ held' = held \ (IF ok THEN {Hip!Weight, Hip!Host} ELSE {Hip!Host})
      /\ leaked' = IF ok THEN leaked ELSE leaked \cup {Hip!Weight}
      /\ misused' = (misused \/ Hip!Weight \notin held)
  BY DEF Hip!DropWeight, Hip!Go, Hip!Checked
<1>3. Hip!Weight \notin Hip!Owned /\ Hip!Host \notin Hip!Owned
  <2>1. Hip!Weight # <<"input">> /\ Hip!Weight # <<"output">>
    BY KeyIsNoName DEF Hip!Weight
  <2>2. Hip!Host = <<"expanded">> /\ Hip!Host \notin Cache!Keys(list)
    BY KeysAreNoNames DEF Hip!Host, HipInv, HipTyped
  <2> QED BY <1>2, <2>1, <2>2, HipOwned DEF HipInv, HipBudget
<1> USE HipSame DEF HipKeeps, HipInv
<1>4. HipTyped'
  BY <1>1, <1>2 DEF HipTyped
<1>5. HipLife'
  BY <1>1, <1>2 DEF HipLife
<1>6. HipBudget'
  BY <1>1, <1>2 DEF HipBudget, Hip!Buffers
<1>7. HipProduct'
  BY <1>1, <1>2 DEF HipProduct
<1>8. HipMemory'
  <2>1. Upload \subseteq {Hip!Weight, Hip!Host} /\ Hip!Weight \in Upload
    BY <1>2 DEF Upload, Hip!Staging
  <2>2. Upload' = {}
    BY <1>2 DEF Upload
  <2>3. Hip!Owned \cup Upload \subseteq held /\ held \subseteq Hip!Owned \cup Upload \cup leaked
        /\ ~misused
    BY DEF HipMemory
  <2>4. Hip!Owned' \cup Upload' \subseteq held'
    BY <1>1, <1>2, <1>3, <2>2, <2>3
  <2>5. held' \subseteq Hip!Owned' \cup Upload' \cup leaked'
    BY <1>1, <1>2, <2>1, <2>2, <2>3
  <2>6. ~misused'
    BY <1>2, <2>1, <2>3
  <2> QED BY <1>2, <2>4, <2>5, <2>6 DEF HipMemory, Hip!Buffers
<1> QED BY <1>4, <1>5, <1>6, <1>7, <1>8

LEMMA HipDone ==
  ASSUME HipInv, NEW finished \in BOOLEAN, NEW restored \in BOOLEAN, Hip!Done(finished, restored)
  PROVE  HipInv'
<1>1. HipKeeps /\ UNCHANGED <<life, stream, limit, held, leaked, misused>>
  BY DEF Hip!Done, HipKeeps, Hip!cache
<1>2. /\ at = "done" /\ failed' = (failed \/ ~(finished /\ restored)) /\ at' = "returned"
      /\ result' = IF finished /\ restored THEN result ELSE -1
      /\ device' = IF restored THEN "caller" ELSE device
      /\ pending' = IF finished THEN {} ELSE pending
  BY DEF Hip!Done, Hip!Go, Hip!Checked
<1> USE HipSame DEF HipKeeps, HipInv
<1>3. HipTyped'
  BY <1>1, <1>2 DEF HipTyped
<1>4. HipLife'
  BY <1>1, <1>2 DEF HipLife
<1>5. HipBudget'
  BY <1>1, <1>2 DEF HipBudget, Hip!Buffers
<1>6. HipProduct'
  <2>1. /\ (Hip!Fits' <=> Hip!Fits) /\ Hip!Weight' = Hip!Weight /\ Hip!Needed("input")' = Hip!Needed("input")
        /\ Cache!Keys(list)' = Cache!Keys(list) /\ scratch' = scratch
    BY <1>1
  <2>2. HipProduct /\ result \in {0, -1} /\ failed \in BOOLEAN
    BY DEF HipTyped
  <2> QED BY <1>1, <1>2, <2>1, <2>2 DEF HipProduct
<1>7. HipMemory'
  BY <1>1, <1>2 DEF HipMemory, Upload, Hip!Buffers
<1> QED BY <1>3, <1>4, <1>5, <1>6, <1>7

LEMMA HipReturned == ASSUME HipInv, Hip!Returned PROVE HipInv'
<1>1. HipKeeps /\ UNCHANGED <<life, stream, limit, failed, result, device, held, pending, leaked, misused>>
  BY DEF Hip!Returned, HipKeeps, Hip!cache, Hip!memory
<1>2. life = "ready" /\ at = "returned" /\ at' = "idle"
  BY DEF Hip!Returned, Hip!Go
<1> USE HipSame DEF HipKeeps, HipInv
<1>3. HipTyped'
  BY <1>1, <1>2 DEF HipTyped
<1>4. HipLife'
  BY <1>1, <1>2 DEF HipLife
<1>5. HipBudget'
  BY <1>1, <1>2 DEF HipBudget, Hip!Buffers
<1>6. HipProduct'
  BY <1>1, <1>2 DEF HipProduct
<1>7. HipMemory'
  BY <1>1, <1>2 DEF HipMemory, Upload, Hip!Buffers
<1> QED BY <1>3, <1>4, <1>5, <1>6, <1>7

LEMMA HipDestroy == ASSUME HipInv, NEW bad \in SUBSET held, Hip!Destroy(bad) PROVE HipInv'
<1>1. /\ at = "destroy" \/ (life = "ready" /\ at = "idle")
      /\ life' = "gone" /\ at' = "idle" /\ stream' = FALSE
      /\ list' = <<>> /\ bytes' = 0 /\ scratch' = [name \in Hip!Buffers |-> Hip!Null]
      /\ UNCHANGED <<device, limit, matrix, result>>
  BY DEF Hip!Destroy, Hip!Go
<1>3. /\ stream => /\ held' = held \ (Hip!Owned \ bad) /\ leaked' = leaked \cup bad
                   /\ misused' = (misused \/ ~(Hip!Owned \subseteq held))
                   /\ pending' = {} /\ failed' = (failed \/ ~(bad = {}))
      /\ ~stream => UNCHANGED <<held, pending, leaked, misused, failed>>
  BY DEF Hip!Destroy, Hip!Checked, Hip!memory
<1>4. Counted(Entries, <<>>, 0) /\ Cache!Keys(<<>>) = {}
  BY CountedEmpty, EntriesCount
<1>5. /\ scratch' \in [Hip!Buffers -> [set : BOOLEAN, bytes : Nat]]
      /\ \A name \in Hip!Buffers : ~scratch'[name].set /\ scratch'[name].bytes = 0
  BY <1>1 DEF Hip!Null
<1>6. Hip!Owned' = {} /\ Hip!Scratch' = 0
  <2>1. \A x : x \in Hip!Owned' <=> \/ x \in Cache!Keys(list')
                                    \/ scratch'["input"].set /\ x = <<"input">>
                                    \/ scratch'["output"].set /\ x = <<"output">>
    BY HipCache DEF Hip!Owned, Hip!Buffers, Hip!Buffer
  <2>2. "input" \in Hip!Buffers /\ "output" \in Hip!Buffers
    BY DEF Hip!Buffers
  <2> QED BY <1>1, <1>4, <1>5, <2>1, <2>2 DEF Hip!Scratch
<1>7. HipTyped'
  BY <1>1, <1>3, <1>4, <1>5 DEF HipInv, HipTyped
<1>8. HipLife'
  <2>1. pending' = {}
    BY <1>3 DEF HipInv, HipLife, HipTyped
  <2> QED BY <1>1, <1>6, <2>1 DEF HipLife
<1>9. HipBudget'
  <2>1. limit' \in Nat
    BY <1>7 DEF HipTyped
  <2> QED BY <1>1, <1>6, <2>1 DEF HipBudget, Hip!Buffers
<1>10. HipProduct'
  BY <1>1 DEF HipProduct
<1>11. HipMemory'
  <2>1. Hip!Owned \subseteq held /\ held \subseteq Hip!Owned \cup leaked /\ ~misused
        /\ (leaked # {} => failed)
    BY <1>1 DEF HipInv, HipMemory, Upload
  <2>2. ~stream => Hip!Owned = {} /\ pending = {}
    BY DEF HipInv, HipLife
  <2>3. held' \subseteq leaked' /\ ~misused' /\ (leaked' # {} => failed') /\ pending' = {}
    <3>1. failed \in BOOLEAN /\ stream \in BOOLEAN
      BY DEF HipInv, HipTyped
    <3>2. CASE stream
      BY <1>3, <2>1, <3>1, <3>2
    <3>3. CASE ~stream
      BY <1>3, <2>1, <2>2, <3>1, <3>3
    <3> QED BY <3>2, <3>3
  <2> QED BY <1>1, <1>6, <2>3 DEF HipMemory, Upload, Hip!Buffers
<1> QED BY <1>7, <1>8, <1>9, <1>10, <1>11 DEF HipInv

\* What an eviction leaves.
LEMMA HipEvict ==
  ASSUME HipInv, NEW wanted \in Nat, NEW beside \in Nat, NEW bad, Hip!Evict(wanted, beside, bad),
         Hip!MayReserve(limit, wanted, beside), pending = {}, Upload = {}, scratch' = scratch
  PROVE  /\ Counted(Entries, list, bytes)' /\ bytes' + wanted + beside <= limit
         /\ Cache!Keys(list') \subseteq Cache!Keys(list)
         /\ Hip!Owned' \subseteq held' /\ held' \subseteq Hip!Owned' \cup leaked'
         /\ leaked \subseteq leaked' /\ leaked' \subseteq leaked \cup Cache!Keys(list)
         /\ ~misused' /\ pending' = {} /\ failed' \in BOOLEAN
         /\ (leaked' # {} => failed')
<1> DEFINE kept == Cache!Kept(list, bytes, limit - beside - wanted)
           gone == Cache!Keys(list) \ Cache!Keys(kept.list)
<1>1. Counted(Entries, list, bytes) /\ limit \in Nat /\ failed \in BOOLEAN
  BY DEF HipInv, HipTyped
<1>2. limit - beside - wanted \in Nat
  BY <1>1 DEF Hip!MayReserve
<1>3. /\ Counted(Entries, kept.list, kept.bytes) /\ kept.bytes <= limit - beside - wanted
      /\ Cache!Keys(kept.list) \subseteq Cache!Keys(list)
  BY <1>1, <1>2, CountedKept
<1>4. /\ list' = kept.list /\ bytes' = kept.bytes /\ pending' = pending
      /\ bad \subseteq gone /\ held' = held \ (gone \ bad) /\ leaked' = leaked \cup bad
      /\ misused' = (misused \/ ~(gone \subseteq held) \/ gone \cap pending # {})
      /\ failed' = (failed \/ ~(bad = {}))
  BY HipCache DEF Hip!Evict, Hip!Free, Hip!Room, Hip!Checked
<1> HIDE DEF kept
<1>5. bytes' + wanted + beside <= limit /\ Counted(Entries, list', bytes')
  <2>1. kept.bytes \in Nat
    BY <1>3, CountedSized
  <2> QED BY <1>1, <1>3, <1>4, <2>1
<1>6. <<"input">> \notin Cache!Keys(list) /\ <<"output">> \notin Cache!Keys(list)
  BY <1>1, KeysAreNoNames
<1>7. \A x : x \in Hip!Owned' <=> \/ x \in Cache!Keys(list')
                                  \/ scratch["input"].set /\ x = <<"input">>
                                  \/ scratch["output"].set /\ x = <<"output">>
  BY HipCache DEF Hip!Owned, Hip!Buffers, Hip!Buffer
<1>8. Hip!Owned \subseteq held /\ held \subseteq Hip!Owned \cup leaked /\ ~misused
      /\ (leaked # {} => failed)
  BY DEF HipInv, HipMemory
<1>9. Hip!Owned' = Hip!Owned \ gone
  BY <1>3, <1>4, <1>6, <1>7, HipOwned
<1>10. gone \subseteq Hip!Owned
  BY HipOwned
<1>11. Hip!Owned' \subseteq held' /\ held' \subseteq Hip!Owned' \cup leaked'
  BY <1>4, <1>8, <1>9
<1>12. ~misused' /\ pending' = {}
  BY <1>4, <1>8, <1>10
<1>13. failed' \in BOOLEAN /\ (leaked' # {} => failed')
  BY <1>1, <1>4, <1>8
<1>14. leaked \subseteq leaked' /\ leaked' \subseteq leaked \cup Cache!Keys(list)
  BY <1>4
<1> QED BY <1>3, <1>4, <1>5, <1>11, <1>12, <1>13, <1>14

LEMMA HipReserveScratch ==
  ASSUME HipInv, NEW bad \in SUBSET held, Hip!ReserveScratch(bad)
  PROVE  HipInv'
<1> DEFINE want == Hip!Want("input") + Hip!Want("output")
<1>1. /\ at = "buffers"
      /\ UNCHANGED <<life, stream, device, limit, matrix, scratch, result>>
  BY DEF Hip!ReserveScratch, Hip!rest
<1>2. ~failed /\ failed \in BOOLEAN /\ stream /\ life \in {"making", "ready"} /\ result = -1
      /\ pending = {} /\ leaked = {} /\ Upload = {} /\ bytes + Hip!Scratch <= limit
  BY <1>1 DEF HipInv, HipLife, HipProduct, HipMemory, HipTyped, Upload, HipBudget, Hip!Buffers
<1>3. CASE Hip!Fits
  <2>1. HipKeeps /\ at' = "weight" /\ UNCHANGED <<held, pending, leaked, misused, failed>>
    BY <1>1, <1>3 DEF Hip!ReserveScratch, Hip!Go, HipKeeps, Hip!memory
  <2> USE HipSame DEF HipKeeps, HipInv
  <2>2. HipTyped'
    BY <1>1, <2>1 DEF HipTyped
  <2>3. HipLife'
    BY <1>1, <2>1 DEF HipLife
  <2>4. HipBudget'
    BY <1>1, <2>1 DEF HipBudget, Hip!Buffers
  <2>5. HipProduct'
    BY <1>1, <1>2, <1>3, <2>1 DEF HipProduct
  <2>6. HipMemory'
    BY <1>1, <1>2, <2>1 DEF HipMemory, Upload, Hip!Buffers
  <2> QED BY <2>2, <2>3, <2>4, <2>5, <2>6
<1>4. CASE ~Hip!Fits /\ (want > MaxSize \/ ~Hip!MayReserve(limit, 0, want))
  <2>1. HipKeeps /\ at' = "done" /\ failed' = TRUE /\ UNCHANGED <<held, pending, leaked, misused>>
    BY <1>1, <1>4 DEF Hip!ReserveScratch, Hip!Go, HipKeeps, Hip!memory, Hip!Checked
  <2> USE HipSame DEF HipKeeps, HipInv
  <2>2. HipTyped'
    BY <1>1, <2>1 DEF HipTyped
  <2>3. HipLife'
    BY <1>1, <2>1 DEF HipLife
  <2>4. HipBudget'
    BY <1>1, <2>1 DEF HipBudget, Hip!Buffers
  <2>5. HipProduct'
    BY <1>1, <1>2, <2>1 DEF HipProduct
  <2>6. HipMemory'
    BY <1>1, <1>2, <2>1 DEF HipMemory, Upload, Hip!Buffers
  <2> QED BY <2>2, <2>3, <2>4, <2>5, <2>6
<1>5. CASE ~Hip!Fits /\ ~(want > MaxSize \/ ~Hip!MayReserve(limit, 0, want))
  <2>1. Hip!Evict(0, want, bad) /\ at' = "input" /\ Hip!MayReserve(limit, 0, want)
    BY <1>1, <1>5 DEF Hip!ReserveScratch, Hip!Go
  <2>2. want \in Nat /\ Hip!Scratch <= want /\ Hip!Scratch \in Nat
        /\ Hip!Want("input") \in Nat /\ Hip!Want("output") \in Nat
    <3>1. Hip!Needed("input") \in Nat /\ Hip!Needed("output") \in Nat
      BY FittingSizes DEF Hip!Needed, HipInv, HipTyped
    <3>2. scratch["input"].bytes \in Nat /\ scratch["output"].bytes \in Nat
      BY DEF HipInv, HipTyped, Hip!Buffers
    <3> QED BY <3>1, <3>2 DEF Hip!Want, Hip!Scratch
  <2> HIDE DEF want
  <2>3. /\ Counted(Entries, list, bytes)' /\ bytes' + 0 + want <= limit
        /\ Hip!Owned' \subseteq held' /\ held' \subseteq Hip!Owned' \cup leaked'
        /\ leaked' \subseteq leaked \cup Cache!Keys(list)
        /\ ~misused' /\ pending' = {} /\ failed' \in BOOLEAN /\ (leaked' # {} => failed')
    BY <1>1, <1>2, <2>1, <2>2, HipEvict
  <2>4. bytes' \in Nat
    BY <2>3, CountedSized
  <2>5. Hip!Want("input")' = Hip!Want("input") /\ Hip!Want("output")' = Hip!Want("output")
    BY <1>1 DEF Hip!Want, Hip!Needed
  <2>6. HipTyped'
    BY <1>1, <2>1, <2>3 DEF HipInv, HipTyped
  <2>7. HipLife'
    BY <1>1, <1>2, <2>1 DEF HipInv, HipLife
  <2>8. HipBudget'
    <3>1. bytes' + want <= limit /\ limit' = limit /\ limit \in Nat
      <4>1. limit \in Nat /\ limit' = limit
        BY <1>1 DEF HipInv, HipTyped
      <4>2. bytes' + 0 + want <= limit /\ bytes' \in Nat /\ want \in Nat
        BY <2>2, <2>3, <2>4
      <4>3. \A x, y, z \in Nat : x + 0 + y <= z => x + y <= z
        OBVIOUS
      <4> QED BY <4>1, <4>2, <4>3
    <3>2. bytes' + Hip!Want("input")' + Hip!Want("output")' <= limit'
      BY <2>2, <2>4, <2>5, <3>1 DEF want
    <3> QED BY <2>1, <3>2 DEF HipBudget, Hip!Buffers
  <2>9. HipProduct'
    BY <1>1, <1>2, <2>1 DEF HipProduct
  <2>10. HipMemory'
    <3>1. \A name \in Hip!Buffers : Hip!Buffer(name) \notin leaked'
      BY <1>2, <2>3, KeysAreNoNames DEF HipInv, HipTyped, Hip!Buffer
    <3>2. Upload' = {}
      BY <2>1 DEF Upload
    <3> QED BY <2>1, <2>3, <3>1, <3>2 DEF HipMemory
  <2> QED BY <2>6, <2>7, <2>8, <2>9, <2>10 DEF HipInv
<1> QED BY <1>3, <1>4, <1>5

LEMMA HipGrow ==
  ASSUME HipInv, NEW freed \in BOOLEAN, NEW given \in BOOLEAN, Hip!Grow(freed, given)
  PROVE  HipInv'
<1> DEFINE old == scratch[at]
           b == Hip!Buffer(at)
<1>1. /\ at \in {"input", "output"}
      /\ UNCHANGED <<life, stream, device, limit, matrix, list, bytes, result, pending>>
      /\ at' = IF ~(freed /\ given) THEN "done"
               ELSE IF at = "input" THEN "output" ELSE IF failed THEN "done" ELSE "weight"
  BY DEF Hip!Grow, Hip!rest, Hip!Go, Hip!Buffers
<1> DEFINE Bad == misused \/ (old.set # (b \in held)) \/ b \in pending
           Large == /\ freed /\ given /\ Hip!Want(at) = old.bytes
                    /\ UNCHANGED <<scratch, held, leaked, misused, failed>>
           Stuck == /\ ~freed /\ ~given /\ scratch' = [scratch EXCEPT ![at] = old]
                    /\ held' = held /\ leaked' = leaked \cup {b} /\ misused' = Bad /\ failed' = TRUE
           Gone  == /\ freed /\ ~given /\ scratch' = [scratch EXCEPT ![at] = Hip!Null]
                    /\ held' = held \ {b} /\ leaked' = leaked /\ misused' = Bad /\ failed' = TRUE
           Grown == /\ freed /\ given
                    /\ scratch' = [scratch EXCEPT ![at] = [set |-> TRUE, bytes |-> Hip!Want(at)]]
                    /\ held' = held \cup {b} /\ leaked' = leaked /\ misused' = Bad
                    /\ failed' = (failed \/ FALSE)
<1>2. Large \/ Stuck \/ Gone \/ Grown
  <2>1. CASE Hip!Want(at) = old.bytes
    BY <2>1 DEF Hip!Grow
  <2>2. CASE Hip!Want(at) # old.bytes
    <3>1. /\ given => freed
          /\ scratch' = [scratch EXCEPT ![at] = IF ~freed THEN old
                           ELSE IF given THEN [set |-> TRUE, bytes |-> Hip!Want(at)] ELSE Hip!Null]
          /\ held' = IF ~freed THEN held ELSE IF given THEN held \cup {b} ELSE held \ {b}
          /\ leaked' = IF freed THEN leaked ELSE leaked \cup {b}
          /\ misused' = Bad /\ failed' = (failed \/ ~(freed /\ given))
      BY <2>2 DEF Hip!Grow, Hip!Checked
    <3> HIDE DEF Bad, old, b
    <3>2. CASE ~freed
      BY <3>1, <3>2
    <3>3. CASE freed /\ ~given
      BY <3>1, <3>3
    <3>4. CASE freed /\ given
      BY <3>1, <3>4
    <3> QED BY <3>2, <3>3, <3>4
  <2> QED BY <2>1, <2>2
<1>3. /\ failed \in BOOLEAN /\ stream /\ life \in {"making", "ready"} /\ result = -1
      /\ pending = {} /\ Upload = {} /\ ~misused /\ (leaked # {} => failed)
      /\ Hip!Owned \subseteq held /\ held \subseteq Hip!Owned \cup leaked
      /\ <<"input">> \notin leaked /\ <<"output">> \notin leaked
      /\ bytes + Hip!Want("input") + Hip!Want("output") <= limit
      /\ at = "output" => scratch["input"].bytes >= Hip!Needed("input")
  BY <1>1 DEF HipInv, HipLife, HipProduct, HipMemory, HipTyped, Upload, HipBudget, Hip!Buffers,
              Hip!Buffer
<1>4. /\ Hip!Needed("input") \in Nat /\ Hip!Needed("output") \in Nat
      /\ scratch["input"].bytes \in Nat /\ scratch["output"].bytes \in Nat
      /\ scratch["input"].set \in BOOLEAN /\ scratch["output"].set \in BOOLEAN
      /\ bytes \in Nat /\ limit \in Nat
  <2>1. matrix \in Fitting /\ Counted(Entries, list, bytes) /\ limit \in Nat
        /\ scratch \in [{"input", "output"} -> [set : BOOLEAN, bytes : Nat]]
    BY DEF HipInv, HipTyped, Hip!Buffers
  <2>2. Hip!InputBytes(matrix) \in Nat /\ Hip!OutputBytes(matrix) \in Nat
    BY <2>1, FittingSizes
  <2>3. bytes \in Nat
    BY <2>1, CountedSized
  <2> QED BY <2>1, <2>2, <2>3 DEF Hip!Needed
<1>5. Hip!Want("input") \in Nat /\ Hip!Want("output") \in Nat
      /\ Hip!Want("input") >= scratch["input"].bytes /\ Hip!Want("output") >= scratch["output"].bytes
      /\ Hip!Want("input") >= Hip!Needed("input") /\ Hip!Want("output") >= Hip!Needed("output")
  BY <1>4 DEF Hip!Want
<1>6. Hip!Needed("input")' = Hip!Needed("input") /\ Hip!Needed("output")' = Hip!Needed("output")
  BY <1>1 DEF Hip!Needed
<1>7. scratch' \in [{"input", "output"} -> [set : BOOLEAN, bytes : Nat]]
      /\ \A name \in {"input", "output"} : ~scratch'[name].set => scratch'[name].bytes = 0
  <2>1. scratch \in [{"input", "output"} -> [set : BOOLEAN, bytes : Nat]]
        /\ \A name \in {"input", "output"} : ~scratch[name].set => scratch[name].bytes = 0
    BY DEF HipInv, HipTyped, Hip!Buffers
  <2>2. Hip!Want(at) \in Nat
    BY <1>1, <1>5
  <2>3. CASE scratch' = scratch \/ scratch' = [scratch EXCEPT ![at] = old]
    BY <1>1, <2>1, <2>3
  <2>4. CASE scratch' = [scratch EXCEPT ![at] = Hip!Null]
    BY <1>1, <2>1, <2>4 DEF Hip!Null
  <2>5. CASE scratch' = [scratch EXCEPT ![at] = [set |-> TRUE, bytes |-> Hip!Want(at)]]
    <3>1. [set |-> TRUE, bytes |-> Hip!Want(at)] \in [set : BOOLEAN, bytes : Nat]
      BY <2>2
    <3> QED BY <1>1, <2>1, <2>5, <3>1
  <2> QED BY <1>2, <2>3, <2>4, <2>5
\* The other buffer is as before, this one is as before, gone, or as wanted.
<1>8. /\ \A name \in {"input", "output"} : name # at => scratch'[name] = scratch[name]
      /\ \/ scratch'[at] = old
         \/ scratch'[at].set = FALSE /\ scratch'[at].bytes = 0
         \/ scratch'[at].set = TRUE /\ scratch'[at].bytes = Hip!Want(at)
      /\ freed /\ given => scratch'[at].bytes = Hip!Want(at)
  <2>1. scratch \in [{"input", "output"} -> [set : BOOLEAN, bytes : Nat]]
    BY DEF HipInv, HipTyped, Hip!Buffers
  <2> HIDE DEF Bad, b
  <2>2. CASE Large
    BY <1>1, <2>1, <2>2
  <2>3. CASE Stuck
    BY <1>1, <2>1, <2>3
  <2>4. CASE Gone
    BY <1>1, <2>1, <2>4 DEF Hip!Null
  <2>5. CASE Grown
    BY <1>1, <2>1, <2>5
  <2> QED BY <1>2, <2>2, <2>3, <2>4, <2>5
<1>9. /\ scratch'["input"].bytes \in Nat /\ scratch'["output"].bytes \in Nat
      /\ scratch'["input"].bytes <= Hip!Want("input")
      /\ scratch'["output"].bytes <= Hip!Want("output")
  <2>1. scratch'["input"].bytes \in Nat /\ scratch'["output"].bytes \in Nat
    BY <1>7
  <2>2. CASE at = "input"
    BY <1>4, <1>5, <1>8, <2>1, <2>2
  <2>3. CASE at = "output"
    BY <1>4, <1>5, <1>8, <2>1, <2>3
  <2> QED BY <1>1, <2>1, <2>2, <2>3
<1>10. at' = "output" => /\ scratch'["input"].bytes = Hip!Want("input")
                         /\ scratch'["output"] = scratch["output"]
  BY <1>1, <1>8
<1>11. at' = "weight" => /\ scratch'["output"].bytes = Hip!Want("output")
                         /\ scratch'["input"] = scratch["input"] /\ at = "output"
  BY <1>1, <1>8
<1>12. /\ Hip!Owned' \subseteq held' /\ held' \subseteq Hip!Owned' \cup leaked'
       /\ ~misused' /\ leaked' \subseteq leaked \cup {b} /\ (leaked' # leaked => at' = "done")
  <2>1. \A x : x \in Hip!Owned' <=> \/ x \in Cache!Keys(list)
                                    \/ scratch'["input"].set /\ x = <<"input">>
                                    \/ scratch'["output"].set /\ x = <<"output">>
    BY <1>1, HipCache DEF Hip!Owned, Hip!Buffers, Hip!Buffer
  <2>2. <<"input">> \notin Cache!Keys(list) /\ <<"output">> \notin Cache!Keys(list)
    BY KeysAreNoNames DEF HipInv, HipTyped
  <2>3. b = <<at>> /\ <<"input">> # <<"output">>
    BY DEF Hip!Buffer
  <2>4. old.set <=> b \in held
    <3>1. old.set <=> b \in Hip!Owned
      BY <1>1, <2>2, <2>3, HipOwned
    <3>2. b \notin leaked
      BY <1>1, <1>3, <2>3
    <3> QED BY <1>3, <3>1, <3>2
  <2>5. old.set \in BOOLEAN
    BY <1>1, <1>4
  <2>10. scratch \in [{"input", "output"} -> [set : BOOLEAN, bytes : Nat]]
    BY DEF HipInv, HipTyped, Hip!Buffers
  <2>11. ~Bad
    BY <1>3, <2>4, <2>5
  <2> HIDE DEF Bad
  <2>6. CASE Large
    <3>1. Hip!Owned' = Hip!Owned
      BY <2>1, <2>6, HipOwned
    <3> QED BY <1>3, <2>6, <3>1
  <2>7. CASE Stuck
    <3>1. \A name \in {"input", "output"} : scratch'[name].set = scratch[name].set
      BY <1>1, <1>8, <2>7
    <3>2. Hip!Owned' = Hip!Owned
      BY <2>1, <3>1, HipOwned
    <3>3. ~misused'
      BY <2>11, <2>7
    <3> QED BY <1>1, <1>3, <2>7, <3>2, <3>3
  <2>8. CASE Grown
    <3>0. scratch'[at].set = TRUE
      BY <1>1, <2>8, <2>10
    <3>1. Hip!Owned' = Hip!Owned \cup {b}
      <4>1. CASE at = "input"
        BY <1>8, <2>1, <2>3, <3>0, <4>1, HipOwned
      <4>2. CASE at = "output"
        BY <1>8, <2>1, <2>3, <3>0, <4>2, HipOwned
      <4> QED BY <1>1, <4>1, <4>2
    <3>2. ~misused'
      BY <2>11, <2>8
    <3> QED BY <1>3, <2>8, <3>1, <3>2
  <2>9. CASE Gone
    <3>0. scratch'[at].set = FALSE
      BY <1>1, <2>9, <2>10 DEF Hip!Null
    <3>1. Hip!Owned' = Hip!Owned \ {b}
      <4>1. CASE at = "input"
        BY <1>8, <2>1, <2>2, <2>3, <3>0, <4>1, HipOwned
      <4>2. CASE at = "output"
        BY <1>8, <2>1, <2>2, <2>3, <3>0, <4>2, HipOwned
      <4> QED BY <1>1, <4>1, <4>2
    <3>2. ~misused'
      BY <2>11, <2>9
    <3> QED BY <1>3, <2>9, <3>1, <3>2
  <2> QED BY <1>2, <2>6, <2>7, <2>8, <2>9
<1>13. failed' \in BOOLEAN /\ (failed => failed') /\ (leaked' # {} => failed')
       /\ (at' = "weight" => ~failed')
  <2> HIDE DEF Bad, b, old
  <2>1. CASE Large
    BY <1>1, <1>3, <2>1
  <2>2. CASE Stuck
    BY <1>1, <2>2
  <2>3. CASE Gone
    BY <1>1, <2>3
  <2>4. CASE Grown
    BY <1>1, <1>3, <2>4
  <2> QED BY <1>2, <2>1, <2>2, <2>3, <2>4
<1> HIDE DEF b, old, Bad, Large, Stuck, Gone, Grown
<1>14. HipTyped'
  BY <1>1, <1>7, <1>13 DEF HipInv, HipTyped, Hip!Buffers
<1>15. HipLife'
  BY <1>1, <1>3 DEF HipInv, HipLife
<1>16. HipBudget'
  <2>1. CASE at' = "output"
    <3>1. Hip!Want("input")' = Hip!Want("input") /\ Hip!Want("output")' = Hip!Want("output")
      BY <1>4, <1>5, <1>6, <1>10, <2>1 DEF Hip!Want
    <3>2. bytes' + Hip!Want("input")' + Hip!Want("output")' <= limit'
      BY <1>1, <1>3, <3>1
    <3> QED BY <2>1, <3>2 DEF HipBudget, Hip!Buffers
  <2>2. CASE at' # "output"
    <3>1. bytes + scratch'["input"].bytes + scratch'["output"].bytes <= limit
      BY <1>3, <1>4, <1>5, <1>9
    <3>2. bytes' + Hip!Scratch' <= limit'
      BY <1>1, <1>4, <1>9, <3>1 DEF Hip!Scratch
    <3> QED BY <1>1, <2>2, <3>2 DEF HipBudget, Hip!Buffers
  <2> QED BY <2>1, <2>2
<1>17. HipProduct'
  <2>1. at' = "weight" => Hip!Fits'
    <3>1. ASSUME at' = "weight"
          PROVE  /\ scratch'["input"].bytes >= Hip!Needed("input")'
                 /\ scratch'["output"].bytes >= Hip!Needed("output")'
      BY <1>3, <1>5, <1>6, <1>11, <3>1
    <3> QED BY <3>1 DEF Hip!Fits, Hip!Buffers
  <2>2. at' = "output" => scratch'["input"].bytes >= Hip!Needed("input")'
    BY <1>5, <1>6, <1>10
  <2>3. result' = -1 /\ at' \in {"done", "output", "weight"}
    BY <1>1, <1>3
  <2> QED BY <1>13, <2>1, <2>2, <2>3 DEF HipProduct
<1>18. HipMemory'
  <2>1. Upload' = {} /\ pending' = {}
    BY <1>1, <1>3 DEF Upload
  <2>2. at' \in Hip!Buffers => \A name \in Hip!Buffers : Hip!Buffer(name) \notin leaked'
    BY <1>3, <1>12 DEF Hip!Buffers, Hip!Buffer
  <2>3. at' # "allocate"
    BY <1>1
  <2> QED BY <1>12, <1>13, <2>1, <2>2, <2>3 DEF HipMemory
<1> QED BY <1>14, <1>15, <1>16, <1>17, <1>18 DEF HipInv

LEMMA HipFindWeight ==
  ASSUME HipInv, NEW bad \in SUBSET held, Hip!FindWeight(bad)
  PROVE  HipInv'
<1> DEFINE size == Hip!WeightBytes(matrix)
<1>1. /\ at = "weight"
      /\ UNCHANGED <<life, stream, device, limit, matrix, scratch, result>>
  BY DEF Hip!FindWeight, Hip!rest
<1>2. ~failed /\ failed \in BOOLEAN /\ stream /\ life \in {"making", "ready"} /\ result = -1
      /\ pending = {} /\ leaked = {} /\ Upload = {} /\ bytes + Hip!Scratch <= limit
      /\ Hip!Fits /\ Counted(Entries, list, bytes) /\ matrix \in Fitting /\ limit \in Nat
  BY <1>1 DEF HipInv, HipLife, HipProduct, HipMemory, HipTyped, Upload, HipBudget, Hip!Buffers
<1>3. /\ Hip!Scratch' = Hip!Scratch /\ (Hip!Fits' <=> Hip!Fits)
      /\ Hip!Weight' = Hip!Weight /\ Hip!WeightBytes(matrix)' = size
  BY <1>1 DEF Hip!Scratch, Hip!Fits, Hip!Needed, Hip!Weight
<1>4. CASE Cache!Cached(list, Hip!Weight)
  <2>1. /\ list' = Cache!Found(list, Hip!Weight) /\ at' = "upload"
        /\ UNCHANGED <<bytes, held, pending, leaked, misused, failed>>
    BY <1>1, <1>4, HipCache DEF Hip!FindWeight, Hip!Go, Hip!memory
  <2>2. Counted(Entries, list', bytes') /\ Cache!Keys(list') = Cache!Keys(list)
    BY <1>2, <1>4, <2>1, CountedFound
  <2>3. Hip!Owned' = Hip!Owned
    <3>1. \A x : x \in Hip!Owned' <=> \/ x \in Cache!Keys(list')
                                      \/ scratch["input"].set /\ x = <<"input">>
                                      \/ scratch["output"].set /\ x = <<"output">>
      BY <1>1, HipCache DEF Hip!Owned, Hip!Buffers, Hip!Buffer
    <3> QED BY <2>2, <3>1, HipOwned
  <2>4. Hip!Weight' \in Cache!Keys(list')
    BY <1>3, <1>4, <2>2, CachedIsKey
  <2>5. HipTyped'
    BY <1>1, <2>1, <2>2 DEF HipInv, HipTyped
  <2>6. HipLife'
    BY <1>1, <1>2, <2>1 DEF HipInv, HipLife
  <2>7. HipBudget'
    BY <1>1, <1>2, <1>3, <2>1 DEF HipBudget, Hip!Buffers
  <2>8. HipProduct'
    BY <1>1, <1>2, <1>3, <2>1, <2>4 DEF HipProduct
  <2>9. HipMemory'
    BY <1>1, <1>2, <2>1, <2>3 DEF HipInv, HipMemory, Upload, Hip!Buffers
  <2> QED BY <2>5, <2>6, <2>7, <2>8, <2>9 DEF HipInv
<1>5. CASE ~Cache!Cached(list, Hip!Weight) /\ ~Hip!MayReserve(limit, size, Hip!Scratch)
  <2>1. HipKeeps /\ at' = "done" /\ failed' = TRUE /\ UNCHANGED <<held, pending, leaked, misused>>
    BY <1>1, <1>5, HipCache DEF Hip!FindWeight, Hip!Go, HipKeeps, Hip!memory, Hip!Checked
  <2> USE HipSame DEF HipKeeps, HipInv
  <2>2. HipTyped'
    BY <1>1, <2>1 DEF HipTyped
  <2>3. HipLife'
    BY <1>1, <2>1 DEF HipLife
  <2>4. HipBudget'
    BY <1>1, <2>1 DEF HipBudget, Hip!Buffers
  <2>5. HipProduct'
    BY <1>1, <1>2, <2>1 DEF HipProduct
  <2>6. HipMemory'
    BY <1>1, <1>2, <2>1 DEF HipMemory, Upload, Hip!Buffers
  <2> QED BY <2>2, <2>3, <2>4, <2>5, <2>6
<1>6. CASE ~Cache!Cached(list, Hip!Weight) /\ Hip!MayReserve(limit, size, Hip!Scratch)
  <2>1. Hip!Evict(size, Hip!Scratch, bad) /\ at' = "allocate"
    BY <1>1, <1>6, HipCache DEF Hip!FindWeight, Hip!Go
  <2>2. size \in Nat /\ Hip!Scratch \in Nat
    <3>1. scratch["input"].bytes \in Nat /\ scratch["output"].bytes \in Nat
      BY DEF HipInv, HipTyped, Hip!Buffers
    <3> QED BY <1>2, <3>1, FittingSizes DEF Hip!Scratch
  <2> HIDE DEF size
  <2>3. /\ Counted(Entries, list, bytes)' /\ bytes' + size + Hip!Scratch <= limit
        /\ Cache!Keys(list') \subseteq Cache!Keys(list)
        /\ Hip!Owned' \subseteq held' /\ held' \subseteq Hip!Owned' \cup leaked'
        /\ leaked' \subseteq leaked \cup Cache!Keys(list)
        /\ ~misused' /\ pending' = {} /\ failed' \in BOOLEAN /\ (leaked' # {} => failed')
    BY <1>1, <1>2, <1>6, <2>1, <2>2, HipEvict
  <2>4. bytes' \in Nat
    BY <2>3, CountedSized
  <2>5. Hip!Weight \notin Cache!Keys(list)
    BY <1>6, CachedIsKey
  <2>6. HipTyped'
    BY <1>1, <2>1, <2>3 DEF HipInv, HipTyped
  <2>7. HipLife'
    BY <1>1, <1>2, <2>1 DEF HipInv, HipLife
  <2>8. HipBudget'
    <3>1. limit' = limit /\ Hip!Weight' \notin Cache!Keys(list')
      BY <1>1, <1>3, <2>3, <2>5
    <3>2. bytes' + size + Hip!Scratch <= limit
      BY <2>3
    <3>3. bytes' + Hip!Scratch <= limit
      <4>1. \A w, x, y, z \in Nat : w + x + y <= z => w + y <= z
        OBVIOUS
      <4> QED BY <1>2, <2>2, <2>4, <3>2, <4>1
    <3> QED BY <1>3, <2>1, <3>1, <3>2, <3>3 DEF HipBudget, Hip!Buffers
  <2>9. HipProduct'
    BY <1>1, <1>2, <1>3, <2>1 DEF HipProduct
  <2>10. HipMemory'
    <3>1. Hip!Weight' \notin leaked'
      BY <1>2, <1>3, <2>3, <2>5
    <3>2. Upload' = {}
      BY <2>1 DEF Upload
    <3> QED BY <2>1, <2>3, <3>1, <3>2 DEF HipMemory, Hip!Buffers
  <2> QED BY <2>6, <2>7, <2>8, <2>9, <2>10 DEF HipInv
<1> QED BY <1>4, <1>5, <1>6

LEMMA HipFinishWeight ==
  ASSUME HipInv, NEW ok \in BOOLEAN, Hip!FinishWeight(ok)
  PROVE  HipInv'
<1> DEFINE size == Hip!WeightBytes(matrix)
           entry == [key |-> Hip!Weight, bytes |-> size]
<1>1. /\ at = "finish" /\ failed' = (failed \/ ~ok)
      /\ UNCHANGED <<life, stream, device, limit, matrix, scratch, result, leaked, misused>>
  BY DEF Hip!FinishWeight, Hip!rest, Hip!Checked
<1>2. /\ failed \in BOOLEAN /\ stream /\ life \in {"making", "ready"} /\ result = -1
      /\ Hip!Fits /\ Counted(Entries, list, bytes) /\ matrix \in Fitting /\ limit \in Nat
      /\ bytes + size + Hip!Scratch <= limit /\ Hip!Weight \notin Cache!Keys(list)
      /\ ~misused /\ (leaked # {} => failed)
      /\ Hip!Owned \cup Upload \subseteq held /\ held \subseteq Hip!Owned \cup Upload \cup leaked
  BY <1>1 DEF HipInv, HipLife, HipProduct, HipMemory, HipTyped, HipBudget
<1>3. Upload = {Hip!Weight} \cup Hip!Staging /\ Upload \subseteq {Hip!Weight, Hip!Host}
  BY <1>1 DEF Upload, Hip!Staging
<1>4. CASE ~ok
  <2>1. HipKeeps /\ at' = "drop" /\ failed' = TRUE /\ UNCHANGED <<held, pending>>
    BY <1>1, <1>4 DEF Hip!FinishWeight, Hip!Go, HipKeeps
  <2> USE HipSame DEF HipKeeps, HipInv
  <2>2. HipTyped'
    BY <1>1, <2>1 DEF HipTyped
  <2>3. HipLife'
    BY <1>1, <2>1 DEF HipLife
  <2>4. HipBudget'
    BY <1>1, <2>1 DEF HipBudget, Hip!Buffers
  <2>5. HipProduct'
    BY <1>1, <2>1 DEF HipProduct
  <2>6. HipMemory'
    BY <1>1, <2>1 DEF HipMemory, Upload, Hip!Buffers
  <2> QED BY <2>2, <2>3, <2>4, <2>5, <2>6
<1>5. CASE ok
  <2>1. /\ list' = <<entry>> \o list /\ bytes' = bytes + size /\ failed' = failed
        /\ held' = held \ {Hip!Host} /\ pending' = {}
        /\ at' = IF failed THEN "done" ELSE "upload"
    BY <1>1, <1>2, <1>5 DEF Hip!FinishWeight, Hip!Go
  <2>2. entry \in Entries /\ entry.key = Hip!Weight /\ entry.bytes = size
    BY <1>2, WeightEntry DEF Hip!Weight
  <2> HIDE DEF entry
  <2>3. /\ Counted(Entries, list', bytes')
        /\ Cache!Keys(list') = Cache!Keys(list) \cup {Hip!Weight}
    BY <1>2, <2>1, <2>2, CountedFront
  <2>4. Hip!Owned' = Hip!Owned \cup {Hip!Weight}
    <3>1. \A x : x \in Hip!Owned' <=> \/ x \in Cache!Keys(list')
                                      \/ scratch["input"].set /\ x = <<"input">>
                                      \/ scratch["output"].set /\ x = <<"output">>
      BY <1>1, HipCache DEF Hip!Owned, Hip!Buffers, Hip!Buffer
    <3> QED BY <2>3, <3>1, HipOwned
  <2>5. Hip!Scratch' = Hip!Scratch /\ (Hip!Fits' <=> Hip!Fits) /\ Hip!Weight' = Hip!Weight
    BY <1>1 DEF Hip!Scratch, Hip!Fits, Hip!Needed, Hip!Weight
  <2>6. Hip!Host \notin Hip!Owned'
    <3>1. Hip!Host = <<"expanded">> /\ Hip!Host \notin Cache!Keys(list')
      BY <2>3, KeysAreNoNames DEF Hip!Host
    <3>2. Hip!Host \notin Hip!Owned /\ Hip!Host # Hip!Weight
      BY <2>3, <3>1, HipOwned
    <3> QED BY <2>4, <3>2
  <2>7. HipTyped'
    BY <1>1, <2>1, <2>3 DEF HipInv, HipTyped
  <2>8. HipLife'
    BY <1>1, <1>2, <2>1 DEF HipInv, HipLife
  <2>9. HipBudget'
    <3>1. bytes' + Hip!Scratch' <= limit'
      BY <1>1, <1>2, <2>1, <2>5
    <3> QED BY <2>1, <3>1 DEF HipBudget, Hip!Buffers
  <2>10. HipProduct'
    <3>1. Hip!Weight' \in Cache!Keys(list')
      BY <2>3, <2>5
    <3> QED BY <1>1, <1>2, <2>1, <2>5, <3>1 DEF HipProduct
  <2>11. HipMemory'
    <3>1. Upload' = {}
      BY <2>1 DEF Upload
    <3>2. Hip!Owned' \subseteq held'
      BY <1>2, <1>3, <2>1, <2>4, <2>6
    <3>3. held' \subseteq Hip!Owned' \cup leaked'
      BY <1>1, <1>2, <1>3, <2>1, <2>4
    <3> QED BY <1>1, <1>2, <2>1, <3>1, <3>2, <3>3 DEF HipMemory, Hip!Buffers
  <2> QED BY <2>7, <2>8, <2>9, <2>10, <2>11 DEF HipInv
<1> QED BY <1>4, <1>5

LEMMA HipNext == HipInv /\ [Hip!Next]_(Hip!vars) => HipInv'
<1> SUFFICES ASSUME HipInv, [Hip!Next]_(Hip!vars) PROVE HipInv'
  OBVIOUS
<1>1. CASE Hip!Creating
  BY <1>1, HipOpen, HipProbed, HipSetup DEF Hip!Creating
<1>2. CASE Hip!Multiplying
  BY <1>2, HipBegin, HipEnter, HipAllocateWeight, HipSubmit, HipFinishWeight, HipDropWeight,
     HipReserveScratch, HipFindWeight, HipDestroy, HipGrow, HipDone, HipReturned DEF Hip!Multiplying
<1>3. CASE UNCHANGED Hip!vars
  <2>1. UNCHANGED <<life, stream, list, bytes, limit, scratch, failed, at, matrix, result, device,
                    held, pending, leaked, misused>>
    BY <1>3 DEF Hip!vars, Hip!cache, Hip!memory
  <2>2. HipKeeps
    BY <2>1 DEF HipKeeps
  <2> USE HipSame DEF HipKeeps, HipInv
  <2>3. HipTyped'
    BY <2>1 DEF HipTyped
  <2>4. HipLife'
    BY <2>1 DEF HipLife
  <2>5. HipBudget'
    BY <2>1 DEF HipBudget, Hip!Buffers
  <2>6. HipProduct'
    BY <2>1 DEF HipProduct
  <2>7. HipMemory'
    BY <2>1 DEF HipMemory, Upload, Hip!Buffers
  <2> QED BY <2>3, <2>4, <2>5, <2>6, <2>7
<1> QED BY <1>1, <1>2, <1>3 DEF Hip!Next

LEMMA HipInvExact == HipInv => Hip!RocmIsExact
<1> SUFFICES ASSUME HipInv PROVE Hip!RocmIsExact
  OBVIOUS
<1>1. Hip!CacheIsExact(list, bytes, limit, Hip!Scratch)
  <2>1. Counted(Entries, list, bytes)
    BY DEF HipInv, HipTyped
  <2>2. bytes = Cache!Total(list) /\ Cardinality(Cache!Keys(list)) = Len(list)
    BY <2>1, CountedKeys DEF Counted
  <2>3. bytes + Hip!Scratch <= limit
    <3>1. CASE at \notin Hip!Buffers
      BY <3>1 DEF HipInv, HipBudget
    <3>2. CASE at \in Hip!Buffers
      <4>1. bytes + Hip!Want("input") + Hip!Want("output") <= limit
        BY <3>2 DEF HipInv, HipBudget
      <4>2. /\ bytes \in Nat /\ limit \in Nat
            /\ scratch["input"].bytes \in Nat /\ scratch["output"].bytes \in Nat
            /\ matrix \in Fitting
        BY <2>1, CountedSized DEF HipInv, HipTyped, Hip!Buffers
      <4>3. Hip!Needed("input") \in Nat /\ Hip!Needed("output") \in Nat
        BY <4>2, FittingSizes DEF Hip!Needed
      <4>4. /\ Hip!Want("input") >= scratch["input"].bytes /\ Hip!Want("input") \in Nat
            /\ Hip!Want("output") >= scratch["output"].bytes /\ Hip!Want("output") \in Nat
        BY <4>2, <4>3 DEF Hip!Want
      <4> QED BY <4>1, <4>2, <4>4 DEF Hip!Scratch
    <3> QED BY <3>1, <3>2
  <2>4. Hip!Total(list) = Cache!Total(list) /\ Hip!Keys(list) = Cache!Keys(list)
    BY HipCache
  <2>5. Hip!Cardinality(Cache!Keys(list)) = Cardinality(Cache!Keys(list))
    BY Zenon DEF Hip!Cardinality, Cardinality
  <2> QED BY <2>2, <2>3, <2>4, <2>5 DEF Hip!CacheIsExact
<1>2. ~misused /\ (leaked # {} => failed)
  BY DEF HipInv, HipMemory
<1>3. at = "idle" => held \ leaked = Hip!Owned \ leaked
  BY DEF HipInv, HipMemory, Upload
<1>4. at = "idle" /\ (~failed \/ life = "gone") => pending = {}
  BY DEF HipInv, HipMemory, HipLife
<1>5. ASSUME at = "returned", result = 0
      PROVE  ~failed /\ device = "caller" /\ Hip!Fits /\ Hip!Cached(list, Hip!Weight)
  BY <1>5, HipCache, CachedIsKey DEF HipInv, HipProduct
<1> QED BY <1>1, <1>2, <1>3, <1>4, <1>5 DEF Hip!RocmIsExact

(* Whatever call of the driver fails, and however products, evictions and  *)
(* failures mix: device memory is never freed twice or while submitted     *)
(* work may use it, nothing is lost but what the driver refused to free,   *)
(* the cache and the scratch buffers stay within the budget, and a product *)
(* that is reported as computed had no failure (nya_rocm_matmul,           *)
(* nya_rocm_destroy).                                                      *)
THEOREM RocmMemoryIsExact == EngineSpec => []RocmIsExact
<1> DEFINE Inv == driven = "hip" => HipInv
<1>1. EngineInit => Inv
  BY HipInitInv DEF EngineInit
<1>2. Inv /\ [EngineNext]_every => Inv'
  <2> SUFFICES ASSUME Inv, [EngineNext]_every, (driven = "hip")' PROVE HipInv'
    OBVIOUS
  <2>1. driven = "hip" /\ [Hip!Next]_(Hip!vars)
    BY DEF EngineNext, every, hip, cache, Hip!vars, Hip!cache, Hip!memory
  <2> QED BY <2>1, HipNext
<1>3. Inv => RocmIsExact
  BY HipInvExact DEF RocmIsExact
<1> QED BY <1>1, <1>2, <1>3, PTL DEF EngineSpec

-----------------------------------------------------------------------------
(* The MLX library                                                         *)

\* Both backends count and compare matrices in the same way.
LEMMA MlxCache ==
  /\ \A l : Metal!Keys(l) = Cache!Keys(l) /\ Metal!Total(l) = Cache!Total(l)
  /\ \A l, k : (Metal!Cached(l, k) <=> Cache!Cached(l, k)) /\ Metal!Found(l, k) = Cache!Found(l, k)
  /\ \A l, b, r : Metal!Kept(l, b, r) = Cache!Kept(l, b, r)
<1>1. \A l : Metal!Keys(l) = Cache!Keys(l)
  BY DEF Metal!Keys, Cache!Keys
<1>2. \A l : Metal!Total(l) = Cache!Total(l)
  BY DEF Metal!Total, Cache!Total
<1>3. \A l, k : Metal!Cached(l, k) <=> Cache!Cached(l, k)
  BY DEF Metal!Cached, Cache!Cached, Metal!Position, Cache!Position
<1>4. \A l, k : Metal!Found(l, k) = Cache!Found(l, k)
  BY DEF Metal!Found, Cache!Found, Metal!Position, Cache!Position, Metal!RemoveAt, Cache!RemoveAt
<1>5. \A l, b, r : Metal!Kept(l, b, r) = Cache!Kept(l, b, r)
  BY DEF Metal!Kept, Cache!Kept
<1> QED BY <1>1, <1>2, <1>3, <1>4, <1>5

LEMMA MlxMatrices ==
  /\ \A m : Metal!MatrixFits(m) <=> Hip!MatrixFits(m)
  /\ \A m : Metal!Key(m) = Hip!Key(m) /\ Metal!WeightBytes(m) = Hip!WeightBytes(m)
  /\ \A m : Metal!InputBytes(m) = Hip!InputBytes(m) /\ Metal!OutputBytes(m) = Hip!OutputBytes(m)
  /\ \A available, wanted : Metal!Budget(available, wanted) = Hip!Budget(available, wanted)
<1>1. \A m : Metal!MatrixFits(m) <=> Hip!MatrixFits(m)
  BY DEF Metal!MatrixFits, Hip!MatrixFits
<1>2. \A m : Metal!Key(m) = Hip!Key(m) /\ Metal!WeightBytes(m) = Hip!WeightBytes(m)
  BY DEF Metal!Key, Hip!Key, Metal!WeightBytes, Hip!WeightBytes
<1>3. \A m : Metal!InputBytes(m) = Hip!InputBytes(m) /\ Metal!OutputBytes(m) = Hip!OutputBytes(m)
  BY DEF Metal!InputBytes, Hip!InputBytes, Metal!OutputBytes, Hip!OutputBytes
<1>4. \A available, wanted : Metal!Budget(available, wanted) = Hip!Budget(available, wanted)
  BY DEF Metal!Budget, Hip!Budget
<1> QED BY <1>1, <1>2, <1>3, <1>4

WeightSteps  == {"a", "t", "packed", "evaluate"}
ProductSteps == {"input", "result", "host", "finish"}

MlxTyped ==
  /\ life \in {"none", "making", "ready", "gone"} /\ failed \in BOOLEAN
  /\ limit \in Nat /\ Counted(Entries, list, bytes)
  /\ matrix \in Fitting /\ result \in {0, -1}
  /\ at \in {"idle", "setup", "destroy", "reserve", "find", "make", "keep", "drop", "release",
             "returned"} \cup WeightSteps \cup ProductSteps

\* The context holds its reference from its creation to its destruction.
MlxLife ==
  /\ others \in Nat /\ acquired \in BOOLEAN /\ library \in BOOLEAN
  /\ references = others + (IF acquired THEN 1 ELSE 0)
  /\ library <=> references > 0
  /\ at \notin {"idle", "destroy"} => acquired
  /\ at # "idle" => life \in {"making", "ready"}
  /\ life = "ready" => acquired
  /\ life \in {"none", "gone"} => ~acquired
  /\ life = "none" \/ at = "setup" => list = <<>> /\ bytes = 0

\* The room that was made is still there when it is used.
MlxBudget ==
  /\ bytes <= limit
  /\ at \in {"find"} \cup ProductSteps => bytes + Metal!Scratch <= limit
  /\ at \in {"make", "keep"} \cup WeightSteps =>
       /\ bytes + Metal!WeightBytes(matrix) + Metal!Scratch <= limit
       /\ Metal!Weight \notin Cache!Keys(list)
  /\ at \in ProductSteps => Metal!Weight \in Cache!Keys(list)

\* What is held is in the cache or in a local variable of the product.
MlxArrays ==
  /\ ~misused
  /\ held = Cache!Keys(list) \cup arrays
  /\ \A x \in arrays : \E name : x = <<name>>
  /\ at \in {"idle", "setup", "destroy", "reserve", "find", "make", "returned"} => arrays = {}
  /\ at \in {"find", "make", "keep", "drop"} \cup WeightSteps \cup ProductSteps => result = -1
  /\ at = "returned" /\ result = 0 => ~failed

MlxInv == MlxTyped /\ MlxLife /\ MlxBudget /\ MlxArrays

LEMMA MlxSame ==
  ASSUME list' = list, matrix' = matrix
  PROVE  /\ Metal!Scratch' = Metal!Scratch /\ Metal!Weight' = Metal!Weight
         /\ Metal!WeightBytes(matrix)' = Metal!WeightBytes(matrix)
         /\ Cache!Keys(list)' = Cache!Keys(list)
         /\ (Counted(Entries, list, bytes) /\ bytes' = bytes) => Counted(Entries, list, bytes)'
  BY DEF Metal!Scratch, Metal!Weight

LEMMA MlxSizes ==
  ASSUME MlxTyped
  PROVE  /\ Metal!Scratch \in Nat /\ Metal!WeightBytes(matrix) \in Nat
         /\ bytes \in Nat /\ limit \in Nat
<1>1. matrix \in Fitting /\ Counted(Entries, list, bytes) /\ limit \in Nat
  BY DEF MlxTyped
<1>2. /\ Metal!WeightBytes(matrix) \in Nat
      /\ Metal!InputBytes(matrix) \in Nat /\ Metal!OutputBytes(matrix) \in Nat
  BY <1>1, FittingSizes, MlxMatrices
<1>3. Metal!InputBytes(matrix) + 2 * Metal!OutputBytes(matrix) \in Nat
  BY <1>2
<1> QED BY <1>1, <1>2, <1>3, CountedSized DEF Metal!Scratch

\* Who has a reference finds the library loaded.
LEMMA MlxLoaded == ASSUME MlxLife, acquired PROVE library /\ references > 0
<1>1. references = others + 1 /\ others \in Nat /\ (library <=> references > 0)
  BY DEF MlxLife
<1> QED BY <1>1

\* The weight is no local variable, and no local variable is in the cache.
LEMMA MlxNames ==
  ASSUME MlxInv
  PROVE  Metal!Weight \notin arrays /\ arrays \cap Cache!Keys(list) = {}
<1>1. \A x \in arrays : \E name : x = <<name>>
  BY DEF MlxInv, MlxArrays
<1>2. \A name : <<name>> \notin Cache!Keys(list)
  BY KeysAreNoNames DEF MlxInv, MlxTyped
<1>3. \A name : Metal!Weight # <<name>>
  BY KeyIsNoName, MlxMatrices DEF Metal!Weight
<1> QED BY <1>1, <1>2, <1>3

LEMMA MlxInitInv == Metal!Init => MlxInv
<1> SUFFICES ASSUME Metal!Init PROVE MlxInv
  OBVIOUS
<1>1. /\ references = 0 /\ library = FALSE /\ others = 0
      /\ acquired = FALSE /\ life = "none" /\ failed = FALSE
      /\ list = <<>> /\ bytes = 0 /\ limit = 0
      /\ at = "idle" /\ matrix = Probe /\ result = -1
      /\ arrays = {} /\ held = {} /\ misused = FALSE
  BY DEF Metal!Init
<1>2. Counted(Entries, <<>>, 0) /\ Cache!Keys(<<>>) = {}
  BY CountedEmpty, EntriesCount
<1>3. MlxTyped
  BY <1>1, <1>2, ProbeFits DEF MlxTyped
<1>4. MlxLife
  <2>1. ~acquired /\ acquired \in BOOLEAN /\ ~library /\ library \in BOOLEAN
    BY <1>1
  <2>2. references = others + 0 /\ ~(references > 0) /\ others \in Nat
    BY <1>1
  <2> QED BY <1>1, <2>1, <2>2 DEF MlxLife
<1>5. MlxBudget
  BY <1>1 DEF MlxBudget, ProductSteps, WeightSteps
<1>6. MlxArrays
  BY <1>1, <1>2 DEF MlxArrays, ProductSteps, WeightSteps
<1> QED BY <1>3, <1>4, <1>5, <1>6 DEF MlxInv

\* Steps that leave the cache, and those that leave the references, as they are.
MlxKeeps == UNCHANGED <<list, bytes, limit, matrix>>
MlxUsers == UNCHANGED <<references, library, others, acquired>>

LEMMA MlxOtherCreates ==
  ASSUME MlxInv, NEW p, NEW ok \in BOOLEAN, Metal!OtherCreates(p, ok)
  PROVE  MlxInv'
<1>1. MlxKeeps /\ UNCHANGED <<acquired, life, failed, at, result, arrays, held, misused>>
  BY DEF Metal!OtherCreates, MlxKeeps, Metal!context, Metal!cache, Metal!run
<1>2. references' = references + 1 /\ library' = TRUE /\ others' = others + 1
  BY DEF Metal!OtherCreates, Metal!Acquire
<1> USE MlxSame DEF MlxKeeps, MlxInv
<1>3. MlxTyped'
  BY <1>1 DEF MlxTyped
<1>4. MlxLife'
  BY <1>1, <1>2 DEF MlxLife
<1>5. MlxBudget'
  BY <1>1 DEF MlxBudget
<1>6. MlxArrays'
  BY <1>1 DEF MlxArrays
<1> QED BY <1>3, <1>4, <1>5, <1>6

LEMMA MlxOtherDestroys == ASSUME MlxInv, Metal!OtherDestroys PROVE MlxInv'
<1>1. MlxKeeps /\ UNCHANGED <<acquired, life, failed, at, result, arrays, held>>
  BY DEF Metal!OtherDestroys, MlxKeeps, Metal!context, Metal!cache, Metal!run
<1>2. others > 0 /\ references' = references - 1
      /\ library' \in BOOLEAN /\ (library' <=> references > 1)
      /\ others' = others - 1 /\ misused' = (misused \/ ~library)
  <2>1. library' = (references > 1)
    BY DEF Metal!OtherDestroys, Metal!Relinquish
  <2>2. (references > 1) \in BOOLEAN
    BY SMT
  <2>3. library' \in BOOLEAN /\ (library' <=> references > 1)
    BY <2>1, <2>2, Zenon
  <2> QED BY <2>3 DEF Metal!OtherDestroys, Metal!Relinquish
<1>3. /\ others \in Nat /\ acquired \in BOOLEAN /\ (library <=> references > 0)
      /\ references = others + (IF acquired THEN 1 ELSE 0)
  BY DEF MlxInv, MlxLife
<1> USE MlxSame DEF MlxKeeps, MlxInv
<1>4. MlxTyped'
  BY <1>1 DEF MlxTyped
<1>5. MlxLife'
  <2>1. references' = others' + (IF acquired THEN 1 ELSE 0) /\ others' \in Nat
        /\ (library' <=> references' > 0) /\ library' \in BOOLEAN
    BY <1>2, <1>3
  <2> QED BY <1>1, <2>1 DEF MlxLife
<1>6. MlxBudget'
  BY <1>1 DEF MlxBudget
<1>7. MlxArrays'
  <2>1. library
    BY <1>2, <1>3
  <2> QED BY <1>1, <1>2, <2>1 DEF MlxArrays
<1> QED BY <1>4, <1>5, <1>6, <1>7

LEMMA MlxCreate ==
  ASSUME MlxInv, NEW p, NEW ok \in BOOLEAN, Metal!Create(p, ok)
  PROVE  MlxInv'
<1>1. MlxKeeps /\ UNCHANGED <<others, failed, result, arrays, held, misused>>
  BY DEF Metal!Create, MlxKeeps, Metal!cache
<1>2. /\ life = "none" /\ life' = "making"
      /\ \/ references' = references + 1 /\ library' = TRUE /\ acquired' = TRUE /\ at' = "setup"
         \/ UNCHANGED <<references, library, acquired>> /\ at' = "destroy"
  BY DEF Metal!Create, Metal!Acquire, Metal!Go
<1>3. at = "idle" /\ acquired = FALSE /\ list = <<>> /\ bytes = 0
  BY <1>2 DEF MlxInv, MlxLife
<1> USE MlxSame DEF MlxKeeps, MlxInv
<1>4. MlxTyped'
  BY <1>1, <1>2 DEF MlxTyped
<1>5. MlxLife'
  <2>1. others \in Nat /\ references = others /\ library \in BOOLEAN /\ (library <=> references > 0)
        /\ life' \in {"making", "ready"} /\ life' # "none"
    BY <1>2, <1>3 DEF MlxLife
  <2>2. CASE references' = references + 1 /\ library' = TRUE /\ acquired' = TRUE /\ at' = "setup"
    <3>1. acquired' /\ acquired' \in BOOLEAN /\ library' /\ library' \in BOOLEAN
          /\ references' = others' + 1 /\ references' > 0
      BY <1>1, <2>1, <2>2
    <3> QED BY <1>1, <1>3, <2>1, <2>2, <3>1 DEF MlxLife
  <2>3. CASE UNCHANGED <<references, library, acquired>> /\ at' = "destroy"
    <3>1. ~acquired' /\ acquired' \in BOOLEAN /\ references' = others' + 0
      <4>1. ~acquired' /\ acquired' \in BOOLEAN
        BY <1>3, <2>3
      <4>2. references' = others' + 0
        BY <1>1, <2>1, <2>3
      <4> QED BY <4>1, <4>2
    <3> QED BY <1>1, <1>2, <2>1, <2>3, <3>1 DEF MlxLife
  <2> QED BY <1>2, <2>2, <2>3
<1>6. MlxBudget'
  BY <1>1, <1>2 DEF MlxBudget, ProductSteps, WeightSteps
<1>7. MlxArrays'
  BY <1>1, <1>2, <1>3 DEF MlxArrays, ProductSteps, WeightSteps
<1> QED BY <1>4, <1>5, <1>6, <1>7

LEMMA MlxSetup ==
  ASSUME MlxInv, NEW made, NEW available \in Memory, NEW wanted \in Wanted, NEW ok \in BOOLEAN,
         Metal!Setup(made, available, wanted, ok)
  PROVE  MlxInv'
<1>1. MlxUsers /\ UNCHANGED <<life, list, bytes, matrix, result, arrays, held>>
  BY DEF Metal!Setup, MlxUsers, Metal!module
<1>2. /\ at = "setup" /\ failed' = (failed \/ ~ok) /\ limit' \in Nat
      /\ at' \in {"reserve", "destroy"} /\ misused' = (misused \/ ~library)
  <2>1. Metal!Budget(available, wanted) \in Nat
    BY BudgetType, MlxMatrices
  <2> QED BY <2>1 DEF Metal!Setup, Metal!Checked, Metal!Go
<1>3. acquired /\ library /\ list = <<>> /\ bytes = 0 /\ life \in {"making", "ready"}
  BY <1>2, MlxLoaded DEF MlxInv, MlxLife
<1> USE MlxSame DEF MlxInv, MlxUsers
<1>4. MlxTyped'
  BY <1>1, <1>2 DEF MlxTyped
<1>5. MlxLife'
  BY <1>1, <1>2, <1>3 DEF MlxLife
<1>6. MlxBudget'
  BY <1>1, <1>2, <1>3 DEF MlxBudget, ProductSteps, WeightSteps
<1>7. MlxArrays'
  BY <1>1, <1>2, <1>3 DEF MlxArrays, ProductSteps, WeightSteps
<1> QED BY <1>4, <1>5, <1>6, <1>7

LEMMA MlxProbed == ASSUME MlxInv, NEW right \in BOOLEAN, Metal!Probed(right) PROVE MlxInv'
<1>1. MlxKeeps /\ MlxUsers /\ UNCHANGED <<failed, result, arrays, held, misused>>
  BY DEF Metal!Probed, MlxKeeps, MlxUsers, Metal!cache, Metal!module
<1>2. /\ life = "making" /\ at = "returned"
      /\ \/ life' = "ready" /\ at' = "idle"
         \/ life' = life /\ at' = "destroy"
  BY DEF Metal!Probed, Metal!Go
<1> USE MlxSame DEF MlxKeeps, MlxUsers, MlxInv
<1>3. MlxTyped'
  BY <1>1, <1>2 DEF MlxTyped
<1>4. MlxLife'
  BY <1>1, <1>2 DEF MlxLife
<1>5. MlxBudget'
  BY <1>1, <1>2 DEF MlxBudget, ProductSteps, WeightSteps
<1>6. MlxArrays'
  BY <1>1, <1>2 DEF MlxArrays, ProductSteps, WeightSteps
<1> QED BY <1>3, <1>4, <1>5, <1>6

LEMMA MlxDestroy == ASSUME MlxInv, NEW ok \in BOOLEAN, Metal!Destroy(ok) PROVE MlxInv'
<1>1. /\ at = "destroy" \/ (life = "ready" /\ at = "idle")
      /\ life' = "gone" /\ at' = "idle" /\ acquired' = FALSE
      /\ UNCHANGED <<others, limit, matrix, result, arrays>>
  BY DEF Metal!Destroy, Metal!Go
<1>2. /\ others \in Nat /\ acquired \in BOOLEAN /\ library \in BOOLEAN /\ (library <=> references > 0)
      /\ references = others + (IF acquired THEN 1 ELSE 0)
      /\ arrays = {} /\ held = Cache!Keys(list) /\ ~misused /\ bytes <= limit /\ failed \in BOOLEAN
  BY <1>1 DEF MlxInv, MlxLife, MlxArrays, MlxBudget, MlxTyped
<1>3. limit \in Nat /\ ~acquired' /\ acquired' \in BOOLEAN
  BY <1>1 DEF MlxInv, MlxTyped
<1>4. CASE acquired
  <2>1. /\ references' = references - 1
        /\ library' \in BOOLEAN /\ (library' <=> references > 1)
        /\ held' = held \ Cache!Keys(list)
        /\ misused' = (misused \/ ~library \/ ~(Cache!Keys(list) \subseteq held))
        /\ failed' = (failed \/ ~ok)
        /\ list' = <<>> /\ bytes' = 0
    <3>1. library' = (references > 1)
      BY <1>4 DEF Metal!Destroy, Metal!Relinquish
    <3>2. (references > 1) \in BOOLEAN
      BY SMT
    <3>3. library' \in BOOLEAN /\ (library' <=> references > 1)
      BY <3>1, <3>2, Zenon
    <3> QED BY <1>4, <3>3, MlxCache DEF Metal!Destroy, Metal!Relinquish, Metal!Checked
  <2>2. Counted(Entries, <<>>, 0) /\ Cache!Keys(<<>>) = {}
    BY CountedEmpty, EntriesCount
  <2>3. MlxTyped'
    BY <1>1, <1>2, <2>1, <2>2 DEF MlxInv, MlxTyped
  <2>4. MlxLife'
    <3>1. references' = others' + 0 /\ others' \in Nat /\ (library' <=> references' > 0)
      BY <1>1, <1>2, <1>4, <2>1
    <3> QED BY <1>1, <1>3, <2>1, <3>1 DEF MlxLife
  <2>5. MlxBudget'
    BY <1>1, <1>3, <2>1 DEF MlxBudget, ProductSteps, WeightSteps
  <2>6. MlxArrays'
    <3>1. library
      BY <1>2, <1>4
    <3> QED BY <1>1, <1>2, <2>1, <2>2, <3>1 DEF MlxArrays, ProductSteps, WeightSteps
  <2> QED BY <2>3, <2>4, <2>5, <2>6 DEF MlxInv
<1>5. CASE ~acquired
  <2>1. UNCHANGED <<references, library, failed, list, bytes, held, misused>>
    BY <1>5 DEF Metal!Destroy
  <2> USE MlxSame DEF MlxInv
  <2>2. MlxTyped'
    BY <1>1, <2>1 DEF MlxTyped
  <2>3. MlxLife'
    <3>1. references' = others' + 0 /\ others' \in Nat
      BY <1>1, <1>2, <1>5, <2>1
    <3> QED BY <1>1, <1>2, <1>3, <2>1, <3>1 DEF MlxLife
  <2>4. MlxBudget'
    BY <1>1, <1>2, <2>1 DEF MlxBudget, ProductSteps, WeightSteps
  <2>5. MlxArrays'
    BY <1>1, <1>2, <2>1 DEF MlxArrays, ProductSteps, WeightSteps
  <2> QED BY <2>2, <2>3, <2>4, <2>5
<1> QED BY <1>2, <1>4, <1>5

LEMMA MlxBegin == ASSUME MlxInv, NEW m \in Matrices, Metal!Begin(m) PROVE MlxInv'
<1>1. MlxUsers /\ UNCHANGED <<life, failed, list, bytes, limit, arrays, held, misused>>
  BY DEF Metal!Begin, MlxUsers, Metal!module, Metal!context, Metal!cache
<1>2. /\ life = "ready" /\ at = "idle" /\ matrix' = m /\ result' = -1 /\ at' = "reserve"
      /\ m \in Fitting
  BY MlxMatrices DEF Metal!Begin, Metal!Go, Fitting
<1> USE DEF MlxUsers, MlxInv
<1>3. MlxTyped'
  BY <1>1, <1>2 DEF MlxTyped
<1>4. MlxLife'
  BY <1>1, <1>2 DEF MlxLife
<1>5. MlxBudget'
  BY <1>1, <1>2 DEF MlxBudget, ProductSteps, WeightSteps
<1>6. MlxArrays'
  BY <1>1, <1>2 DEF MlxArrays, ProductSteps, WeightSteps
<1> QED BY <1>3, <1>4, <1>5, <1>6

\* What making room leaves: the rest of the list, still held, within the room.
LEMMA MlxEvict ==
  ASSUME MlxInv, NEW wanted \in Nat, acquired, arrays = {}, Metal!MayReserve(limit, wanted, Metal!Scratch),
         LET kept == Metal!Kept(list, bytes, Metal!Room(limit, wanted, Metal!Scratch))
         IN  /\ Metal!Release(Metal!Keys(list) \ Metal!Keys(kept.list))
             /\ list' = kept.list /\ bytes' = kept.bytes
  PROVE  /\ Counted(Entries, list', bytes') /\ bytes' \in Nat
         /\ bytes' + wanted + Metal!Scratch <= limit
         /\ Cache!Keys(list') \subseteq Cache!Keys(list)
         /\ held' = Cache!Keys(list') /\ ~misused'
<1> DEFINE room == limit - Metal!Scratch - wanted
           kept == Cache!Kept(list, bytes, room)
<1>1. Counted(Entries, list, bytes) /\ limit \in Nat /\ Metal!Scratch \in Nat
  BY MlxSizes DEF MlxInv, MlxTyped
<1>2. room \in Nat
  BY <1>1 DEF Metal!MayReserve
<1>3. /\ list' = kept.list /\ bytes' = kept.bytes
      /\ held' = held \ (Cache!Keys(list) \ Cache!Keys(kept.list))
      /\ misused' = (misused \/ ~library \/ ~(Cache!Keys(list) \ Cache!Keys(kept.list) \subseteq held))
  BY MlxCache DEF Metal!Release, Metal!Room
<1> HIDE DEF room
<1>4. /\ Counted(Entries, kept.list, kept.bytes) /\ kept.bytes <= room
      /\ Cache!Keys(kept.list) \subseteq Cache!Keys(list)
  BY <1>1, <1>2, CountedKept
<1>5. kept.bytes \in Nat
  BY <1>4, CountedSized
<1> HIDE DEF kept
<1>6. bytes' + wanted + Metal!Scratch <= limit
  BY <1>1, <1>3, <1>4, <1>5 DEF room
<1>7. held = Cache!Keys(list) /\ ~misused /\ library
  BY MlxLoaded DEF MlxInv, MlxArrays
<1> QED BY <1>3, <1>4, <1>5, <1>6, <1>7

LEMMA MlxReserve == ASSUME MlxInv, NEW ok \in BOOLEAN, Metal!Reserve(ok) PROVE MlxInv'
<1>1. /\ at = "reserve" /\ result' = -1 /\ failed' \in BOOLEAN
      /\ MlxUsers /\ UNCHANGED <<life, matrix, arrays>>
  <2>1. failed \in BOOLEAN
    BY DEF MlxInv, MlxTyped
  <2> QED BY <2>1 DEF Metal!Reserve, Metal!Checked, MlxUsers, Metal!module
<1>2. acquired /\ arrays = {} /\ life \in {"making", "ready"}
  BY <1>1 DEF MlxInv, MlxLife, MlxArrays
<1>3. \/ at' = "returned" /\ UNCHANGED <<list, bytes, limit, held, misused>>
      \/ /\ Metal!MayReserve(limit, 0, Metal!Scratch) /\ at' = "find" /\ limit' = limit
         /\ LET kept == Metal!Kept(list, bytes, Metal!Room(limit, 0, Metal!Scratch))
            IN  /\ Metal!Release(Metal!Keys(list) \ Metal!Keys(kept.list))
                /\ list' = kept.list /\ bytes' = kept.bytes
  BY DEF Metal!Reserve, Metal!Go, Metal!cache
<1>4. MlxLife'
  BY <1>1, <1>2, <1>3 DEF MlxInv, MlxLife, MlxUsers
<1>5. CASE at' = "returned" /\ UNCHANGED <<list, bytes, limit, held, misused>>
  <2> USE MlxSame DEF MlxInv
  <2>1. MlxTyped'
    BY <1>1, <1>5 DEF MlxTyped
  <2>2. MlxBudget'
    BY <1>1, <1>5 DEF MlxBudget, ProductSteps, WeightSteps
  <2>3. MlxArrays'
    BY <1>1, <1>2, <1>5 DEF MlxArrays, ProductSteps, WeightSteps
  <2> QED BY <1>4, <2>1, <2>2, <2>3
<1>6. CASE at' # "returned"
  <2>1. at' = "find" /\ limit' = limit
    BY <1>3, <1>6
  <2>2. /\ Counted(Entries, list', bytes') /\ bytes' \in Nat
        /\ bytes' + 0 + Metal!Scratch <= limit
        /\ Cache!Keys(list') \subseteq Cache!Keys(list)
        /\ held' = Cache!Keys(list') /\ ~misused'
    BY <1>2, <1>3, <1>6, MlxEvict
  <2>3. MlxTyped'
    BY <1>1, <2>1, <2>2 DEF MlxInv, MlxTyped
  <2>4. MlxBudget'
    <3>1. Metal!Scratch' = Metal!Scratch /\ Metal!Scratch \in Nat /\ limit \in Nat
      BY <1>1, MlxSizes DEF MlxInv, Metal!Scratch
    <3>2. \A x, y, z \in Nat : x + 0 + y <= z => x <= z /\ x + y <= z
      OBVIOUS
    <3>3. bytes' <= limit' /\ bytes' + Metal!Scratch' <= limit'
      BY <2>1, <2>2, <3>1, <3>2
    <3> QED BY <2>1, <3>3 DEF MlxBudget, ProductSteps, WeightSteps
  <2>5. MlxArrays'
    BY <1>1, <1>2, <2>1, <2>2 DEF MlxArrays, ProductSteps, WeightSteps
  <2> QED BY <1>4, <2>3, <2>4, <2>5 DEF MlxInv
<1> QED BY <1>3, <1>5, <1>6

LEMMA MlxFind == ASSUME MlxInv, NEW ok \in BOOLEAN, Metal!Find(ok) PROVE MlxInv'
<1> DEFINE size == Metal!WeightBytes(matrix)
<1>1. /\ at = "find" /\ failed' \in BOOLEAN
      /\ MlxUsers /\ UNCHANGED <<life, matrix, arrays, result>>
  <2>1. failed \in BOOLEAN
    BY DEF MlxInv, MlxTyped
  <2> QED BY <2>1 DEF Metal!Find, Metal!Checked, MlxUsers, Metal!module
<1>2. acquired /\ arrays = {} /\ life \in {"making", "ready"} /\ result = -1
      /\ bytes + Metal!Scratch <= limit /\ Counted(Entries, list, bytes) /\ bytes <= limit
  BY <1>1 DEF MlxInv, MlxLife, MlxArrays, MlxBudget, MlxTyped, ProductSteps
<1>3. \/ /\ Cache!Cached(list, Metal!Weight) /\ list' = Cache!Found(list, Metal!Weight)
         /\ at' \in {"returned", "input"} /\ UNCHANGED <<bytes, limit, held, misused>>
      \/ at' = "returned" /\ UNCHANGED <<list, bytes, limit, held, misused>>
      \/ /\ ~Cache!Cached(list, Metal!Weight)
         /\ Metal!MayReserve(limit, size, Metal!Scratch) /\ at' = "make" /\ limit' = limit
         /\ LET kept == Metal!Kept(list, bytes, Metal!Room(limit, size, Metal!Scratch))
            IN  /\ Metal!Release(Metal!Keys(list) \ Metal!Keys(kept.list))
                /\ list' = kept.list /\ bytes' = kept.bytes
  BY MlxCache DEF Metal!Find, Metal!Go, Metal!cache
<1>4. MlxLife'
  BY <1>1, <1>2, <1>3 DEF MlxInv, MlxLife, MlxUsers
<1>5. Metal!Scratch' = Metal!Scratch /\ Metal!Weight' = Metal!Weight /\ Metal!WeightBytes(matrix)' = size
  BY <1>1 DEF Metal!Scratch, Metal!Weight
<1>6. CASE /\ Cache!Cached(list, Metal!Weight) /\ list' = Cache!Found(list, Metal!Weight)
           /\ at' \in {"returned", "input"} /\ UNCHANGED <<bytes, limit, held, misused>>
  <2>1. Counted(Entries, list', bytes') /\ Cache!Keys(list') = Cache!Keys(list)
    BY <1>2, <1>6, CountedFound
  <2>2. Metal!Weight' \in Cache!Keys(list')
    BY <1>5, <1>6, <2>1, CachedIsKey
  <2>3. MlxTyped'
    BY <1>1, <1>6, <2>1 DEF MlxInv, MlxTyped, ProductSteps
  <2>4. MlxBudget'
    BY <1>2, <1>5, <1>6, <2>2 DEF MlxBudget, ProductSteps, WeightSteps
  <2>5. MlxArrays'
    BY <1>1, <1>2, <1>6, <2>1 DEF MlxInv, MlxArrays, ProductSteps, WeightSteps
  <2> QED BY <1>4, <2>3, <2>4, <2>5 DEF MlxInv
<1>7. CASE at' = "returned" /\ UNCHANGED <<list, bytes, limit, held, misused>>
  <2> USE MlxSame DEF MlxInv
  <2>1. MlxTyped'
    BY <1>1, <1>7 DEF MlxTyped
  <2>2. MlxBudget'
    BY <1>2, <1>7 DEF MlxBudget, ProductSteps, WeightSteps
  <2>3. MlxArrays'
    BY <1>1, <1>2, <1>7 DEF MlxArrays, ProductSteps, WeightSteps
  <2> QED BY <1>4, <2>1, <2>2, <2>3
<1>8. CASE /\ ~Cache!Cached(list, Metal!Weight)
           /\ Metal!MayReserve(limit, size, Metal!Scratch) /\ at' = "make" /\ limit' = limit
           /\ LET kept == Metal!Kept(list, bytes, Metal!Room(limit, size, Metal!Scratch))
              IN  /\ Metal!Release(Metal!Keys(list) \ Metal!Keys(kept.list))
                  /\ list' = kept.list /\ bytes' = kept.bytes
  <2>1. size \in Nat /\ Metal!Scratch \in Nat /\ limit \in Nat
    BY MlxSizes DEF MlxInv
  <2> HIDE DEF size
  <2>2. /\ Counted(Entries, list', bytes') /\ bytes' \in Nat
        /\ bytes' + size + Metal!Scratch <= limit
        /\ Cache!Keys(list') \subseteq Cache!Keys(list)
        /\ held' = Cache!Keys(list') /\ ~misused'
    BY <1>2, <1>8, <2>1, MlxEvict
  <2>3. Metal!Weight' \notin Cache!Keys(list')
    BY <1>5, <1>8, <2>2, CachedIsKey
  <2>4. MlxTyped'
    BY <1>1, <1>8, <2>2 DEF MlxInv, MlxTyped
  <2>5. MlxBudget'
    <3>1. \A w, x, y, z \in Nat : x + w + y <= z => x <= z
      OBVIOUS
    <3>2. bytes' <= limit
      BY <2>1, <2>2, <3>1
    <3> QED BY <1>5, <1>8, <2>2, <2>3, <3>2 DEF MlxBudget, ProductSteps, WeightSteps
  <2>6. MlxArrays'
    BY <1>1, <1>2, <1>8, <2>2 DEF MlxArrays, ProductSteps, WeightSteps
  <2> QED BY <1>4, <2>4, <2>5, <2>6 DEF MlxInv
<1> QED BY <1>3, <1>6, <1>7, <1>8

LEMMA MlxAllocateWeight == ASSUME MlxInv, NEW ok \in BOOLEAN, Metal!AllocateWeight(ok) PROVE MlxInv'
<1>1. MlxKeeps /\ MlxUsers /\ UNCHANGED <<life, result, arrays, held, misused>>
  BY DEF Metal!AllocateWeight, MlxKeeps, MlxUsers, Metal!cache, Metal!module
<1>2. at = "make" /\ failed' = (failed \/ ~ok) /\ at' \in {"a", "returned"}
  BY DEF Metal!AllocateWeight, Metal!Checked, Metal!Go
<1> USE MlxSame DEF MlxKeeps, MlxUsers, MlxInv
<1>3. MlxTyped'
  BY <1>1, <1>2 DEF MlxTyped, WeightSteps
<1>4. MlxLife'
  BY <1>1, <1>2 DEF MlxLife
<1>5. MlxBudget'
  BY <1>1, <1>2 DEF MlxBudget, ProductSteps, WeightSteps
<1>6. MlxArrays'
  BY <1>1, <1>2 DEF MlxArrays, ProductSteps, WeightSteps
<1> QED BY <1>3, <1>4, <1>5, <1>6

\* The order of the calls.
LEMMA MlxChains ==
  /\ Metal!Range(Metal!WeightChain) = WeightSteps
  /\ Metal!Range(Metal!ProductChain) = ProductSteps
<1>1. DOMAIN Metal!WeightChain = 1 .. 4 /\ DOMAIN Metal!ProductChain = 1 .. 4
  BY DEF Metal!WeightChain, Metal!ProductChain
<1>2. /\ Metal!WeightChain[1] = "a" /\ Metal!WeightChain[2] = "t"
      /\ Metal!WeightChain[3] = "packed" /\ Metal!WeightChain[4] = "evaluate"
  BY DEF Metal!WeightChain
<1>3. /\ Metal!ProductChain[1] = "input" /\ Metal!ProductChain[2] = "result"
      /\ Metal!ProductChain[3] = "host" /\ Metal!ProductChain[4] = "finish"
  BY DEF Metal!ProductChain
<1>4. \A i \in 1 .. 4 : i = 1 \/ i = 2 \/ i = 3 \/ i = 4
  OBVIOUS
<1> QED BY <1>1, <1>2, <1>3, <1>4 DEF Metal!Range, WeightSteps, ProductSteps

LEMMA MlxAfter ==
  /\ at \in WeightSteps =>
       /\ Metal!Chain = Metal!WeightChain /\ Metal!Ends = "evaluate"
       /\ Metal!After \in WeightSteps \cup {"keep"}
  /\ at \in ProductSteps =>
       /\ Metal!Chain = Metal!ProductChain /\ Metal!Ends = "finish"
       /\ IF at = "finish" THEN Metal!After = "release" ELSE Metal!After \in ProductSteps
<1>1. /\ Metal!WeightChain[1] = "a" /\ Metal!WeightChain[2] = "t"
      /\ Metal!WeightChain[3] = "packed" /\ Metal!WeightChain[4] = "evaluate"
  BY DEF Metal!WeightChain
<1>2. /\ Metal!ProductChain[1] = "input" /\ Metal!ProductChain[2] = "result"
      /\ Metal!ProductChain[3] = "host" /\ Metal!ProductChain[4] = "finish"
  BY DEF Metal!ProductChain
<1>3. ASSUME at \in WeightSteps
      PROVE  /\ Metal!Chain = Metal!WeightChain /\ Metal!Ends = "evaluate"
             /\ Metal!After \in WeightSteps \cup {"keep"}
  <2>1. Metal!Chain = Metal!WeightChain
    BY <1>3, MlxChains DEF Metal!Chain
  <2>2. Metal!Ends = "evaluate"
    BY <1>1, <2>1 DEF Metal!Ends
  <2>3. CASE at = "evaluate"
    BY <2>1, <2>2, <2>3 DEF Metal!After
  <2>4. CASE at # "evaluate"
    <3> DEFINE i == CHOOSE j \in 1 .. 3 : Metal!WeightChain[j] = at
    <3>1. \E j \in 1 .. 3 : Metal!WeightChain[j] = at
      <4>1. 1 \in 1 .. 3 /\ 2 \in 1 .. 3 /\ 3 \in 1 .. 3
        OBVIOUS
      <4> QED BY <1>1, <1>3, <2>4, <4>1 DEF WeightSteps
    <3>2. i \in 1 .. 3
      BY <3>1
    <3>3. Metal!After = Metal!WeightChain[1 + i]
      BY <2>1, <2>2, <2>4 DEF Metal!After
    <3> HIDE DEF i
    <3>4. Metal!After = "t" \/ Metal!After = "packed" \/ Metal!After = "evaluate"
      <4>1. i = 1 \/ i = 2 \/ i = 3
        BY <3>2
      <4> QED BY <1>1, <3>3, <4>1
    <3> QED BY <2>1, <2>2, <3>4 DEF WeightSteps
  <2> QED BY <2>1, <2>2, <2>3, <2>4
<1>4. ASSUME at \in ProductSteps
      PROVE  /\ Metal!Chain = Metal!ProductChain /\ Metal!Ends = "finish"
             /\ IF at = "finish" THEN Metal!After = "release" ELSE Metal!After \in ProductSteps
  <2>1. Metal!Chain = Metal!ProductChain
    BY <1>4, MlxChains DEF Metal!Chain, WeightSteps, ProductSteps
  <2>2. Metal!Ends = "finish"
    BY <1>2, <2>1 DEF Metal!Ends
  <2>3. CASE at = "finish"
    BY <2>1, <2>2, <2>3 DEF Metal!After
  <2>4. CASE at # "finish"
    <3> DEFINE i == CHOOSE j \in 1 .. 3 : Metal!ProductChain[j] = at
    <3>1. \E j \in 1 .. 3 : Metal!ProductChain[j] = at
      <4>1. 1 \in 1 .. 3 /\ 2 \in 1 .. 3 /\ 3 \in 1 .. 3
        OBVIOUS
      <4> QED BY <1>2, <1>4, <2>4, <4>1 DEF ProductSteps
    <3>2. i \in 1 .. 3
      BY <3>1
    <3>3. Metal!After = Metal!ProductChain[1 + i]
      BY <2>1, <2>2, <2>4 DEF Metal!After
    <3> HIDE DEF i
    <3>4. Metal!After = "result" \/ Metal!After = "host" \/ Metal!After = "finish"
      <4>1. i = 1 \/ i = 2 \/ i = 3
        BY <3>2
      <4> QED BY <1>2, <3>3, <4>1
    <3> QED BY <2>1, <2>2, <2>4, <3>4 DEF ProductSteps
  <2> QED BY <2>1, <2>2, <2>3, <2>4
<1> QED BY <1>3, <1>4

LEMMA MlxCall ==
  ASSUME MlxInv, NEW ok \in BOOLEAN, NEW made \in BOOLEAN, Metal!Call(ok, made)
  PROVE  MlxInv'
<1> DEFINE new == IF made /\ at # Metal!Ends THEN Metal!Local({at}) ELSE {}
<1>1. MlxKeeps /\ MlxUsers /\ life' = life
  BY DEF Metal!Call, MlxKeeps, MlxUsers, Metal!cache, Metal!module
<1>2. /\ at \in WeightSteps \cup ProductSteps
      /\ arrays' = arrays \cup new /\ held' = held \cup new
      /\ misused' = (misused \/ ~library \/ ~(Metal!Uses \subseteq held))
      /\ failed' = (failed \/ ~ok)
      /\ result' = IF ok /\ at = "finish" THEN 0 ELSE result
  BY MlxChains DEF Metal!Call, Metal!Checked
<1>3. at' = IF ok THEN Metal!After
            ELSE IF Metal!Chain = Metal!WeightChain THEN "drop" ELSE "release"
  BY DEF Metal!Call, Metal!Go
<1>4. Metal!WeightChain # Metal!ProductChain
  BY DEF Metal!WeightChain, Metal!ProductChain
<1>5. /\ at \in WeightSteps => at' \in WeightSteps \cup {"keep", "drop"} /\ result' = result
      /\ at \in ProductSteps => at' \in ProductSteps \cup {"release"}
      /\ at' \in ProductSteps => result' = result
  <2>1. CASE at \in WeightSteps
    BY <1>2, <1>3, <2>1, MlxAfter DEF WeightSteps, ProductSteps
  <2>2. CASE at \in ProductSteps
    BY <1>2, <1>3, <1>4, <2>2, MlxAfter DEF WeightSteps, ProductSteps
  <2> QED BY <1>2, <2>1, <2>2
<1>6. library /\ acquired /\ life \in {"making", "ready"} /\ result = -1
  <2>1. acquired
    BY <1>2 DEF MlxInv, MlxLife, WeightSteps, ProductSteps
  <2> QED BY <1>2, <2>1, MlxLoaded DEF MlxInv, MlxLife, MlxArrays, WeightSteps, ProductSteps
<1>7. Metal!Uses \subseteq held
  <2>1. held = Cache!Keys(list) \cup arrays
    BY DEF MlxInv, MlxArrays
  <2>2. Metal!Chain = Metal!ProductChain => Metal!Weight \in Cache!Keys(list)
    BY <1>2, <1>4, MlxAfter DEF MlxInv, MlxBudget
  <2> QED BY <2>1, <2>2 DEF Metal!Uses
<1>8. \A x \in arrays' : \E name : x = <<name>>
  <2>1. \A x \in arrays : \E name : x = <<name>>
    BY DEF MlxInv, MlxArrays
  <2>2. \A x \in new : x = <<at>>
    BY DEF Metal!Local
  <2> HIDE DEF new
  <2> QED BY <1>2, <2>1, <2>2
<1> HIDE DEF new
<1> USE MlxSame DEF MlxKeeps, MlxUsers, MlxInv
<1>9. MlxTyped'
  BY <1>1, <1>2, <1>5 DEF MlxTyped
<1>10. MlxLife'
  <2>1. at' \notin {"idle", "destroy", "setup"}
    BY <1>2, <1>5 DEF WeightSteps, ProductSteps
  <2> QED BY <1>1, <1>6, <2>1 DEF MlxLife
<1>11. MlxBudget'
  <2>1. CASE at \in WeightSteps
    BY <1>1, <1>5, <2>1 DEF MlxBudget, ProductSteps, WeightSteps
  <2>2. CASE at \in ProductSteps
    BY <1>1, <1>5, <2>2 DEF MlxBudget, ProductSteps, WeightSteps
  <2> QED BY <1>2, <2>1, <2>2
<1>12. MlxArrays'
  <2>1. ~misused' /\ held' = Cache!Keys(list') \cup arrays'
    BY <1>1, <1>2, <1>6, <1>7 DEF MlxArrays
  <2>2. at' \notin {"idle", "setup", "destroy", "reserve", "find", "make", "returned"}
    BY <1>2, <1>5 DEF WeightSteps, ProductSteps
  <2>3. at' # "release" => result' = -1
    <3>1. CASE at \in WeightSteps
      BY <1>5, <1>6, <3>1
    <3>2. CASE at \in ProductSteps
      BY <1>5, <1>6, <3>2
    <3> QED BY <1>2, <3>1, <3>2
  <2> QED BY <1>8, <2>1, <2>2, <2>3 DEF MlxArrays, WeightSteps, ProductSteps
<1> QED BY <1>9, <1>10, <1>11, <1>12

LEMMA MlxKeepWeight == ASSUME MlxInv, NEW ok \in BOOLEAN, Metal!KeepWeight(ok) PROVE MlxInv'
<1> DEFINE size == Metal!WeightBytes(matrix)
           entry == [key |-> Metal!Weight, bytes |-> size]
<1>1. /\ at = "keep" /\ failed' = (failed \/ ~ok) /\ arrays' = {}
      /\ misused' = (misused \/ ~library \/ ~(arrays \subseteq held) \/ Metal!Weight \in held)
      /\ MlxUsers /\ UNCHANGED <<life, limit, matrix, result>>
  BY DEF Metal!KeepWeight, Metal!Checked, MlxUsers, Metal!module
<1>2. \/ /\ list' = <<entry>> \o list /\ bytes' = bytes + size
         /\ held' = (held \ arrays) \cup {Metal!Weight} /\ at' = "input"
      \/ UNCHANGED <<list, bytes>> /\ held' = held \ arrays /\ at' = "returned"
  BY DEF Metal!KeepWeight, Metal!Go
<1>3. /\ acquired /\ life \in {"making", "ready"} /\ result = -1
      /\ bytes + size + Metal!Scratch <= limit /\ Metal!Weight \notin Cache!Keys(list)
      /\ Counted(Entries, list, bytes) /\ ~misused /\ held = Cache!Keys(list) \cup arrays
      /\ matrix \in Fitting /\ failed \in BOOLEAN
  BY <1>1 DEF MlxInv, MlxLife, MlxArrays, MlxBudget, MlxTyped
<1>4. /\ library /\ size \in Nat /\ Metal!Scratch \in Nat /\ bytes \in Nat /\ limit \in Nat
  BY <1>3, MlxLoaded, MlxSizes DEF MlxInv
<1>5. ~misused' /\ held \ arrays = Cache!Keys(list)
  BY <1>1, <1>3, <1>4, MlxNames
<1>6. MlxLife'
  BY <1>1, <1>2, <1>3 DEF MlxInv, MlxLife, MlxUsers
<1>7. CASE UNCHANGED <<list, bytes>> /\ held' = held \ arrays /\ at' = "returned"
  <2> USE MlxSame DEF MlxInv
  <2>1. MlxTyped'
    BY <1>1, <1>7 DEF MlxTyped
  <2>2. MlxBudget'
    BY <1>1, <1>7 DEF MlxBudget, ProductSteps, WeightSteps
  <2>3. MlxArrays'
    BY <1>1, <1>3, <1>5, <1>7 DEF MlxArrays, ProductSteps, WeightSteps
  <2> QED BY <1>6, <2>1, <2>2, <2>3
<1>8. CASE /\ list' = <<entry>> \o list /\ bytes' = bytes + size
           /\ held' = (held \ arrays) \cup {Metal!Weight} /\ at' = "input"
  <2>1. entry \in Entries /\ entry.key = Metal!Weight /\ entry.bytes = size
    BY <1>3, WeightEntry, MlxMatrices DEF Metal!Weight
  <2> HIDE DEF entry, size
  <2>2. /\ Counted(Entries, list', bytes')
        /\ Cache!Keys(list') = Cache!Keys(list) \cup {Metal!Weight}
    BY <1>3, <1>8, <2>1, CountedFront
  <2>3. MlxTyped'
    BY <1>1, <1>8, <2>2 DEF MlxInv, MlxTyped, ProductSteps
  <2>4. MlxBudget'
    <3>1. Metal!Scratch' = Metal!Scratch /\ Metal!Weight' = Metal!Weight
      BY <1>1 DEF Metal!Scratch, Metal!Weight
    <3>2. bytes' + Metal!Scratch <= limit /\ bytes' <= limit
      BY <1>3, <1>4, <1>8
    <3> QED BY <1>1, <1>8, <2>2, <3>1, <3>2 DEF MlxBudget, ProductSteps, WeightSteps
  <2>5. MlxArrays'
    BY <1>1, <1>3, <1>5, <1>8, <2>2 DEF MlxArrays, ProductSteps, WeightSteps
  <2> QED BY <1>6, <2>3, <2>4, <2>5 DEF MlxInv
<1> QED BY <1>2, <1>7, <1>8

LEMMA MlxDropWeight == ASSUME MlxInv, Metal!DropWeight PROVE MlxInv'
<1>1. MlxKeeps /\ MlxUsers /\ UNCHANGED <<life, result>>
  BY DEF Metal!DropWeight, MlxKeeps, MlxUsers, Metal!cache, Metal!module
<1>2. /\ at = "drop" /\ at' = "returned" /\ failed' = TRUE /\ arrays' = {}
      /\ held' = held \ arrays /\ misused' = (misused \/ ~library \/ ~(arrays \subseteq held))
  BY DEF Metal!DropWeight, Metal!Checked, Metal!Go, Metal!Release
<1>3. acquired /\ result = -1 /\ library
  BY <1>2, MlxLoaded DEF MlxInv, MlxLife, MlxArrays
<1>4. ~misused' /\ held' = Cache!Keys(list)
  BY <1>2, <1>3, MlxNames DEF MlxInv, MlxArrays
<1> USE MlxSame DEF MlxKeeps, MlxUsers, MlxInv
<1>5. MlxTyped'
  BY <1>1, <1>2 DEF MlxTyped
<1>6. MlxLife'
  BY <1>1, <1>2 DEF MlxLife
<1>7. MlxBudget'
  BY <1>1, <1>2 DEF MlxBudget, ProductSteps, WeightSteps
<1>8. MlxArrays'
  BY <1>1, <1>2, <1>3, <1>4 DEF MlxArrays, ProductSteps, WeightSteps
<1> QED BY <1>5, <1>6, <1>7, <1>8

LEMMA MlxReleaseArrays ==
  ASSUME MlxInv, NEW ok \in BOOLEAN, Metal!ReleaseArrays(ok)
  PROVE  MlxInv'
<1>1. MlxKeeps /\ MlxUsers /\ life' = life
  BY DEF Metal!ReleaseArrays, MlxKeeps, MlxUsers, Metal!cache, Metal!module
<1>2. /\ at = "release" /\ at' = "returned" /\ failed' = (failed \/ ~ok) /\ arrays' = {}
      /\ result' = IF ok /\ ~failed THEN result ELSE -1
      /\ held' = held \ arrays /\ misused' = (misused \/ ~library \/ ~(arrays \subseteq held))
  BY DEF Metal!ReleaseArrays, Metal!Checked, Metal!Go, Metal!Release
<1>3. acquired /\ library /\ failed \in BOOLEAN
  BY <1>2, MlxLoaded DEF MlxInv, MlxLife, MlxTyped
<1>4. ~misused' /\ held' = Cache!Keys(list)
  BY <1>2, <1>3, MlxNames DEF MlxInv, MlxArrays
<1> USE MlxSame DEF MlxKeeps, MlxUsers, MlxInv
<1>5. MlxTyped'
  BY <1>1, <1>2 DEF MlxTyped
<1>6. MlxLife'
  BY <1>1, <1>2 DEF MlxLife
<1>7. MlxBudget'
  BY <1>1, <1>2 DEF MlxBudget, ProductSteps, WeightSteps
<1>8. MlxArrays'
  BY <1>1, <1>2, <1>3, <1>4 DEF MlxArrays, ProductSteps, WeightSteps
<1> QED BY <1>5, <1>6, <1>7, <1>8

LEMMA MlxReturned == ASSUME MlxInv, Metal!Returned PROVE MlxInv'
<1>1. MlxKeeps /\ MlxUsers /\ UNCHANGED <<life, failed, result, arrays, held, misused>>
  BY DEF Metal!Returned, MlxKeeps, MlxUsers, Metal!cache, Metal!module, Metal!context
<1>2. life = "ready" /\ at = "returned" /\ at' = "idle"
  BY DEF Metal!Returned, Metal!Go
<1> USE MlxSame DEF MlxKeeps, MlxUsers, MlxInv
<1>3. MlxTyped'
  BY <1>1, <1>2 DEF MlxTyped
<1>4. MlxLife'
  BY <1>1, <1>2 DEF MlxLife
<1>5. MlxBudget'
  BY <1>1, <1>2 DEF MlxBudget, ProductSteps, WeightSteps
<1>6. MlxArrays'
  BY <1>1, <1>2 DEF MlxArrays, ProductSteps, WeightSteps
<1> QED BY <1>3, <1>4, <1>5, <1>6

LEMMA MlxNext == MlxInv /\ [Metal!Next]_(Metal!vars) => MlxInv'
<1> SUFFICES ASSUME MlxInv, [Metal!Next]_(Metal!vars) PROVE MlxInv'
  OBVIOUS
<1>1. CASE Metal!Sharing
  BY <1>1, MlxOtherCreates, MlxOtherDestroys, MlxCreate DEF Metal!Sharing
<1>2. CASE Metal!Making
  BY <1>2, MlxSetup, MlxProbed, MlxDestroy DEF Metal!Making
<1>3. CASE Metal!Multiplying
  BY <1>3, MlxBegin, MlxReserve, MlxFind, MlxAllocateWeight, MlxCall, MlxKeepWeight,
     MlxDropWeight, MlxReleaseArrays, MlxReturned DEF Metal!Multiplying
<1>4. CASE UNCHANGED Metal!vars
  <2>1. /\ MlxKeeps /\ MlxUsers
        /\ UNCHANGED <<life, failed, at, result, arrays, held, misused>>
    BY <1>4 DEF Metal!vars, Metal!module, Metal!context, Metal!cache, Metal!run, MlxKeeps, MlxUsers
  <2> USE MlxSame DEF MlxKeeps, MlxUsers, MlxInv
  <2>2. MlxTyped'
    BY <2>1 DEF MlxTyped
  <2>3. MlxLife'
    BY <2>1 DEF MlxLife
  <2>4. MlxBudget'
    BY <2>1 DEF MlxBudget
  <2>5. MlxArrays'
    BY <2>1 DEF MlxArrays
  <2> QED BY <2>2, <2>3, <2>4, <2>5
<1> QED BY <1>1, <1>2, <1>3, <1>4 DEF Metal!Next

LEMMA MlxInvExact == MlxInv => Metal!MlxIsExact
<1> SUFFICES ASSUME MlxInv PROVE Metal!MlxIsExact
  OBVIOUS
<1>1. Metal!CacheIsExact(list, bytes, limit, 0)
  <2>1. Counted(Entries, list, bytes)
    BY DEF MlxInv, MlxTyped
  <2>2. bytes = Cache!Total(list) /\ Cardinality(Cache!Keys(list)) = Len(list)
    BY <2>1, CountedKeys DEF Counted
  <2>3. bytes + 0 <= limit
    BY MlxSizes DEF MlxInv, MlxBudget
  <2>4. Metal!Total(list) = Cache!Total(list) /\ Metal!Keys(list) = Cache!Keys(list)
    BY MlxCache
  <2>5. Metal!Cardinality(Cache!Keys(list)) = Cardinality(Cache!Keys(list))
    BY Zenon DEF Metal!Cardinality, Cardinality
  <2> QED BY <2>2, <2>3, <2>4, <2>5 DEF Metal!CacheIsExact
<1>2. ~misused /\ references = others + (IF acquired THEN 1 ELSE 0)
  BY DEF MlxInv, MlxArrays, MlxLife
<1>3. library = (references > 0)
  <2>1. library \in BOOLEAN /\ (library <=> references > 0)
    BY DEF MlxInv, MlxLife
  <2>2. references \in Int
    BY DEF MlxInv, MlxLife
  <2> QED BY <2>1, <2>2, SMT
<1>4. at = "returned" /\ result = 0 => ~failed
  BY DEF MlxInv, MlxArrays
<1>5. ASSUME at \in Metal!Range(Metal!ProductChain)
      PROVE  bytes + Metal!Scratch <= limit /\ Metal!Cached(list, Metal!Weight)
  <2>1. at \in ProductSteps
    BY <1>5, MlxChains
  <2> QED BY <2>1, MlxCache, CachedIsKey DEF MlxInv, MlxBudget
<1>6. ASSUME at \in {"idle", "destroy"} PROVE held = Metal!Keys(list) /\ arrays = {}
  BY <1>6, MlxCache DEF MlxInv, MlxArrays
<1> QED BY <1>1, <1>2, <1>3, <1>4, <1>5, <1>6 DEF Metal!MlxIsExact

(* However contexts of several threads come and go and whatever call of    *)
(* MLX fails: the library stays loaded exactly while somebody holds a      *)
(* reference to it, every array is released once and none is used later,   *)
(* the cache and the results stay within the budget, and a product that is *)
(* reported as computed had no failure (nya_mlx_create, nya_mlx_matmul,    *)
(* nya_mlx_destroy).                                                       *)
THEOREM MlxLibraryIsExact == EngineSpec => []MlxIsExact
<1> DEFINE Inv == driven = "metal" => MlxInv
<1>1. EngineInit => Inv
  BY MlxInitInv DEF EngineInit
<1>2. Inv /\ [EngineNext]_every => Inv'
  <2> SUFFICES ASSUME Inv, [EngineNext]_every, (driven = "metal")' PROVE MlxInv'
    OBVIOUS
  <2>1. driven = "metal" /\ [Metal!Next]_(Metal!vars)
    BY DEF EngineNext, every, metal, cache, Metal!vars, Metal!module, Metal!context, Metal!cache,
           Metal!run
  <2> QED BY <2>1, MlxNext
<1>3. Inv => MlxIsExact
  BY MlxInvExact DEF MlxIsExact
<1> QED BY <1>1, <1>2, <1>3, PTL DEF EngineSpec

-----------------------------------------------------------------------------
(* Recursion along an interval, by a step that is a function.               *)

LEMMA RecursionExists ==
  ASSUME NEW n \in Nat, NEW F \in [(1 .. n) \X Int -> Int]
  PROVE  \E h \in [0 .. n -> Int] : h[0] = 1 /\ \A i \in 1 .. n : h[i] = F[<<i, h[i - 1]>>]
<1> DEFINE Solves(k, h) == h[0] = 1 /\ \A i \in 1 .. k : h[i] = F[<<i, h[i - 1]>>]
           Good(k) == \E h \in [0 .. k -> Int] : Solves(k, h)
           Bad == {k \in 0 .. n : ~Good(k)}
<1>1. Bad = {}
  <2> SUFFICES ASSUME Bad # {} PROVE FALSE
    OBVIOUS
  <2>1. Bad \subseteq Nat
    OBVIOUS
  <2>2. PICK k \in Bad : \A m \in Bad : k <= m
    <3> HIDE DEF Bad
    <3> QED BY <2>1, LeastElement
  <2>3. k \in 0 .. n /\ ~Good(k)
    OBVIOUS
  <2>4. CASE k = 0
    <3>1. [i \in 0 .. k |-> 1] \in [0 .. k -> Int] /\ [i \in 0 .. k |-> 1][0] = 1
          /\ 1 .. k = {}
      BY <2>4
    <3> QED BY <2>3, <3>1
  <2>5. CASE k # 0
    <3>1. k - 1 \in 0 .. n /\ k \in 1 .. n /\ ~(k <= k - 1)
      BY <2>3, <2>5
    <3>2. Good(k - 1)
      BY <2>2, <3>1
    <3>3. PICK h \in [0 .. k - 1 -> Int] : Solves(k - 1, h)
      BY <3>2
    <3>4. F[<<k, h[k - 1]>>] \in Int
      BY <3>1
    <3> DEFINE g == [i \in 0 .. k |-> IF i = k THEN F[<<k, h[k - 1]>>] ELSE h[i]]
    <3>5. g \in [0 .. k -> Int]
      <4>1. ASSUME NEW i \in 0 .. k PROVE g[i] \in Int
        <5>1. i # k => i \in 0 .. k - 1
          BY <3>1
        <5> QED BY <3>4, <5>1
      <4> QED BY <4>1
    <3>6. g[0] = 1
      BY <2>5, <3>1, <3>3
    <3>7. ASSUME NEW i \in 1 .. k PROVE g[i] = F[<<i, g[i - 1]>>]
      <4>1. CASE i = k
        <5>1. g[i] = F[<<k, h[k - 1]>>] /\ g[i - 1] = h[k - 1]
          BY <3>1, <4>1
        <5> QED BY <4>1, <5>1
      <4>2. CASE i # k
        <5>1. i \in 1 .. k - 1 /\ i - 1 \in 0 .. k /\ i - 1 # k /\ i \in 0 .. k
          BY <3>1, <4>2
        <5>2. g[i] = h[i] /\ g[i - 1] = h[i - 1]
          BY <4>2, <5>1
        <5> QED BY <3>3, <5>1, <5>2
      <4> QED BY <4>1, <4>2
    <3> HIDE DEF g
    <3>8. Good(k)
      BY <3>5, <3>6, <3>7
    <3> QED BY <2>3, <3>8
  <2> QED BY <2>4, <2>5
<1>2. Good(n)
  <2>1. n \in 0 .. n
    OBVIOUS
  <2> HIDE DEF Good
  <2> QED BY <1>1, <2>1
<1> QED BY <1>2

\* A shape is a sequence of integers; up[i] is what Elements makes of the
\* first i of them, vol[i] their product.
Counts(shape, up) ==
  /\ up \in [0 .. Len(shape) -> Int] /\ up[0] = 1
  /\ \A i \in 1 .. Len(shape) :
       up[i] = IF shape[i] <= 0 \/ up[i - 1] = 0 THEN 0
               ELSE IF up[i - 1] > MaxWord \div shape[i] THEN 0
               ELSE up[i - 1] * shape[i]

Products(shape, vol) ==
  /\ vol \in [0 .. Len(shape) -> Int] /\ vol[0] = 1
  /\ \A i \in 1 .. Len(shape) : vol[i] = vol[i - 1] * shape[i]

LEMMA VolumeIs ==
  ASSUME NEW shape \in Seq(Int)
  PROVE  \E vol : Products(shape, vol) /\ Tensor!Volume(shape) = vol[Len(shape)]
<1> DEFINE n == Len(shape)
           F == [x \in (1 .. n) \X Int |-> x[2] * shape[x[1]]]
           Body(h) == [i \in 0 .. n |-> IF i = 0 THEN 1 ELSE h[i - 1] * shape[i]]
           vol == CHOOSE h : h = Body(h)
<1>1. n \in Nat /\ \A i \in 1 .. n : shape[i] \in Int
  BY LenProperties, ElementOfSeq
<1>2. PICK h \in [0 .. n -> Int] : h[0] = 1 /\ \A i \in 1 .. n : h[i] = F[<<i, h[i - 1]>>]
  <2>1. F \in [(1 .. n) \X Int -> Int]
    BY <1>1
  <2>3. n \in Nat
    BY <1>1
  <2> HIDE DEF F, n
  <2> QED BY <2>1, <2>3, RecursionExists
<1>3. \A i \in 1 .. n : h[i - 1] \in Int /\ h[i] = h[i - 1] * shape[i]
  <2>1. \A i \in 1 .. n : i - 1 \in 0 .. n
    BY <1>1
  <2>2. \A i \in 1 .. n : h[i - 1] \in Int /\ <<i, h[i - 1]>> \in (1 .. n) \X Int
    BY <2>1
  <2>3. \A x \in (1 .. n) \X Int : F[x] = x[2] * shape[x[1]]
    OBVIOUS
  <2> HIDE DEF F
  <2> QED BY <1>2, <2>2, <2>3
<1>4. h = Body(h)
  <2>1. \A i \in 0 .. n : h[i] = Body(h)[i]
    <3>1. \A i \in 0 .. n : i = 0 \/ i \in 1 .. n
      BY <1>1
    <3> HIDE DEF n
    <3> QED BY <1>2, <1>3, <3>1
  <2> HIDE DEF n
  <2> QED BY <2>1
<1>5. vol = Body(vol)
  <2> HIDE DEF Body
  <2> QED BY <1>4
<1> HIDE DEF vol
<1>6. \A i \in 0 .. n : vol[i] = h[i]
  <2> HIDE DEF n
  <2>1. vol[0] = h[0] /\ \A i \in 1 .. n : vol[i] = vol[i - 1] * shape[i]
    <3>1. 0 \in 0 .. n /\ \A i \in 1 .. n : i \in 0 .. n /\ i # 0
      BY <1>1
    <3> QED BY <1>2, <1>5, <3>1
  <2>2. \A i \in 1 .. n : vol[i - 1] = h[i - 1] => vol[i] = h[i]
    BY <1>3, <2>1
  <2>3. n \in Nat
    BY <1>1
  <2>4. AgreeByStep(n, vol, h)
    BY <2>1, <2>2 DEF AgreeByStep
  <2>5. Agree(n, vol, h)
    BY <2>3, <2>4, SameByStep
  <2> QED BY <2>5 DEF Agree
<1>7. Tensor!Volume(shape) = vol[n] /\ n \in 0 .. n
  BY <1>1 DEF Tensor!Volume, vol
<1>8. Products(shape, h)
  BY <1>2, <1>3 DEF Products
<1> QED BY <1>6, <1>7, <1>8

LEMMA ElementsIs ==
  ASSUME NEW shape \in Seq(Int), MaxWord \in Nat
  PROVE  \E up : Counts(shape, up) /\ Tensor!Elements(shape) = up[Len(shape)]
<1> DEFINE n == Len(shape)
           Times(u, i) == IF shape[i] <= 0 \/ u = 0 THEN 0
                          ELSE IF u > MaxWord \div shape[i] THEN 0 ELSE u * shape[i]
           F == [x \in (1 .. n) \X Int |-> Times(x[2], x[1])]
           Body(h) == [i \in 0 .. n |-> IF i = 0 THEN 1 ELSE Times(h[i - 1], i)]
           up == CHOOSE h : h = Body(h)
<1>1. n \in Nat /\ \A i \in 1 .. n : shape[i] \in Int
  BY LenProperties, ElementOfSeq
<1>2. \A u \in Int, i \in 1 .. n : Times(u, i) \in Int
  BY <1>1
<1>3. PICK h \in [0 .. n -> Int] : h[0] = 1 /\ \A i \in 1 .. n : h[i] = F[<<i, h[i - 1]>>]
  <2>1. F \in [(1 .. n) \X Int -> Int]
    <3> HIDE DEF Times, n
    <3> QED BY <1>2
  <2>3. n \in Nat
    BY <1>1
  <2> HIDE DEF F, n
  <2> QED BY <2>1, <2>3, RecursionExists
<1>4. \A i \in 1 .. n : h[i - 1] \in Int /\ h[i] = Times(h[i - 1], i)
  <2> HIDE DEF Times
  <2>1. \A i \in 1 .. n : i - 1 \in 0 .. n
    BY <1>1
  <2>2. \A i \in 1 .. n : h[i - 1] \in Int /\ <<i, h[i - 1]>> \in (1 .. n) \X Int
    BY <2>1
  <2>3. \A x \in (1 .. n) \X Int : F[x] = Times(x[2], x[1])
    OBVIOUS
  <2> HIDE DEF F
  <2> QED BY <1>3, <2>2, <2>3
<1>5. h = Body(h)
  <2> HIDE DEF Times
  <2>1. \A i \in 0 .. n : h[i] = Body(h)[i]
    <3>1. \A i \in 0 .. n : i = 0 \/ i \in 1 .. n
      BY <1>1
    <3> HIDE DEF n
    <3> QED BY <1>3, <1>4, <3>1
  <2> HIDE DEF n
  <2> QED BY <2>1
<1>6. up = Body(up)
  <2> HIDE DEF Body
  <2> QED BY <1>5
<1> HIDE DEF up
<1>7. \A i \in 0 .. n : up[i] = h[i]
  <2> HIDE DEF n, Times
  <2>1. up[0] = h[0] /\ \A i \in 1 .. n : up[i] = Times(up[i - 1], i)
    <3>1. 0 \in 0 .. n /\ \A i \in 1 .. n : i \in 0 .. n /\ i # 0
      BY <1>1
    <3> QED BY <1>3, <1>6, <3>1
  <2>2. \A i \in 1 .. n : up[i - 1] = h[i - 1] => up[i] = h[i]
    BY <1>4, <2>1
  <2>3. n \in Nat /\ up[0] = h[0]
    BY <1>1, <2>1
  <2>4. AgreeByStep(n, up, h)
    BY <2>2, <2>3 DEF AgreeByStep
  <2>5. Agree(n, up, h)
    BY <2>3, <2>4, SameByStep
  <2> QED BY <2>5 DEF Agree
<1>8. Tensor!Elements(shape) = up[n] /\ n \in 0 .. n
  BY <1>1 DEF Tensor!Elements, up
<1>9. Counts(shape, h)
  BY <1>3, <1>4 DEF Counts
<1> QED BY <1>7, <1>8, <1>9

\* A count that is not 0 is the number of the values.
LEMMA ElementsAreVolume ==
  ASSUME NEW shape \in Seq(Int), MaxWord \in Nat, Tensor!Elements(shape) # 0
  PROVE  /\ Tensor!Elements(shape) = Tensor!Volume(shape)
         /\ \A i \in 1 .. Len(shape) : shape[i] \in Nat \ {0}
         /\ Len(shape) = 2 => Tensor!Volume(shape) = shape[1] * shape[2]
         /\ Len(shape) = 3 => Tensor!Volume(shape) = (shape[1] * shape[2]) * shape[3]
<1> DEFINE n == Len(shape)
<1>1. n \in Nat /\ \A i \in 1 .. n : shape[i] \in Int
  BY LenProperties, ElementOfSeq
<1>2. PICK up : Counts(shape, up) /\ Tensor!Elements(shape) = up[n]
  BY ElementsIs
<1>3. PICK vol : Products(shape, vol) /\ Tensor!Volume(shape) = vol[n]
  BY VolumeIs
<1> DEFINE Late == {i \in 0 .. n : up[i] # 0 /\ \E j \in 0 .. i - 1 : up[j] = 0}
<1>4. \A i \in 1 .. n : up[i - 1] = 0 => up[i] = 0
  BY <1>2 DEF Counts
<1>5. Late = {}
  <2> SUFFICES ASSUME Late # {} PROVE FALSE
    OBVIOUS
  <2>1. Late \subseteq Nat
    OBVIOUS
  <2>2. PICK i \in Late : \A k \in Late : i <= k
    <3> HIDE DEF Late
    <3> QED BY <2>1, LeastElement
  <2>3. PICK j \in 0 .. i - 1 : up[j] = 0
    OBVIOUS
  <2>4. i \in 1 .. n /\ up[i] # 0 /\ up[i - 1] # 0 /\ i - 1 \in 0 .. n /\ ~(i <= i - 1)
    BY <1>1, <1>4, <2>3
  <2>5. j # i - 1 /\ j \in 0 .. (i - 1) - 1
    <3>1. j # i - 1
      BY <2>3, <2>4
    <3>2. i \in Nat /\ j \in 0 .. i - 1
      BY <2>3, <2>4
    <3> QED BY <3>1, <3>2
  <2>6. i - 1 \in Late
    BY <2>3, <2>4, <2>5
  <2> QED BY <2>2, <2>4, <2>6
<1>6. \A i \in 0 .. n : up[i] # 0
  <2>1. up[n] # 0 /\ n \in 0 .. n
    BY <1>1, <1>2
  <2>2. \A i \in 0 .. n : i = n \/ i \in 0 .. n - 1
    BY <1>1
  <2> QED BY <1>5, <2>1, <2>2
<1>7. \A i \in 1 .. n : shape[i] > 0 /\ up[i] = up[i - 1] * shape[i]
  <2>1. \A i \in 1 .. n : i \in 0 .. n /\ i - 1 \in 0 .. n
    BY <1>1
  <2>2. ASSUME NEW i \in 1 .. n PROVE shape[i] > 0 /\ up[i] = up[i - 1] * shape[i]
    <3>1. up[i] # 0 /\ shape[i] \in Int
      BY <1>1, <1>6, <2>1
    <3> QED BY <1>2, <3>1 DEF Counts
  <2> QED BY <2>2
<1>8. \A i \in 0 .. n : up[i] = vol[i]
  <2>1. up[0] = vol[0] /\ \A i \in 1 .. n : up[i - 1] = vol[i - 1] => up[i] = vol[i]
    BY <1>2, <1>3, <1>7 DEF Counts, Products
  <2>2. n \in Nat
    BY <1>1
  <2> HIDE DEF n
  <2>3. AgreeByStep(n, up, vol)
    BY <2>1 DEF AgreeByStep
  <2>4. Agree(n, up, vol)
    BY <2>2, <2>3, SameByStep
  <2> QED BY <2>4 DEF Agree
<1>9. n \in 0 .. n
  BY <1>1
<1>10. \A i \in 1 .. n : shape[i] \in Nat \ {0}
  BY <1>1, <1>7
<1>11. vol[0] = 1 /\ \A i \in 1 .. n : vol[i] = vol[i - 1] * shape[i]
  BY <1>3 DEF Products
<1>12. ASSUME n = 2 PROVE vol[n] = shape[1] * shape[2]
  <2>1. 1 \in 1 .. n /\ 2 \in 1 .. n
    BY <1>12
  <2>2. vol[1 - 1] = 1 /\ vol[1] = vol[1 - 1] * shape[1] /\ vol[2] = vol[2 - 1] * shape[2]
    BY <1>11, <2>1
  <2>3. vol[1] = shape[1]
    BY <1>1, <2>1, <2>2
  <2> QED BY <1>12, <2>2, <2>3
<1>13. ASSUME n = 3 PROVE vol[n] = (shape[1] * shape[2]) * shape[3]
  <2>1. 1 \in 1 .. n /\ 2 \in 1 .. n /\ 3 \in 1 .. n
    BY <1>13
  <2>2. /\ vol[1 - 1] = 1 /\ vol[1] = vol[1 - 1] * shape[1]
        /\ vol[2] = vol[2 - 1] * shape[2] /\ vol[3] = vol[3 - 1] * shape[3]
    BY <1>11, <2>1
  <2>3. vol[1] = shape[1]
    BY <1>1, <2>1, <2>2
  <2> QED BY <1>13, <2>2, <2>3
<1> QED BY <1>2, <1>3, <1>8, <1>9, <1>10, <1>12, <1>13

-----------------------------------------------------------------------------
(* Tensor execution: what its handles and its request are at each step.     *)

\* The pointers of the running function that refer to something.
Names(step) ==
  CASE step \in {"level", "session"} -> {"options"}
    [] step = "input"                -> {"memory"}
    [] step = "run"                  -> {"memory", "input"}
    [] step = "shape"                -> {"memory", "input", "output"}
    [] step \in {"type", "rank", "dimensions", "count", "size"} ->
         {"memory", "input", "output", "shape"}
    [] step = "data"                 -> {"memory", "input", "output", "shape", "data"}
    [] step = "token"                -> {"scratch", "hidden", "data"}
    [] step = "answer"               -> {"data"}
    [] OTHER                         -> {}

AttachSteps  == {"initialize", "options", "level", "session", "context"}
RuntimeSteps == {"memory", "input", "run", "shape", "type", "rank", "dimensions", "count", "size",
                 "data", "answer"}
ProjectorSteps == {"buffers", "token", "answer"}
TensorSteps    == AttachSteps \cup RuntimeSteps \cup ProjectorSteps \cup {"none", "projector"}

\* What is held for the process and for the attached models.
Lasting == Tensor!Library \cup Tensor!Environment \cup UNION {Tensor!Owned(m) : m \in context}

\* The reads of the first k tokens.
Taken(r, k) == UNION {Tensor!TokenReads(r, t) : t \in 0 .. k - 1}

TensorStatics ==
  /\ attempted \in BOOLEAN /\ library \in BOOLEAN /\ api \in BOOLEAN /\ environment \in BOOLEAN
  /\ (environment <=> api) /\ (environment => library) /\ (library => attempted)
  /\ context \subseteq Tensor!Models /\ supported = context

TensorHandles ==
  /\ misused = FALSE
  /\ held = Lasting \cup local
  /\ local = IF job.step = "context" THEN {Tensor!Session(job.model)} ELSE Tensor!Of(Names(job.step))

TensorJob ==
  /\ job \in [kind : {"none", "attach", "run"}, model : Tensor!Models \cup {"none"},
              step : TensorSteps]
  /\ job.kind = "none" => job = Tensor!Idle /\ reads = {}
  /\ job.kind = "attach" =>
       /\ job.model \in Tensor!Models \ context /\ reads = {}
       /\ IF job.model \in Onnx THEN job.step \in AttachSteps ELSE job.step = "projector"
       /\ job.step \notin {"initialize", "projector"} => environment
  /\ job.kind = "run" =>
       /\ job.model \in context /\ request \in Requests
       /\ job.step \in IF job.model \in Onnx THEN RuntimeSteps ELSE ProjectorSteps

TensorAnswer ==
  /\ job.kind = "run" /\ job.model \in Onnx =>
       /\ Tensor!InputFits(request, Width[request.type], 1 .. RankLimit)
       /\ job.step \in {"data", "answer"} => Tensor!OutputFits
       /\ job.step = "answer" => response = output.count * Width[output.type]
  /\ job.kind = "run" /\ job.model \notin Onnx =>
       /\ Tensor!ProjectorFits(request)
       /\ job.step = "buffers" => reads = {}
       /\ job.step = "token" => \E k \in 0 .. Tensor!SoftTokens(request) : reads = Taken(request, k)
       /\ job.step = "answer" => /\ reads = Taken(request, Tensor!SoftTokens(request))
                                 /\ response = Tensor!SoftTokens(request) * 4

TensorInv == TensorStatics /\ TensorHandles /\ TensorJob /\ TensorAnswer

-----------------------------------------------------------------------------
(* Places in rows and cells: numbers below a * b are a * b pairs.           *)

LEMMA Pack ==
  ASSUME NEW a \in Nat, NEW b \in Nat, NEW q \in 0 .. a - 1, NEW x \in 0 .. b - 1
  PROVE  /\ q * b + x \in 0 .. (a * b) - 1
         /\ (q * b + x) \div b = q /\ (q * b + x) % b = x
<1>1. b \in Nat \ {0} /\ q \in Nat /\ x \in Nat /\ x < b /\ q + 1 <= a
  OBVIOUS
<1>2. q * b \in Nat /\ a * b \in Nat /\ (q + 1) * b = q * b + b
  BY <1>1
<1>3. (q + 1) * b <= a * b
  BY <1>1
<1>4. q * b + x \in 0 .. (a * b) - 1
  BY <1>1, <1>2, <1>3
<1>5. (q * b + x) \div b = q /\ (q * b + x) % b = x
  BY <1>1
<1> QED BY <1>4, <1>5

LEMMA Unpack ==
  ASSUME NEW a \in Nat, NEW b \in Nat, NEW v \in 0 .. (a * b) - 1
  PROVE  /\ b > 0 /\ v \div b \in 0 .. a - 1 /\ v % b \in 0 .. b - 1
         /\ v = (v \div b) * b + (v % b)
<1>1. a * b \in Nat /\ v \in Nat /\ v < a * b
  BY SMT
<1>2. b > 0
  <2>1. b = 0 => a * b = 0
    BY SMT
  <2> QED BY <1>1, <2>1
<1>3. v \div b \in Nat /\ v % b \in 0 .. b - 1 /\ v = b * (v \div b) + (v % b)
  BY <1>1, <1>2, SMT
<1> DEFINE q == v \div b
<1>4. q < a
  <2>1. SUFFICES ASSUME a <= q PROVE FALSE
    BY <1>3
  <2>2. q \in Nat /\ a * b <= q * b
    BY <1>3, <2>1, SMT
  <2>3. v = q * b + (v % b)
    BY <1>3, SMT
  <2> HIDE DEF q
  <2> QED BY <1>1, <1>3, <2>2, <2>3
<1>5. b * q = q * b
  BY <1>3, SMT
<1> QED BY <1>2, <1>3, <1>4, <1>5

\* The number e of a value of an image of rows of w pixels: the value is that
\* of a pixel of the patch in place x of row y of patches.
IsPixel(e, s, w, y, x, channel, row, col) == e = ((y * s + row) * w + x * s + col) * 3 + channel

SaysPixel(e, s, w, y, x, channel, row, col) ==
  /\ e % 3 = channel
  /\ ((e \div 3) % w) \div s = x /\ ((e \div 3) % w) % s = col
  /\ (e \div (3 * w)) \div s = y /\ (e \div (3 * w)) % s = row

\* The number of a value says where it belongs: s is the side of a patch, and
\* an image has d rows of c patches.
LEMMA PixelPlace ==
  ASSUME NEW s \in Nat \ {0}, NEW c \in Nat \ {0}, NEW d \in Nat,
         NEW y \in 0 .. d - 1, NEW x \in 0 .. c - 1,
         NEW channel \in 0 .. 2, NEW row \in 0 .. s - 1, NEW col \in 0 .. s - 1,
         NEW e \in Int, IsPixel(e, s, c * s, y, x, channel, row, col)
  PROVE  /\ e \in 0 .. (((d * s) * (c * s)) * 3) - 1
         /\ SaysPixel(e, s, c * s, y, x, channel, row, col)
<1> DEFINE w == c * s
           u == x * s + col
           v == y * s + row
           p == v * w + u
           h == d * s
<1>1. s \in Nat /\ c \in Nat /\ w \in Nat /\ h \in Nat
  BY SMT
<1>2. u \in 0 .. w - 1 /\ u \div s = x /\ u % s = col
  BY <1>1, Pack
<1>3. v \in 0 .. h - 1 /\ v \div s = y /\ v % s = row
  BY <1>1, Pack
<1> HIDE DEF u, v, h, w
<1>4. p \in 0 .. (h * w) - 1 /\ p % w = u
  <2>1. h \in Nat /\ w \in Nat /\ v \in 0 .. h - 1 /\ u \in 0 .. w - 1
    BY <1>1, <1>2, <1>3
  <2> QED BY <2>1, Pack
<1>5. h * w \in Nat /\ 3 \in Nat
  BY <1>1
<1>6. e = p * 3 + channel
  <2>1. (v * w + x * s) + col = v * w + (x * s + col)
    <3>1. v * w \in Int /\ x * s \in Int /\ col \in Int
      BY <1>1, <1>3
    <3> QED BY <3>1
  <2> QED BY <2>1 DEF IsPixel, u, v, p, w
<1>7. e \in 0 .. ((h * w) * 3) - 1 /\ e \div 3 = p /\ e % 3 = channel
  <2> HIDE DEF p
  <2> QED BY <1>4, <1>5, <1>6, Pack
<1>8. e \div (3 * w) = v
  <2> DEFINE k == 3 * w
             z == u * 3 + channel
  <2>1. k \in Nat /\ z \in 0 .. k - 1
    <3>1. z \in 0 .. (w * 3) - 1
      BY <1>1, <1>2, Pack
    <3>2. w * 3 = k /\ k \in Nat
      BY <1>1
    <3> QED BY <3>1, <3>2
  <2>2. e = v * k + z
    <3>1. (v * w) * 3 = v * (3 * w)
      BY <1>1, <1>3, SMT
    <3>2. v * w \in Int /\ u \in Int /\ channel \in Int
      BY <1>1, <1>2, <1>3
    <3>3. p * 3 = (v * w) * 3 + u * 3
      BY <3>2, SMT
    <3>4. (v * w) * 3 \in Int /\ u * 3 \in Int
      BY <3>2
    <3> HIDE DEF p
    <3> QED BY <1>6, <3>1, <3>2, <3>3, <3>4
  <2> HIDE DEF k, z
  <2>3. h \in Nat /\ v \in 0 .. h - 1
    BY <1>1, <1>3
  <2>4. (v * k + z) \div k = v
    BY <2>1, <2>3, Pack
  <2> QED BY <2>2, <2>4 DEF k
<1>9. SaysPixel(e, s, w, y, x, channel, row, col)
  BY <1>2, <1>3, <1>4, <1>7, <1>8 DEF SaysPixel
<1> QED BY <1>7, <1>9 DEF h, w

\* Every value of the image has its place.
LEMMA PixelFound ==
  ASSUME NEW s \in Nat \ {0}, NEW c \in Nat \ {0}, NEW d \in Nat,
         NEW e \in 0 .. (((d * s) * (c * s)) * 3) - 1
  PROVE  \E y \in 0 .. d - 1, x \in 0 .. c - 1, channel \in 0 .. 2, row \in 0 .. s - 1,
            col \in 0 .. s - 1 : IsPixel(e, s, c * s, y, x, channel, row, col)
<1> DEFINE h == d * s
           w == c * s
           p == e \div 3
           channel == e % 3
           v == p \div w
           u == p % w
<1>1. s \in Nat /\ c \in Nat /\ w \in Nat /\ h \in Nat
  BY SMT
<1> HIDE DEF h, w
<1>2. h * w \in Nat /\ 3 \in Nat /\ e \in 0 .. ((h * w) * 3) - 1
  BY <1>1 DEF h, w
<1>3. p \in 0 .. (h * w) - 1 /\ channel \in 0 .. 2 /\ e = p * 3 + channel
  <2> DEFINE a == h * w
             b == 3
  <2>1. a \in Nat /\ b \in Nat /\ e \in 0 .. (a * b) - 1
    BY <1>2
  <2> HIDE DEF a, b
  <2>2. e \div b \in 0 .. a - 1 /\ e % b \in 0 .. b - 1 /\ e = (e \div b) * b + (e % b)
    BY <2>1, Unpack
  <2> QED BY <2>2 DEF a, b
<1> HIDE DEF p, channel
<1>4. v \in 0 .. h - 1 /\ u \in 0 .. w - 1 /\ p = v * w + u
  BY <1>1, <1>3, Unpack
<1> HIDE DEF v, u
<1>5. v \div s \in 0 .. d - 1 /\ v % s \in 0 .. s - 1 /\ v = (v \div s) * s + (v % s)
  BY <1>1, <1>4, Unpack DEF h
<1>6. u \div s \in 0 .. c - 1 /\ u % s \in 0 .. s - 1 /\ u = (u \div s) * s + (u % s)
  BY <1>1, <1>4, Unpack DEF w
<1> DEFINE y == v \div s
           row == v % s
           x == u \div s
           col == u % s
<1> HIDE DEF y, row, x, col
<1>7. e = ((y * s + row) * w + x * s + col) * 3 + channel
  <2>1. v = y * s + row /\ u = x * s + col
    BY <1>5, <1>6 DEF y, row, x, col
  <2>2. v * w \in Int /\ x * s \in Int /\ col \in Int
    BY <1>1, <1>4, <1>6 DEF x, col
  <2>3. v * w + (x * s + col) = (v * w + x * s) + col
    BY <2>2
  <2> QED BY <1>3, <1>4, <2>1, <2>3
<1>8. y \in 0 .. d - 1 /\ row \in 0 .. s - 1 /\ x \in 0 .. c - 1 /\ col \in 0 .. s - 1
  BY <1>5, <1>6 DEF y, row, x, col
<1>9. IsPixel(e, s, c * s, y, x, channel, row, col)
  BY <1>7 DEF IsPixel, w
<1> QED BY <1>3, <1>8, <1>9

-----------------------------------------------------------------------------
(* What a projector reads.                                                  *)

\* A request that fits has positive dimensions, as many values as it sent.
LEMMA FittingShape ==
  ASSUME NEW r \in Requests, NEW width, NEW ranks, Tensor!InputFits(r, width, ranks)
  PROVE  /\ r.shape \in Seq(Int) /\ Tensor!Volume(r.shape) * width = r.size
         /\ \A i \in 1 .. Len(r.shape) : r.shape[i] \in Nat \ {0}
         /\ Len(r.shape) = 2 => Tensor!Volume(r.shape) = r.shape[1] * r.shape[2]
         /\ Len(r.shape) = 3 => Tensor!Volume(r.shape) = (r.shape[1] * r.shape[2]) * r.shape[3]
<1>1. r.shape \in Seq(Int) /\ MaxWord \in Nat
  BY TensorAssumption
<1>2. Tensor!Elements(r.shape) # 0 /\ Tensor!Elements(r.shape) * width = r.size
  BY DEF Tensor!InputFits
<1>3. Tensor!Elements(r.shape) = Tensor!Volume(r.shape)
  BY <1>1, <1>2, ElementsAreVolume
<1> QED BY <1>1, <1>2, <1>3, ElementsAreVolume

LEMMA ProjectorShape ==
  ASSUME NEW r \in Requests, Tensor!ProjectorFits(r), r.name # "image_rgb"
  PROVE  /\ r.shape[1] \in Nat \ {0} /\ r.shape[2] \in Nat \ {0}
         /\ Tensor!SoftTokens(r) = r.shape[1] /\ Tensor!Stride(r) = r.shape[2]
         /\ Tensor!Volume(r.shape) = r.shape[1] * r.shape[2]
<1>1. Tensor!InputFits(r, Width[r.type], 1 .. 3) /\ Tensor!ShapeIsWanted(r)
  BY DEF Tensor!ProjectorFits
<1>2. Len(r.shape) = 2
  BY <1>1 DEF Tensor!ShapeIsWanted
<1>3. /\ \A i \in 1 .. Len(r.shape) : r.shape[i] \in Nat \ {0}
      /\ Tensor!Volume(r.shape) = r.shape[1] * r.shape[2]
  BY <1>1, <1>2, FittingShape
<1>4. 1 \in 1 .. Len(r.shape) /\ 2 \in 1 .. Len(r.shape)
  BY <1>2
<1> QED BY <1>3, <1>4 DEF Tensor!SoftTokens, Tensor!Stride

\* An image has d rows of c patches.
IsImage(r, c, d) ==
  /\ r.shape[2] = c * Side /\ r.shape[2] \div Side = c
  /\ Tensor!SoftTokens(r) = d * c
  /\ Tensor!Volume(r.shape) = ((d * Side) * r.shape[2]) * 3

LEMMA ImageShape ==
  ASSUME NEW r \in Requests, Tensor!ProjectorFits(r), r.name = "image_rgb"
  PROVE  \E c \in Nat \ {0}, d \in Nat \ {0} : IsImage(r, c, d)
<1>1. Tensor!InputFits(r, Width[r.type], 1 .. 3) /\ Tensor!ShapeIsWanted(r)
  BY DEF Tensor!ProjectorFits
<1>2. /\ Len(r.shape) = 3 /\ r.shape[3] = 3
      /\ \A i \in 1 .. 2 : r.shape[i] % Side = 0
  BY <1>1 DEF Tensor!ShapeIsWanted
<1>3. /\ \A i \in 1 .. Len(r.shape) : r.shape[i] \in Nat \ {0}
      /\ Tensor!Volume(r.shape) = (r.shape[1] * r.shape[2]) * r.shape[3]
  BY <1>1, <1>2, FittingShape
<1> DEFINE h == r.shape[1]
           w == r.shape[2]
           c == w \div Side
           d == h \div Side
<1>4. h \in Nat \ {0} /\ w \in Nat \ {0} /\ h % Side = 0 /\ w % Side = 0
  <2>1. 1 \in 1 .. Len(r.shape) /\ 2 \in 1 .. Len(r.shape) /\ 1 \in 1 .. 2 /\ 2 \in 1 .. 2
    BY <1>2
  <2> QED BY <1>2, <1>3, <2>1
<1>5. Tensor!SoftTokens(r) = d * c /\ Tensor!Volume(r.shape) = (h * w) * 3
  BY <1>2, <1>3 DEF Tensor!SoftTokens
<1> HIDE DEF h, w
<1>6. Side \in Nat \ {0}
  BY TensorAssumption
<1>7. c \in Nat \ {0} /\ w = c * Side
  BY <1>4, <1>6
<1>8. d \in Nat \ {0} /\ h = d * Side
  BY <1>4, <1>6
<1>9. IsImage(r, c, d)
  BY <1>5, <1>7, <1>8 DEF w, IsImage
<1> QED BY <1>7, <1>8, <1>9

LEMMA RowReads ==
  ASSUME NEW r \in Requests, Tensor!ProjectorFits(r), r.name # "image_rgb"
  PROVE  {read[1] : read \in Taken(r, Tensor!SoftTokens(r))} = 0 .. Tensor!Volume(r.shape) - 1
<1> DEFINE n == r.shape[1]
           w == r.shape[2]
           Read(t, j) == <<t * w + j, t, j - Tensor!Prefix(r)>>
<1>1. n \in Nat /\ w \in Nat /\ Tensor!SoftTokens(r) = n /\ Tensor!Stride(r) = w
      /\ Tensor!Volume(r.shape) = n * w
  BY ProjectorShape
<1>2. \A t : Tensor!TokenReads(r, t) = {Read(t, j) : j \in 0 .. w - 1}
  BY <1>1 DEF Tensor!TokenReads
<1>3. Taken(r, n) = UNION {Tensor!TokenReads(r, t) : t \in 0 .. n - 1}
  BY DEF Taken
<1> HIDE DEF n, w
<1>4. ASSUME NEW read \in Taken(r, n) PROVE read[1] \in 0 .. (n * w) - 1
  <2>1. PICK t \in 0 .. n - 1 : read \in {Read(t, j) : j \in 0 .. w - 1}
    BY <1>2, <1>3, <1>4
  <2>2. PICK j \in 0 .. w - 1 : read = Read(t, j)
    BY <2>1
  <2>3. read[1] = t * w + j
    BY <2>2
  <2> QED BY <1>1, <2>3, Pack
<1>5. ASSUME NEW e \in 0 .. (n * w) - 1 PROVE e \in {read[1] : read \in Taken(r, n)}
  <2>1. e \div w \in 0 .. n - 1 /\ e % w \in 0 .. w - 1 /\ e = (e \div w) * w + (e % w)
    BY <1>1, Unpack
  <2> DEFINE t == e \div w
             j == e % w
  <2>2. Read(t, j)[1] = e
    BY <2>1
  <2>3. Read(t, j) \in {Read(t, x) : x \in 0 .. w - 1}
    BY <2>1
  <2> HIDE DEF t, j, Read
  <2>4. Read(t, j) \in Taken(r, n)
    BY <1>2, <1>3, <2>1, <2>3 DEF t
  <2> QED BY <2>2, <2>4
<1> QED BY <1>1, <1>4, <1>5

\* A read of one of n values takes it to its place.
Placed(r, read, n) == read[1] \in 0 .. n - 1 /\ read = Tensor!Belongs(r, read[1])

\* The reads of one token of an image.
LEMMA ImageToken ==
  ASSUME NEW r \in Requests, r.name = "image_rgb", NEW c \in Nat \ {0}, NEW d \in Nat,
         NEW y \in 0 .. d - 1, NEW x \in 0 .. c - 1
  PROVE  /\ y * c + x \in 0 .. (d * c) - 1
         /\ IsImage(r, c, d) =>
            /\ \A read \in Tensor!TokenReads(r, y * c + x) :
                 Placed(r, read, ((d * Side) * (c * Side)) * 3)
            /\ \A channel \in 0 .. 2, row \in 0 .. Side - 1, col \in 0 .. Side - 1, e \in Int :
                 IsPixel(e, Side, c * Side, y, x, channel, row, col) =>
                   Tensor!Belongs(r, e) \in Tensor!TokenReads(r, y * c + x)
<1> DEFINE t == y * c + x
           w == c * Side
           Read(channel, row, col) == <<Tensor!Element(r, t, channel, row, col), t,
                                        (channel * Side + row) * Side + col>>
<1>1. t \in 0 .. (d * c) - 1 /\ t \div c = y /\ t % c = x
  <2>1. c \in Nat /\ d \in Nat
    OBVIOUS
  <2> QED BY <2>1, Pack
<1>2. Side \in Nat \ {0}
  BY TensorAssumption
<1>3. w \in Nat
  BY <1>2
<1>4. ASSUME NEW channel \in 0 .. 2, NEW row \in 0 .. Side - 1, NEW col \in 0 .. Side - 1,
             NEW e \in Int, IsPixel(e, Side, w, y, x, channel, row, col)
      PROVE  /\ e \in 0 .. (((d * Side) * w) * 3) - 1
             /\ SaysPixel(e, Side, w, y, x, channel, row, col)
  BY <1>2, <1>4, PixelPlace
<1> HIDE DEF t, w
<1> SUFFICES ASSUME IsImage(r, c, d)
    PROVE  /\ \A read \in Tensor!TokenReads(r, t) : Placed(r, read, ((d * Side) * w) * 3)
           /\ \A channel \in 0 .. 2, row \in 0 .. Side - 1, col \in 0 .. Side - 1, e \in Int :
                IsPixel(e, Side, w, y, x, channel, row, col) =>
                  Tensor!Belongs(r, e) \in Tensor!TokenReads(r, t)
  BY <1>1 DEF t, w
<1>5. r.shape[2] = w /\ r.shape[2] \div Side = c
  BY DEF IsImage, w
<1>6. ASSUME NEW channel \in 0 .. 2, NEW row \in 0 .. Side - 1, NEW col \in 0 .. Side - 1
      PROVE  /\ Tensor!Element(r, t, channel, row, col) \in Int
             /\ IsPixel(Tensor!Element(r, t, channel, row, col), Side, w, y, x, channel, row, col)
  <2>1. Tensor!Element(r, t, channel, row, col) =
          ((y * Side + row) * w + x * Side + col) * 3 + channel
    BY <1>1, <1>5 DEF Tensor!Element
  <2>2. y * Side \in Int /\ row \in Int /\ x * Side \in Int /\ col \in Int /\ channel \in Int
    BY <1>2
  <2>3. (y * Side + row) * w \in Int
    BY <1>3, <2>2
  <2> QED BY <2>1, <2>2, <2>3 DEF IsPixel
<1>7. ASSUME NEW channel \in 0 .. 2, NEW row \in 0 .. Side - 1, NEW col \in 0 .. Side - 1,
             NEW e \in Int, IsPixel(e, Side, w, y, x, channel, row, col)
      PROVE  Read(channel, row, col) = Tensor!Belongs(r, e) /\ Read(channel, row, col)[1] = e
  <2>1. Tensor!Element(r, t, channel, row, col) = e
    BY <1>1, <1>5, <1>7 DEF Tensor!Element, IsPixel
  <2>2. SaysPixel(e, Side, w, y, x, channel, row, col)
    BY <1>4, <1>7
  <2>3. Tensor!Belongs(r, e) = <<e, y * c + x, (channel * Side + row) * Side + col>>
    BY <1>5, <2>2 DEF Tensor!Belongs, SaysPixel
  <2> QED BY <2>1, <2>3 DEF t
<1>8. Tensor!TokenReads(r, t) =
        {Read(channel, row, col) : channel \in 0 .. 2, row \in 0 .. Side - 1, col \in 0 .. Side - 1}
  BY DEF Tensor!TokenReads
<1>9. ASSUME NEW read \in Tensor!TokenReads(r, t)
      PROVE  Placed(r, read, ((d * Side) * w) * 3)
  <2>1. PICK channel \in 0 .. 2, row \in 0 .. Side - 1, col \in 0 .. Side - 1 :
          read = Read(channel, row, col)
    <3> HIDE DEF Read
    <3> QED BY <1>8, <1>9
  <2> DEFINE e == Tensor!Element(r, t, channel, row, col)
  <2>2. e \in Int /\ IsPixel(e, Side, w, y, x, channel, row, col)
    BY <1>6
  <2> HIDE DEF e, Read
  <2>3. read = Tensor!Belongs(r, e) /\ read[1] = e
    BY <1>7, <2>1, <2>2
  <2>4. e \in 0 .. (((d * Side) * w) * 3) - 1
    BY <1>4, <2>2
  <2> QED BY <2>3, <2>4 DEF Placed
<1>10. ASSUME NEW channel \in 0 .. 2, NEW row \in 0 .. Side - 1, NEW col \in 0 .. Side - 1,
             NEW e \in Int, IsPixel(e, Side, w, y, x, channel, row, col)
      PROVE  Tensor!Belongs(r, e) \in Tensor!TokenReads(r, t)
  <2> HIDE DEF Read
  <2> QED BY <1>7, <1>8, <1>10
<1> HIDE DEF Read
<1> QED BY <1>9, <1>10

\* A projector takes every value of an image once, into its place.
LEMMA ImageReads ==
  ASSUME NEW r \in Requests, Tensor!ProjectorFits(r), r.name = "image_rgb"
  PROVE  LET all == 0 .. Tensor!Volume(r.shape) - 1
             taken == Taken(r, Tensor!SoftTokens(r))
         IN  taken = {Tensor!Belongs(r, e) : e \in all} /\ {read[1] : read \in taken} = all
<1>1. PICK c \in Nat \ {0}, d \in Nat \ {0} : IsImage(r, c, d)
  BY ImageShape
<1>2. /\ r.shape[2] = c * Side /\ Tensor!SoftTokens(r) = d * c
      /\ Tensor!Volume(r.shape) = ((d * Side) * r.shape[2]) * 3
  BY <1>1 DEF IsImage
<1> DEFINE all == 0 .. Tensor!Volume(r.shape) - 1
           taken == Taken(r, Tensor!SoftTokens(r))
<1>3. all = 0 .. (((d * Side) * (c * Side)) * 3) - 1
  BY <1>2
<1>4. taken = UNION {Tensor!TokenReads(r, t) : t \in 0 .. (d * c) - 1}
  BY <1>2 DEF Taken
<1> HIDE DEF all, taken
<1>5. ASSUME NEW read \in taken PROVE read[1] \in all /\ read = Tensor!Belongs(r, read[1])
  <2>1. PICK y \in 0 .. d - 1, x \in 0 .. c - 1 : read \in Tensor!TokenReads(r, y * c + x)
    <3>1. PICK t \in 0 .. (d * c) - 1 : read \in Tensor!TokenReads(r, t)
      BY <1>4, <1>5
    <3>2. c \in Nat /\ d \in Nat
      OBVIOUS
    <3>3. t \div c \in 0 .. d - 1 /\ t % c \in 0 .. c - 1 /\ t = (t \div c) * c + (t % c)
      BY <3>2, Unpack
    <3> QED BY <3>1, <3>3
  <2>2. d \in Nat
    OBVIOUS
  <2>3. Placed(r, read, ((d * Side) * (c * Side)) * 3)
    BY <1>1, <2>1, <2>2, ImageToken
  <2> QED BY <1>3, <2>3 DEF Placed
<1>6. ASSUME NEW e \in all
      PROVE  Tensor!Belongs(r, e) \in taken /\ Tensor!Belongs(r, e)[1] = e
  <2>1. Side \in Nat \ {0} /\ d \in Nat /\ e \in 0 .. (((d * Side) * (c * Side)) * 3) - 1
    BY <1>3, TensorAssumption
  <2>2. PICK y \in 0 .. d - 1, x \in 0 .. c - 1, channel \in 0 .. 2, row \in 0 .. Side - 1,
             col \in 0 .. Side - 1 : IsPixel(e, Side, c * Side, y, x, channel, row, col)
    BY <2>1, PixelFound
  <2>3. e \in Int
    BY <2>1
  <2>4. /\ y * c + x \in 0 .. (d * c) - 1
        /\ Tensor!Belongs(r, e) \in Tensor!TokenReads(r, y * c + x)
    BY <1>1, <2>1, <2>2, <2>3, ImageToken
  <2>5. Tensor!Belongs(r, e)[1] = e
    BY DEF Tensor!Belongs
  <2> QED BY <1>4, <2>4, <2>5
<1> QED BY <1>5, <1>6 DEF all, taken

\* The tokens read are counted by what was read.
LEMMA TokensRead ==
  ASSUME NEW r \in Requests, Tensor!ProjectorFits(r), NEW k \in Nat
  PROVE  /\ Tensor!Cardinality({read[2] : read \in Taken(r, k)}) = k
         /\ Taken(r, k) \cup Tensor!TokenReads(r, k) = Taken(r, k + 1)
<1>1. \A t \in 0 .. k : Tensor!TokenReads(r, t) # {} /\ \A read \in Tensor!TokenReads(r, t) : read[2] = t
  <2> SUFFICES ASSUME NEW t \in 0 .. k
               PROVE  /\ \E read : read \in Tensor!TokenReads(r, t)
                      /\ \A read \in Tensor!TokenReads(r, t) : read[2] = t
    OBVIOUS
  <2>1. CASE r.name = "image_rgb"
    <3>1. 0 \in 0 .. 2 /\ 0 \in 0 .. Side - 1
      BY TensorAssumption
    <3>2. <<Tensor!Element(r, t, 0, 0, 0), t, (0 * Side + 0) * Side + 0>> \in Tensor!TokenReads(r, t)
      BY <2>1, <3>1 DEF Tensor!TokenReads
    <3>3. \A read \in Tensor!TokenReads(r, t) : read[2] = t
      BY <2>1 DEF Tensor!TokenReads
    <3> QED BY <3>2, <3>3
  <2>2. CASE r.name # "image_rgb"
    <3>1. Tensor!Stride(r) \in Nat \ {0}
      BY <2>2, ProjectorShape
    <3>2. 0 \in 0 .. Tensor!Stride(r) - 1
      BY <3>1
    <3>3. <<t * Tensor!Stride(r) + 0, t, 0 - Tensor!Prefix(r)>> \in Tensor!TokenReads(r, t)
      BY <2>2, <3>2 DEF Tensor!TokenReads
    <3>4. \A read \in Tensor!TokenReads(r, t) : read[2] = t
      BY <2>2 DEF Tensor!TokenReads
    <3> QED BY <3>3, <3>4
  <2> QED BY <2>1, <2>2
<1>2. {read[2] : read \in Taken(r, k)} = 0 .. k - 1
  <2>1. \A t \in 0 .. k - 1 : t \in 0 .. k
    OBVIOUS
  <2> QED BY <1>1, <2>1 DEF Taken
<1>3. Tensor!Cardinality(0 .. k - 1) = k
  <2>1. Cardinality(0 .. k - 1) = k
    BY FS_Interval
  <2>2. Tensor!Cardinality(0 .. k - 1) = Cardinality(0 .. k - 1)
    BY Zenon DEF Tensor!Cardinality, Cardinality
  <2> QED BY <2>1, <2>2
<1>4. 0 .. (k + 1) - 1 = (0 .. k - 1) \cup {k}
  OBVIOUS
<1>5. Taken(r, k) \cup Tensor!TokenReads(r, k) = Taken(r, k + 1)
  BY <1>4, Zenon DEF Taken
<1> QED BY <1>2, <1>3, <1>5

-----------------------------------------------------------------------------
(* Handles: what a step takes and gives back.                               *)

\* Handles of a call are none of the process or of a model.
LEMMA TensorApart ==
  /\ \A step : Tensor!Of(Names(step)) \cap Lasting = {}
  /\ \A m : m \notin context => {Tensor!Session(m), Tensor!Box(m)} \cap Lasting = {}
<1>1. ASSUME NEW handle \in Lasting
      PROVE  \/ handle = <<"library", "none">> /\ library
             \/ handle = <<"environment", "none">> /\ environment
             \/ \E m \in context : handle \in {<<"session", m>>, <<"context", m>>}
  <2>1. CASE handle \in Tensor!Library
    BY <2>1 DEF Tensor!Library, Tensor!Of, Tensor!None
  <2>2. CASE handle \in Tensor!Environment
    BY <2>2 DEF Tensor!Environment, Tensor!Of, Tensor!None
  <2>3. CASE handle \in UNION {Tensor!Owned(m) : m \in context}
    BY <2>3 DEF Tensor!Owned, Tensor!Session, Tensor!Box
  <2> QED BY <2>1, <2>2, <2>3 DEF Lasting
<1>2. ASSUME NEW step, NEW handle \in Tensor!Of(Names(step))
      PROVE  \E name \in Names(step) : handle = <<name, "none">>
  BY DEF Tensor!Of, Tensor!None
<1>3. \A step : {"library", "environment", "session", "context"} \cap Names(step) = {}
  BY DEF Names
<1>4. \A step : Tensor!Of(Names(step)) \cap Lasting = {}
  BY <1>1, <1>2, <1>3
<1>5. ASSUME NEW m, m \notin context PROVE {Tensor!Session(m), Tensor!Box(m)} \cap Lasting = {}
  BY <1>1, <1>5 DEF Tensor!Session, Tensor!Box
<1> QED BY <1>4, <1>5

LEMMA TensorStays ==
  ASSUME TensorInv, UNCHANGED <<Tensor!statics, Tensor!records>>
  PROVE  TensorStatics' /\ Lasting' = Lasting
<1>1. UNCHANGED <<attempted, library, api, environment, context, supported>>
  BY DEF Tensor!statics, Tensor!records
<1>2. TensorStatics'
  BY <1>1 DEF TensorInv, TensorStatics
<1>3. Lasting' = Lasting
  BY <1>1 DEF Lasting, Tensor!Library, Tensor!Environment, Tensor!Owned
<1> QED BY <1>2, <1>3

\* A call that ends holds nothing of its own.
LEMMA TensorReturns ==
  ASSUME TensorStatics', Tensor!Return, misused' = FALSE, held' = Lasting'
  PROVE  TensorInv'
<1>1. job' = [kind |-> "none", model |-> "none", step |-> "none"] /\ job' = Tensor!Idle
      /\ local' = {} /\ reads' = {}
  BY DEF Tensor!Return, Tensor!Idle, Tensor!None
<1>2. TensorHandles'
  <2>1. Names("none") = {}
    BY DEF Names
  <2>2. Tensor!Of({}) = {}
    BY DEF Tensor!Of
  <2> QED BY <1>1, <2>1, <2>2 DEF TensorHandles
<1>3. TensorJob'
  BY <1>1 DEF TensorJob, TensorSteps
<1>4. TensorAnswer'
  BY <1>1 DEF TensorAnswer
<1> QED BY <1>2, <1>3, <1>4 DEF TensorInv

\* A call that goes on.
LEMMA TensorGoes ==
  ASSUME TensorInv, NEW s \in TensorSteps, s # "context", Tensor!Go(s),
         misused' = FALSE, held' = Lasting' \cup local', local' = Tensor!Of(Names(s))
  PROVE  /\ TensorHandles'
         /\ job' = [kind |-> job.kind, model |-> job.model, step |-> s]
         /\ job' \in [kind : {"none", "attach", "run"}, model : Tensor!Models \cup {"none"},
                      step : TensorSteps]
<1>1. job \in [kind : {"none", "attach", "run"}, model : Tensor!Models \cup {"none"},
               step : TensorSteps]
  BY DEF TensorInv, TensorJob
<1>2. job' = [kind |-> job.kind, model |-> job.model, step |-> s]
  BY <1>1 DEF Tensor!Go
<1>3. TensorHandles'
  BY <1>2 DEF TensorHandles
<1> QED BY <1>1, <1>2, <1>3

\* Nothing is used that is not held and nothing is taken twice.
LEMMA TensorHold ==
  ASSUME TensorInv, NEW uses, NEW returned, NEW taken, Tensor!Hold(uses, returned, taken),
         uses \subseteq held, returned \subseteq local, taken \cap held = {}
  PROVE  misused' = FALSE /\ held' = Lasting \cup (local \ returned) \cup taken
<1>1. misused = FALSE /\ held = Lasting \cup local
  BY DEF TensorInv, TensorHandles
<1>2. local \cap Lasting = {}
  <2>1. CASE job.step = "context"
    <3>1. job.kind = "attach"
      BY <2>1 DEF TensorInv, TensorJob, Tensor!Idle, Tensor!None, RuntimeSteps, ProjectorSteps
    <3>2. job.model \notin context
      BY <3>1 DEF TensorInv, TensorJob
    <3> QED BY <2>1, <3>2, TensorApart DEF TensorInv, TensorHandles
  <2>2. CASE job.step # "context"
    BY <2>2, TensorApart DEF TensorInv, TensorHandles
  <2> QED BY <2>1, <2>2
<1>3. held' = (held \ returned) \cup taken
      /\ misused' = (misused \/ ~(uses \cup returned \subseteq held) \/ taken \cap held # {})
  BY DEF Tensor!Hold
<1>4. misused' = FALSE
  BY <1>1, <1>3
<1>5. held' = Lasting \cup (local \ returned) \cup taken
  BY <1>1, <1>2, <1>3
<1> QED BY <1>4, <1>5

-----------------------------------------------------------------------------
(* Attaching keeps the invariant.                                           *)

LEMMA NamesAttach ==
  /\ \A step \in {"none", "initialize", "options", "projector", "memory", "buffers"} :
       Tensor!Of(Names(step)) = {}
  /\ \A step \in {"level", "session"} : Tensor!Of(Names(step)) = Tensor!Of({"options"})
<1>1. \A step \in {"none", "initialize", "options", "projector", "memory", "buffers"} : Names(step) = {}
  BY DEF Names
<1>2. Tensor!Of({}) = {}
  BY DEF Tensor!Of
<1>3. \A step \in {"level", "session"} : Names(step) = {"options"}
  BY DEF Names
<1> QED BY <1>1, <1>2, <1>3

LEMMA TensorInitInv == Tensor!Init => TensorInv
<1> SUFFICES ASSUME Tensor!Init PROVE TensorInv
  OBVIOUS
<1> USE DEF Tensor!Init
<1>1. TensorStatics
  BY DEF TensorStatics
<1>2. TensorJob
  BY DEF TensorJob, Tensor!Idle, Tensor!None, TensorSteps
<1>3. TensorAnswer
  BY DEF TensorAnswer, Tensor!Idle, Tensor!None
<1>4. TensorHandles
  <2>1. Lasting = {}
    BY DEF Lasting, Tensor!Library, Tensor!Environment
  <2>2. job.step = "none"
    BY DEF Tensor!Idle, Tensor!None
  <2> QED BY <2>1, <2>2, NamesAttach DEF TensorHandles
<1> QED BY <1>1, <1>2, <1>3, <1>4 DEF TensorInv

\* The job of an attach at a step.
LEMMA AttachingAt ==
  ASSUME TensorInv, NEW step, Tensor!At("attach", step)
  PROVE  /\ job.kind = "attach" /\ job.step = step /\ reads = {}
         /\ job.model \in Tensor!Models \ context
         /\ IF job.model \in Onnx THEN step \in AttachSteps ELSE step = "projector"
         /\ step \notin {"initialize", "projector"} => environment
         /\ step # "context" => local = Tensor!Of(Names(step))
         /\ step = "context" => local = {Tensor!Session(job.model)}
<1>1. job.kind = "attach" /\ job.step = step
  BY DEF Tensor!At
<1> QED BY <1>1 DEF TensorInv, TensorJob, TensorHandles

\* An attach that goes on.
LEMMA AttachGoes ==
  ASSUME TensorInv, job.kind = "attach", NEW s \in AttachSteps, job.model \in Onnx,
         s # "initialize" => environment', TensorHandles', TensorStatics', context' = context,
         reads' = reads, job' = [kind |-> job.kind, model |-> job.model, step |-> s]
  PROVE  TensorInv'
<1>1. job.model \in Tensor!Models \ context /\ reads = {}
  BY DEF TensorInv, TensorJob
<1>2. /\ job'.kind = "attach" /\ job'.model = job.model /\ job'.step = s
      /\ s \in TensorSteps
  BY DEF TensorSteps
<1>3. TensorJob'
  BY <1>1, <1>2 DEF TensorJob, Tensor!Models, AttachSteps
<1>4. TensorAnswer'
  BY <1>2 DEF TensorAnswer
<1> QED BY <1>3, <1>4 DEF TensorInv

LEMMA TensorInitialize == ASSUME TensorInv, NEW outcome, Tensor!Initialize(outcome) PROVE TensorInv'
<1>1. /\ Tensor!At("attach", "initialize") /\ ~Tensor!Ready /\ attempted' = TRUE
      /\ UNCHANGED Tensor!records
  BY DEF Tensor!Initialize
<1>2. /\ job.kind = "attach" /\ job.step = "initialize" /\ reads = {}
      /\ job.model \in Onnx /\ local = {}
  BY <1>1, AttachingAt, NamesAttach
<1>3. misused = FALSE /\ held = Lasting
  BY <1>2 DEF TensorInv, TensorHandles
<1>4. context' = context /\ supported' = supported
  BY <1>1 DEF Tensor!records
<1>5. CASE attempted
  <2>1. UNCHANGED <<library, api, environment, held, misused>> /\ outcome = "refused"
    BY <1>5 DEF Tensor!Initialize
  <2>2. Tensor!Return
    BY <2>1 DEF Tensor!Initialize
  <2>3. attempted' = attempted
    BY <1>1, <1>5 DEF TensorInv, TensorStatics
  <2>4. UNCHANGED <<Tensor!statics, Tensor!records>>
    BY <1>1, <2>1, <2>3 DEF Tensor!statics
  <2> QED BY <1>3, <2>1, <2>2, <2>4, TensorStays, TensorReturns
<1>6. CASE ~attempted
  <2>1. ~library /\ ~environment /\ ~api
    BY <1>6 DEF TensorInv, TensorStatics
  <2>2. /\ outcome \in {"no library", "no symbol", "no base", "no version", "no environment", "ready"}
        /\ library' = (outcome \notin {"no library", "no symbol"})
        /\ api' = (outcome = "ready") /\ environment' = (outcome = "ready")
        /\ Tensor!Hold({}, {}, IF outcome \in {"no library", "no symbol"} THEN {}
                               ELSE IF outcome = "ready" THEN Tensor!Own ELSE Tensor!Of({"library"}))
    BY <1>6 DEF Tensor!Initialize
  <2>3. TensorStatics'
    BY <1>1, <1>4, <2>2 DEF TensorInv, TensorStatics
  <2> DEFINE owned == UNION {Tensor!Owned(m) : m \in context}
             taken == IF outcome \in {"no library", "no symbol"} THEN {}
                      ELSE IF outcome = "ready" THEN Tensor!Own ELSE Tensor!Of({"library"})
  <2>4. Lasting = owned
    BY <2>1 DEF Lasting, Tensor!Library, Tensor!Environment
  <2>5. Lasting' = owned \cup taken
    <3>1. (UNION {Tensor!Owned(m) : m \in context})' = owned
      BY <1>4 DEF Tensor!Owned
    <3>2. Tensor!Library' \cup Tensor!Environment' = taken
      BY <2>2 DEF Tensor!Library, Tensor!Environment, Tensor!Own, Tensor!Of
    <3> HIDE DEF owned, taken
    <3> QED BY <3>1, <3>2 DEF Lasting
  <2>6. taken \cap held = {}
    <3>1. \A handle \in taken : handle \in {<<"library", "none">>, <<"environment", "none">>}
      BY DEF Tensor!Own, Tensor!Of, Tensor!None
    <3>2. \A handle \in owned : \E m : handle \in {<<"session", m>>, <<"context", m>>}
      BY DEF Tensor!Owned, Tensor!Session, Tensor!Box
    <3> HIDE DEF owned, taken
    <3> QED BY <1>3, <2>4, <3>1, <3>2
  <2>7. misused' = FALSE /\ held' = Lasting'
    <3>1. held' = (held \ {}) \cup taken
          /\ misused' = (misused \/ ~({} \cup {} \subseteq held) \/ taken \cap held # {})
      BY <2>2 DEF Tensor!Hold
    <3> HIDE DEF taken, owned
    <3> QED BY <1>3, <2>4, <2>5, <2>6, <3>1
  <2>8. CASE outcome = "ready"
    <3>1. Tensor!Go("options") /\ local' = {} /\ Tensor!Keep
      BY <2>8 DEF Tensor!Initialize
    <3>2. /\ TensorHandles'
          /\ job' = [kind |-> job.kind, model |-> job.model, step |-> "options"]
      BY <2>7, <3>1, TensorGoes, NamesAttach DEF TensorSteps, AttachSteps
    <3>3. environment' /\ reads' = reads
      BY <2>2, <2>8, <3>1 DEF Tensor!Keep
    <3> QED BY <1>2, <1>4, <2>3, <3>2, <3>3, AttachGoes DEF AttachSteps
  <2>9. CASE outcome # "ready"
    <3>1. Tensor!Return
      BY <2>9 DEF Tensor!Initialize
    <3> QED BY <2>3, <2>7, <3>1, TensorReturns
  <2> QED BY <2>8, <2>9
<1> QED BY <1>5, <1>6

LEMMA TensorIsReady == ASSUME TensorInv, Tensor!IsReady PROVE TensorInv'
<1>1. /\ Tensor!At("attach", "initialize") /\ Tensor!Ready /\ Tensor!Go("options")
      /\ UNCHANGED <<Tensor!statics, Tensor!records, reads, local, held, misused>>
  BY DEF Tensor!IsReady
<1>2. job.kind = "attach" /\ job.model \in Onnx /\ local = {}
  BY <1>1, AttachingAt, NamesAttach
<1>3. TensorStatics' /\ Lasting' = Lasting
  BY <1>1, TensorStays
<1>4. misused' = FALSE /\ held' = Lasting' \cup local'
  BY <1>1, <1>3 DEF TensorInv, TensorHandles
<1>5. /\ TensorHandles'
      /\ job' = [kind |-> job.kind, model |-> job.model, step |-> "options"]
  BY <1>1, <1>2, <1>4, TensorGoes, NamesAttach DEF TensorSteps, AttachSteps
<1>6. environment' /\ context' = context
  BY <1>1 DEF Tensor!Ready, Tensor!statics, Tensor!records
<1> QED BY <1>1, <1>2, <1>3, <1>5, <1>6, AttachGoes DEF AttachSteps

LEMMA TensorAttachModel ==
  ASSUME TensorInv, NEW m \in Tensor!Models, Tensor!AttachModel(m) PROVE TensorInv'
<1>1. /\ job = Tensor!Idle /\ Tensor!Attach(m)
      /\ UNCHANGED <<Tensor!statics, Tensor!records, request, output, local, response, reads, held, misused>>
  BY DEF Tensor!AttachModel
<1>2. job.kind = "none" /\ job.step = "none" /\ job.model = "none"
  BY <1>1 DEF Tensor!Idle, Tensor!None
<1>3. local = {} /\ reads = {} /\ misused = FALSE /\ held = Lasting \cup local
  BY <1>2, NamesAttach DEF TensorInv, TensorHandles, TensorJob
<1>4. TensorStatics' /\ Lasting' = Lasting
  BY <1>1, TensorStays
<1> DEFINE step == IF m \in Onnx THEN "initialize" ELSE "projector"
<1>5. CASE m \in context
  <2>1. job' = job
    BY <1>1, <1>5 DEF Tensor!Attach
  <2>2. TensorHandles'
    BY <1>1, <1>2, <1>3, <1>4, <2>1, NamesAttach DEF TensorHandles
  <2>3. TensorJob'
    BY <1>1, <1>2, <1>3, <2>1 DEF TensorJob, TensorSteps, Tensor!Idle, Tensor!None
  <2>4. TensorAnswer'
    BY <1>2, <2>1 DEF TensorAnswer
  <2> QED BY <1>4, <2>2, <2>3, <2>4 DEF TensorInv
<1>6. CASE m \notin context
  <2>1. job' = [kind |-> "attach", model |-> m, step |-> step]
    BY <1>1, <1>6 DEF Tensor!Attach
  <2>2. job'.kind = "attach" /\ job'.model = m /\ job'.step = step
    BY <2>1
  <2>3. step \in {"initialize", "projector"} /\ step \in TensorSteps
        /\ IF m \in Onnx THEN step \in AttachSteps ELSE step = "projector"
    BY DEF TensorSteps, AttachSteps
  <2> HIDE DEF step
  <2>4. TensorHandles'
    <3>1. step # "context" /\ Tensor!Of(Names(step)) = {}
      BY <2>3, NamesAttach
    <3> QED BY <1>1, <1>3, <1>4, <2>2, <3>1 DEF TensorHandles
  <2>5. TensorJob'
    <3>1. job' \in [kind : {"none", "attach", "run"}, model : Tensor!Models \cup {"none"},
                    step : TensorSteps]
      BY <2>1, <2>3
    <3>2. reads' = {} /\ context' = context
      BY <1>1, <1>3 DEF Tensor!records
    <3> QED BY <1>6, <2>2, <2>3, <3>1, <3>2 DEF TensorJob, Tensor!Models
  <2>6. TensorAnswer'
    BY <2>2 DEF TensorAnswer
  <2> QED BY <1>4, <2>4, <2>5, <2>6 DEF TensorInv
<1> QED BY <1>5, <1>6

LEMMA TensorCreateOptions ==
  ASSUME TensorInv, NEW ok \in BOOLEAN, Tensor!CreateOptions(ok) PROVE TensorInv'
<1>1. /\ Tensor!At("attach", "options") /\ UNCHANGED <<Tensor!statics, Tensor!records>>
      /\ Tensor!Hold(Tensor!Of({"environment"}), {}, IF ok THEN Tensor!Of({"options"}) ELSE {})
  BY DEF Tensor!CreateOptions
<1>2. job.kind = "attach" /\ job.model \in Onnx /\ local = {} /\ environment
  BY <1>1, AttachingAt, NamesAttach DEF AttachSteps
<1>3. TensorStatics' /\ Lasting' = Lasting
  BY <1>1, TensorStays
<1> DEFINE taken == IF ok THEN Tensor!Of({"options"}) ELSE {}
<1>4. Tensor!Of({"environment"}) \subseteq held /\ taken \cap held = {} /\ held = Lasting
  <2>1. held = Lasting
    BY <1>2 DEF TensorInv, TensorHandles
  <2>2. Tensor!Of({"environment"}) \subseteq Lasting
    BY <1>2 DEF Lasting, Tensor!Environment
  <2>3. Tensor!Of({"options"}) \cap Lasting = {}
    BY TensorApart, NamesAttach
  <2> QED BY <2>1, <2>2, <2>3
<1>5. misused' = FALSE /\ held' = Lasting \cup taken
  <2>1. misused = FALSE
    BY DEF TensorInv, TensorHandles
  <2>2. /\ held' = (held \ {}) \cup taken
        /\ misused' = (misused \/ ~(Tensor!Of({"environment"}) \cup {} \subseteq held) \/ taken \cap held # {})
    BY <1>1 DEF Tensor!Hold
  <2> HIDE DEF taken
  <2> QED BY <1>4, <2>1, <2>2
<1>6. CASE ok
  <2>1. Tensor!Go("level") /\ local' = Tensor!Of({"options"}) /\ Tensor!Keep
    BY <1>6 DEF Tensor!CreateOptions
  <2>2. /\ TensorHandles'
        /\ job' = [kind |-> job.kind, model |-> job.model, step |-> "level"]
    BY <1>3, <1>5, <1>6, <2>1, TensorGoes, NamesAttach DEF TensorSteps, AttachSteps
  <2>3. environment' /\ context' = context /\ reads' = reads
    BY <1>1, <1>2, <2>1 DEF Tensor!statics, Tensor!records, Tensor!Keep
  <2> QED BY <1>2, <1>3, <2>2, <2>3, AttachGoes DEF AttachSteps
<1>7. CASE ~ok
  <2>1. Tensor!Return
    BY <1>7 DEF Tensor!CreateOptions
  <2> QED BY <1>3, <1>5, <1>7, <2>1, TensorReturns
<1> QED BY <1>6, <1>7

LEMMA TensorSetLevel ==
  ASSUME TensorInv, NEW ok \in BOOLEAN, Tensor!SetLevel(ok) PROVE TensorInv'
<1>1. /\ Tensor!At("attach", "level") /\ UNCHANGED <<Tensor!statics, Tensor!records>>
      /\ Tensor!Hold(Tensor!Of({"options"}), IF ok THEN {} ELSE local, {})
  BY DEF Tensor!SetLevel
<1>2. job.kind = "attach" /\ job.model \in Onnx /\ local = Tensor!Of({"options"}) /\ environment
  BY <1>1, AttachingAt, NamesAttach DEF AttachSteps
<1>3. TensorStatics' /\ Lasting' = Lasting
  BY <1>1, TensorStays
<1>4. held = Lasting \cup local /\ misused = FALSE
  BY DEF TensorInv, TensorHandles
<1>5. local \cap Lasting = {}
  BY <1>2, TensorApart, NamesAttach
<1>6. misused' = FALSE /\ held' = Lasting \cup (IF ok THEN local ELSE {})
  BY <1>1, <1>2, <1>4, <1>5 DEF Tensor!Hold
<1>7. CASE ok
  <2>1. Tensor!Go("session") /\ local' = local /\ Tensor!Keep
    BY <1>7 DEF Tensor!SetLevel
  <2>2. /\ TensorHandles'
        /\ job' = [kind |-> job.kind, model |-> job.model, step |-> "session"]
    BY <1>2, <1>3, <1>6, <1>7, <2>1, TensorGoes, NamesAttach DEF TensorSteps, AttachSteps
  <2>3. environment' /\ context' = context /\ reads' = reads
    BY <1>1, <1>2, <2>1 DEF Tensor!statics, Tensor!records, Tensor!Keep
  <2> QED BY <1>2, <1>3, <2>2, <2>3, AttachGoes DEF AttachSteps
<1>8. CASE ~ok
  <2>1. Tensor!Return
    BY <1>8 DEF Tensor!SetLevel
  <2> QED BY <1>3, <1>6, <1>8, <2>1, TensorReturns
<1> QED BY <1>7, <1>8

LEMMA TensorCreateSession ==
  ASSUME TensorInv, NEW ok \in BOOLEAN, Tensor!CreateSession(ok) PROVE TensorInv'
<1> DEFINE taken == IF ok THEN {Tensor!Session(job.model)} ELSE {}
<1>1. /\ Tensor!At("attach", "session") /\ UNCHANGED <<Tensor!statics, Tensor!records>>
      /\ Tensor!Hold(Tensor!Of({"environment"}), Tensor!Of({"options"}), taken)
  BY DEF Tensor!CreateSession
<1>2. /\ job.kind = "attach" /\ job.model \in Onnx /\ local = Tensor!Of({"options"}) /\ environment
      /\ job.model \notin context
  BY <1>1, AttachingAt, NamesAttach DEF AttachSteps
<1>3. TensorStatics' /\ Lasting' = Lasting
  BY <1>1, TensorStays
<1>4. held = Lasting \cup local /\ misused = FALSE
  BY DEF TensorInv, TensorHandles
<1>5. local \cap Lasting = {}
  BY <1>2, TensorApart, NamesAttach
<1>6. taken \cap held = {}
  <2>1. Tensor!Session(job.model) \notin Lasting
    BY <1>2, TensorApart
  <2>2. Tensor!Session(job.model) \notin Tensor!Of({"options"})
    BY DEF Tensor!Session, Tensor!Of
  <2> QED BY <1>2, <1>4, <2>1, <2>2
<1>7. Tensor!Of({"environment"}) \subseteq Lasting
  BY <1>2 DEF Lasting, Tensor!Environment
<1>8. misused' = FALSE /\ held' = Lasting \cup taken
  <2> HIDE DEF taken
  <2> QED BY <1>1, <1>2, <1>4, <1>5, <1>6, <1>7 DEF Tensor!Hold
<1>9. CASE ok
  <2>1. Tensor!Go("context") /\ local' = {Tensor!Session(job.model)} /\ Tensor!Keep
    BY <1>9 DEF Tensor!CreateSession
  <2>2. job' = [kind |-> job.kind, model |-> job.model, step |-> "context"]
    BY <2>1 DEF Tensor!Go, TensorInv, TensorJob
  <2>3. job'.step = "context" /\ job'.model = job.model
    BY <2>2
  <2>4. TensorHandles'
    <3>1. (IF job.step = "context" THEN {Tensor!Session(job.model)} ELSE Tensor!Of(Names(job.step)))'
            = {Tensor!Session(job.model)}
      BY <2>3 DEF Tensor!Session
    <3> QED BY <1>3, <1>8, <1>9, <2>1, <3>1 DEF TensorHandles
  <2>5. environment' /\ context' = context /\ reads' = reads
    BY <1>1, <1>2, <2>1 DEF Tensor!statics, Tensor!records, Tensor!Keep
  <2> QED BY <1>2, <1>3, <2>2, <2>4, <2>5, AttachGoes DEF AttachSteps
<1>10. CASE ~ok
  <2>1. Tensor!Return
    BY <1>10 DEF Tensor!CreateSession
  <2> QED BY <1>3, <1>8, <1>10, <2>1, TensorReturns
<1> QED BY <1>9, <1>10

\* A model is attached with what it owns.
LEMMA TensorAttached ==
  ASSUME TensorInv, NEW m \in Tensor!Models, context' = context \cup {m},
         supported' = supported \cup {m}, UNCHANGED Tensor!statics
  PROVE  TensorStatics' /\ Lasting' = Lasting \cup Tensor!Owned(m)
<1>1. UNCHANGED <<attempted, library, api, environment>>
  BY DEF Tensor!statics
<1>2. TensorStatics'
  BY <1>1 DEF TensorInv, TensorStatics, Tensor!Models
<1>3. (UNION {Tensor!Owned(x) : x \in context})' =
        (UNION {Tensor!Owned(x) : x \in context}) \cup Tensor!Owned(m)
  <2>1. (UNION {Tensor!Owned(x) : x \in context})' = UNION {Tensor!Owned(x) : x \in context'}
    BY DEF Tensor!Owned
  <2> QED BY <2>1
<1>4. Tensor!Library' = Tensor!Library /\ Tensor!Environment' = Tensor!Environment
  BY <1>1 DEF Tensor!Library, Tensor!Environment
<1>5. Lasting' = Lasting \cup Tensor!Owned(m)
  BY <1>3, <1>4 DEF Lasting
<1> QED BY <1>2, <1>5

LEMMA TensorAllocateContext ==
  ASSUME TensorInv, NEW ok \in BOOLEAN, Tensor!AllocateContext(ok) PROVE TensorInv'
<1>1. Tensor!At("attach", "context") /\ Tensor!Return /\ UNCHANGED Tensor!statics
  BY DEF Tensor!AllocateContext
<1>2. /\ job.kind = "attach" /\ job.model \in Onnx /\ local = {Tensor!Session(job.model)}
      /\ job.model \in Tensor!Models \ context
  BY <1>1, AttachingAt DEF AttachSteps
<1>3. held = Lasting \cup local /\ misused = FALSE
  BY DEF TensorInv, TensorHandles
<1>4. Tensor!Session(job.model) \notin Lasting /\ Tensor!Box(job.model) \notin Lasting
      /\ Tensor!Session(job.model) # Tensor!Box(job.model)
  BY <1>2, TensorApart DEF Tensor!Session, Tensor!Box
<1>5. CASE ok
  <2>1. /\ context' = context \cup {job.model} /\ supported' = supported \cup {job.model}
        /\ Tensor!Hold({}, {}, {Tensor!Box(job.model)})
    BY <1>5 DEF Tensor!AllocateContext
  <2>2. TensorStatics' /\ Lasting' = Lasting \cup Tensor!Owned(job.model)
    BY <1>1, <1>2, <2>1, TensorAttached
  <2>3. misused' = FALSE /\ held' = held \cup {Tensor!Box(job.model)}
    BY <1>2, <1>3, <1>4, <2>1 DEF Tensor!Hold
  <2>4. Tensor!Owned(job.model) = {Tensor!Session(job.model), Tensor!Box(job.model)}
    BY <1>2 DEF Tensor!Owned
  <2>5. held' = Lasting'
    BY <1>2, <1>3, <2>2, <2>3, <2>4
  <2> QED BY <1>1, <2>2, <2>3, <2>5, TensorReturns
<1>6. CASE ~ok
  <2>1. UNCHANGED Tensor!records /\ Tensor!Hold({}, {Tensor!Session(job.model)}, {})
    BY <1>6 DEF Tensor!AllocateContext
  <2>2. misused' = FALSE /\ held' = Lasting
    BY <1>2, <1>3, <1>4, <2>1 DEF Tensor!Hold
  <2>3. TensorStatics' /\ Lasting' = Lasting
    BY <1>1, <2>1, TensorStays
  <2> QED BY <1>1, <2>2, <2>3, TensorReturns
<1> QED BY <1>5, <1>6

LEMMA TensorLoadProjector ==
  ASSUME TensorInv, NEW ok \in BOOLEAN, Tensor!LoadProjector(ok) PROVE TensorInv'
<1>1. Tensor!At("attach", "projector") /\ Tensor!Return /\ UNCHANGED Tensor!statics
  BY DEF Tensor!LoadProjector
<1>2. job.model \notin Onnx /\ local = {} /\ job.model \in Tensor!Models \ context
  BY <1>1, AttachingAt, NamesAttach DEF AttachSteps
<1>3. held = Lasting /\ misused = FALSE
  BY <1>2 DEF TensorInv, TensorHandles
<1>4. Tensor!Box(job.model) \notin Lasting
  BY <1>2, TensorApart
<1>5. CASE ok
  <2>1. /\ context' = context \cup {job.model} /\ supported' = supported \cup {job.model}
        /\ Tensor!Hold({}, {}, {Tensor!Box(job.model)})
    BY <1>5 DEF Tensor!LoadProjector
  <2>2. TensorStatics' /\ Lasting' = Lasting \cup Tensor!Owned(job.model)
    BY <1>1, <1>2, <2>1, TensorAttached
  <2>3. misused' = FALSE /\ held' = held \cup {Tensor!Box(job.model)}
    BY <1>3, <1>4, <2>1 DEF Tensor!Hold
  <2>4. Tensor!Owned(job.model) = {Tensor!Box(job.model)}
    BY <1>2 DEF Tensor!Owned
  <2>5. held' = Lasting'
    BY <1>3, <2>2, <2>3, <2>4
  <2> QED BY <1>1, <2>2, <2>3, <2>5, TensorReturns
<1>6. CASE ~ok
  <2>1. UNCHANGED <<Tensor!records, held, misused>>
    BY <1>6 DEF Tensor!LoadProjector, Tensor!records
  <2>2. TensorStatics' /\ Lasting' = Lasting
    BY <1>1, <2>1, TensorStays
  <2> QED BY <1>1, <1>3, <2>1, <2>2, TensorReturns
<1> QED BY <1>5, <1>6

\* A model that goes while nobody is in a call.
LEMMA TensorIdle ==
  ASSUME TensorInv, job = Tensor!Idle, UNCHANGED Tensor!call, TensorStatics',
         misused' = FALSE, held' = Lasting'
  PROVE  TensorInv'
<1>1. job.kind = "none" /\ job.step = "none" /\ job.model = "none"
  BY DEF Tensor!Idle, Tensor!None
<1>2. local = {} /\ reads = {}
  BY <1>1, NamesAttach DEF TensorInv, TensorHandles, TensorJob
<1>3. job' = job /\ local' = {} /\ reads' = {}
  BY <1>2 DEF Tensor!call
<1>4. TensorHandles'
  BY <1>1, <1>3, NamesAttach DEF TensorHandles
<1>5. TensorJob'
  BY <1>1, <1>3 DEF TensorJob, TensorSteps, Tensor!Idle, Tensor!None
<1>6. TensorAnswer'
  BY <1>1, <1>3 DEF TensorAnswer
<1> QED BY <1>4, <1>5, <1>6 DEF TensorInv

LEMMA TensorUnload == ASSUME TensorInv, NEW m \in Tensor!Models, Tensor!Unload(m) PROVE TensorInv'
<1>1. /\ job = Tensor!Idle /\ context' = context \ {m} /\ supported' = supported \ {m}
      /\ Tensor!Hold({}, IF m \in context THEN Tensor!Owned(m) ELSE {}, {})
      /\ UNCHANGED <<Tensor!statics, Tensor!call>>
  BY DEF Tensor!Unload, Tensor!Detach
<1>2. UNCHANGED <<attempted, library, api, environment>>
  BY <1>1 DEF Tensor!statics
<1>3. TensorStatics'
  BY <1>1, <1>2 DEF TensorInv, TensorStatics
<1>4. held = Lasting /\ misused = FALSE
  <2>1. job.step = "none"
    BY <1>1 DEF Tensor!Idle, Tensor!None
  <2> QED BY <2>1, NamesAttach DEF TensorInv, TensorHandles
<1> DEFINE others_of == UNION {Tensor!Owned(x) : x \in context \ {m}}
           rest == Tensor!Library \cup Tensor!Environment \cup others_of
<1>5. Lasting' = rest
  <2>1. Tensor!Library' = Tensor!Library /\ Tensor!Environment' = Tensor!Environment
    BY <1>2 DEF Tensor!Library, Tensor!Environment
  <2>2. (UNION {Tensor!Owned(x) : x \in context})' = others_of
    BY <1>1 DEF Tensor!Owned
  <2> HIDE DEF others_of
  <2> QED BY <2>1, <2>2 DEF Lasting
<1>6. Tensor!Owned(m) \cap rest = {}
  <2>1. \A handle \in Tensor!Owned(m) : handle \in {<<"session", m>>, <<"context", m>>}
    BY DEF Tensor!Owned, Tensor!Session, Tensor!Box
  <2>2. \A handle \in others_of : \E x \in context \ {m} : handle \in {<<"session", x>>, <<"context", x>>}
    BY DEF Tensor!Owned, Tensor!Session, Tensor!Box
  <2>3. \A handle \in Tensor!Library \cup Tensor!Environment :
          handle \in {<<"library", "none">>, <<"environment", "none">>}
    BY DEF Tensor!Library, Tensor!Environment, Tensor!Of, Tensor!None
  <2> HIDE DEF others_of
  <2> QED BY <2>1, <2>2, <2>3
<1>7. CASE m \in context
  <2>1. Lasting = rest \cup Tensor!Owned(m)
    BY <1>7 DEF Lasting
  <2>2. misused' = FALSE /\ held' = rest
    <3> HIDE DEF rest
    <3> QED BY <1>1, <1>4, <1>6, <1>7, <2>1 DEF Tensor!Hold
  <2> QED BY <1>1, <1>3, <1>5, <2>2, TensorIdle
<1>8. CASE m \notin context
  <2>1. context \ {m} = context
    BY <1>8
  <2>2. Lasting = rest
    BY <2>1 DEF Lasting
  <2>3. misused' = FALSE /\ held' = rest
    <3> HIDE DEF rest
    <3> QED BY <1>1, <1>4, <1>8, <2>2 DEF Tensor!Hold
  <2> QED BY <1>1, <1>3, <1>5, <2>3, TensorIdle
<1> QED BY <1>7, <1>8

LEMMA TensorShutdown == ASSUME TensorInv, Tensor!Shutdown PROVE TensorInv'
<1>1. /\ job = Tensor!Idle /\ context' = context \ Tensor!Models
      /\ supported' = supported \ Tensor!Models
      /\ Tensor!Hold({}, (UNION {Tensor!Owned(m) : m \in context})
                         \cup (IF Tensor!Ready THEN Tensor!Environment ELSE {}) \cup Tensor!Library, {})
      /\ attempted' = FALSE /\ library' = FALSE /\ api' = FALSE /\ environment' = FALSE
      /\ UNCHANGED Tensor!call
  BY DEF Tensor!Shutdown, Tensor!Detach
<1>2. held = Lasting /\ misused = FALSE
  <2>1. job.step = "none"
    BY <1>1 DEF Tensor!Idle, Tensor!None
  <2> QED BY <2>1, NamesAttach DEF TensorInv, TensorHandles
<1>3. context' = {} /\ supported' = {}
  BY <1>1 DEF TensorInv, TensorStatics
<1>4. TensorStatics'
  BY <1>1, <1>3 DEF TensorStatics
<1>5. Lasting' = {}
  BY <1>1, <1>3 DEF Lasting, Tensor!Library, Tensor!Environment
<1>6. Lasting = (UNION {Tensor!Owned(m) : m \in context})
                \cup (IF Tensor!Ready THEN Tensor!Environment ELSE {}) \cup Tensor!Library
  <2>1. (IF Tensor!Ready THEN Tensor!Environment ELSE {}) = Tensor!Environment
    BY DEF Tensor!Ready, Tensor!Environment, TensorInv, TensorStatics
  <2> QED BY <2>1 DEF Lasting
<1>7. misused' = FALSE /\ held' = {}
  BY <1>1, <1>2, <1>6 DEF Tensor!Hold
<1> QED BY <1>1, <1>4, <1>5, <1>7, TensorIdle

-----------------------------------------------------------------------------
(* Running keeps the invariant.                                             *)

\* The calls of nya_ort_run that hand out handles or look at the output.
CallSteps == {"memory", "input", "run", "shape", "type", "rank", "dimensions", "count"}

LEMMA ChainIs ==
  /\ Tensor!Range(Tensor!Chain) \ {"size", "data"} = CallSteps
  /\ Tensor!After("memory") = "input" /\ Tensor!After("input") = "run"
  /\ Tensor!After("run") = "shape" /\ Tensor!After("shape") = "type"
  /\ Tensor!After("type") = "rank" /\ Tensor!After("rank") = "dimensions"
  /\ Tensor!After("dimensions") = "count" /\ Tensor!After("count") = "size"
<1> DEFINE chain == Tensor!Chain
<1>1. DOMAIN chain = 1 .. 10 /\ Len(chain) = 10
  BY DEF Tensor!Chain
<1>2. /\ chain[1] = "memory" /\ chain[2] = "input" /\ chain[3] = "run" /\ chain[4] = "shape"
      /\ chain[5] = "type" /\ chain[6] = "rank" /\ chain[7] = "dimensions"
      /\ chain[8] = "count" /\ chain[9] = "size" /\ chain[10] = "data"
  BY DEF Tensor!Chain
<1> HIDE DEF chain
<1>3. \A i \in 1 .. 10 : i \in {1, 2, 3, 4, 5, 6, 7, 8, 9, 10}
  OBVIOUS
<1>4. ASSUME NEW i \in 1 .. 9, NEW j \in 1 .. 9, chain[i] = chain[j] PROVE i = j
  <2>1. i \in {1, 2, 3, 4, 5, 6, 7, 8, 9} /\ j \in {1, 2, 3, 4, 5, 6, 7, 8, 9}
    OBVIOUS
  <2> QED BY <1>2, <1>4, <2>1
<1>5. ASSUME NEW k \in 1 .. 9 PROVE Tensor!After(chain[k]) = chain[k + 1]
  <2> DEFINE i == CHOOSE j \in 1 .. 9 : chain[j] = chain[k]
  <2>1. i \in 1 .. 9 /\ chain[i] = chain[k]
    OBVIOUS
  <2>2. Tensor!After(chain[k]) = chain[1 + i]
    BY <1>1 DEF Tensor!After, chain
  <2> HIDE DEF i
  <2>3. i = k
    BY <1>4, <2>1
  <2> QED BY <2>2, <2>3
<1>6. /\ Tensor!After("memory") = "input" /\ Tensor!After("input") = "run"
      /\ Tensor!After("run") = "shape" /\ Tensor!After("shape") = "type"
      /\ Tensor!After("type") = "rank" /\ Tensor!After("rank") = "dimensions"
      /\ Tensor!After("dimensions") = "count" /\ Tensor!After("count") = "size"
  <2>1. /\ 1 \in 1 .. 9 /\ 2 \in 1 .. 9 /\ 3 \in 1 .. 9 /\ 4 \in 1 .. 9
        /\ 5 \in 1 .. 9 /\ 6 \in 1 .. 9 /\ 7 \in 1 .. 9 /\ 8 \in 1 .. 9
    OBVIOUS
  <2>2. /\ Tensor!After(chain[1]) = chain[1 + 1] /\ Tensor!After(chain[2]) = chain[2 + 1]
        /\ Tensor!After(chain[3]) = chain[3 + 1] /\ Tensor!After(chain[4]) = chain[4 + 1]
        /\ Tensor!After(chain[5]) = chain[5 + 1] /\ Tensor!After(chain[6]) = chain[6 + 1]
        /\ Tensor!After(chain[7]) = chain[7 + 1] /\ Tensor!After(chain[8]) = chain[8 + 1]
    BY <1>5, <2>1
  <2> QED BY <1>2, <2>2
<1>7. Tensor!Range(Tensor!Chain) \ {"size", "data"} = CallSteps
  <2>1. Tensor!Range(Tensor!Chain) = {chain[i] : i \in 1 .. 10}
    BY <1>1 DEF Tensor!Range, chain
  <2> QED BY <1>2, <1>3, <2>1 DEF CallSteps
<1> QED BY <1>6, <1>7

\* What is known of a request at any step.
LEMMA RunningAt ==
  ASSUME TensorInv, job.kind = "run"
  PROVE  /\ job.model \in context /\ request \in Requests
         /\ local = Tensor!Of(Names(job.step)) /\ local \cap Lasting = {}
         /\ held = Lasting \cup local /\ misused = FALSE
         /\ IF job.model \in Onnx THEN job.step \in RuntimeSteps ELSE job.step \in ProjectorSteps
<1>1. /\ job.model \in context /\ request \in Requests
      /\ IF job.model \in Onnx THEN job.step \in RuntimeSteps ELSE job.step \in ProjectorSteps
  BY DEF TensorInv, TensorJob
<1>2. job.step # "context"
  BY <1>1 DEF RuntimeSteps, ProjectorSteps
<1>3. /\ local = Tensor!Of(Names(job.step)) /\ held = Lasting \cup local /\ misused = FALSE
  BY <1>2 DEF TensorInv, TensorHandles
<1> QED BY <1>1, <1>3, TensorApart

\* A request that goes on.
LEMMA RunGoesOn ==
  ASSUME TensorInv, job.kind = "run", NEW s,
         IF job.model \in Onnx THEN s \in RuntimeSteps ELSE s \in ProjectorSteps,
         Tensor!Go(s), UNCHANGED <<Tensor!statics, Tensor!records, request>>,
         misused' = FALSE, held' = Lasting \cup local', local' = Tensor!Of(Names(s))
  PROVE  /\ TensorStatics' /\ TensorHandles' /\ TensorJob'
         /\ job' = [kind |-> "run", model |-> job.model, step |-> s]
<1>1. s \in TensorSteps /\ s # "context"
  BY DEF TensorSteps, RuntimeSteps, ProjectorSteps
<1>2. TensorStatics' /\ Lasting' = Lasting
  BY TensorStays
<1>3. /\ TensorHandles'
      /\ job' = [kind |-> job.kind, model |-> job.model, step |-> s]
      /\ job' \in [kind : {"none", "attach", "run"}, model : Tensor!Models \cup {"none"},
                   step : TensorSteps]
  BY <1>1, <1>2, TensorGoes
<1>4. job'.kind = "run" /\ job'.model = job.model /\ job'.step = s
  BY <1>3
<1>5. job.model \in context /\ request \in Requests
  BY RunningAt
<1>6. context' = context /\ request' = request
  BY DEF Tensor!records
<1>7. TensorJob'
  BY <1>3, <1>4, <1>5, <1>6 DEF TensorJob, Tensor!Models
<1> QED BY <1>2, <1>3, <1>7

\* A request that fails gives back what it held.
LEMMA RunGivesBack ==
  ASSUME TensorInv, job.kind = "run", NEW uses \in SUBSET held, Tensor!Fail(uses),
         UNCHANGED <<Tensor!statics, Tensor!records>>
  PROVE  TensorInv'
<1>1. Tensor!Return /\ Tensor!Hold(uses, local, {})
  BY DEF Tensor!Fail, Tensor!FailureReleases
<1>2. /\ local \cap Lasting = {} /\ held = Lasting \cup local /\ misused = FALSE
  BY RunningAt
<1>3. misused' = FALSE /\ held' = Lasting
  BY <1>1, <1>2 DEF Tensor!Hold
<1> QED BY <1>1, <1>3, TensorStays, TensorReturns

LEMMA TensorBeginRun ==
  ASSUME TensorInv, NEW m \in Tensor!Models, NEW r \in Requests, Tensor!BeginRun(m, r)
  PROVE  TensorInv'
<1> DEFINE step == IF m \in Onnx THEN "memory" ELSE "buffers"
<1>1. /\ job = Tensor!Idle /\ m \in context
      /\ job' = [kind |-> "run", model |-> m, step |-> step] /\ request' = r
      /\ UNCHANGED <<Tensor!statics, Tensor!records, output, local, response, reads, held, misused>>
  BY DEF Tensor!BeginRun
<1>2. IF m \in Onnx THEN Tensor!InputFits(r, Width[r.type], 1 .. RankLimit) ELSE Tensor!ProjectorFits(r)
  BY DEF Tensor!BeginRun
<1>3. job.kind = "none" /\ job.step = "none"
  BY <1>1 DEF Tensor!Idle, Tensor!None
<1>4. local = {} /\ reads = {} /\ misused = FALSE /\ held = Lasting
  BY <1>3, NamesAttach DEF TensorInv, TensorHandles, TensorJob
<1>5. TensorStatics' /\ Lasting' = Lasting
  BY <1>1, TensorStays
<1>6. job'.kind = "run" /\ job'.model = m /\ job'.step = step
  BY <1>1
<1>7. TensorHandles'
  <2>1. Tensor!Of(Names(step)) = {} /\ step # "context"
    BY NamesAttach
  <2> HIDE DEF step
  <2> QED BY <1>1, <1>4, <1>5, <1>6, <2>1 DEF TensorHandles
<1>8. TensorJob'
  <2>1. step \in TensorSteps /\ step \in IF m \in Onnx THEN RuntimeSteps ELSE ProjectorSteps
    BY DEF TensorSteps, RuntimeSteps, ProjectorSteps
  <2> HIDE DEF step
  <2>2. job' \in [kind : {"none", "attach", "run"}, model : Tensor!Models \cup {"none"},
                  step : TensorSteps]
    BY <1>1, <2>1
  <2>3. context' = context
    BY <1>1 DEF Tensor!records
  <2> QED BY <1>1, <1>6, <2>1, <2>2, <2>3 DEF TensorJob, Tensor!Models
<1>9. TensorAnswer'
  <2>1. CASE m \in Onnx
    <3>1. Tensor!InputFits(request, Width[request.type], 1 .. RankLimit)'
      BY <1>1, <1>2, <2>1
    <3> QED BY <1>6, <2>1, <3>1 DEF TensorAnswer
  <2>2. CASE m \notin Onnx
    <3>1. Tensor!ProjectorFits(request)'
      BY <1>1, <1>2, <2>2
    <3> QED BY <1>1, <1>4, <1>6, <2>2, <3>1 DEF TensorAnswer
  <2> QED BY <2>1, <2>2
<1> QED BY <1>5, <1>7, <1>8, <1>9 DEF TensorInv

\* The facts of a request that no step changes.
LEMMA RequestKept ==
  ASSUME TensorInv, job.kind = "run", UNCHANGED <<request, output>>
  PROVE  /\ job.model \in Onnx =>
              /\ Tensor!InputFits(request, Width[request.type], 1 .. RankLimit)'
              /\ job.step = "data" => Tensor!OutputFits'
         /\ job.model \notin Onnx => Tensor!ProjectorFits(request)'
<1>1. /\ job.model \in Onnx =>
           /\ Tensor!InputFits(request, Width[request.type], 1 .. RankLimit)
           /\ job.step = "data" => Tensor!OutputFits
      /\ job.model \notin Onnx => Tensor!ProjectorFits(request)
  BY DEF TensorInv, TensorAnswer
<1>2. Tensor!OutputFits => Tensor!OutputFits'
  BY DEF Tensor!OutputFits
<1> QED BY <1>1, <1>2

\* What each call uses, and what the function holds after it.
LEMMA CallHandles ==
  ASSUME NEW step \in CallSteps
  PROVE  /\ Tensor!Uses(step) \subseteq Tensor!Of(Names(step)) \cup {Tensor!Session(job.model)}
         /\ Tensor!Of(Names(Tensor!After(step))) = Tensor!Of(Names(step)) \cup Tensor!Gives(step)
         /\ Tensor!Of(Names(step)) \cap Tensor!Gives(step) = {}
         /\ Tensor!Gives(step) \cap Lasting = {}
         /\ Tensor!After(step) \in RuntimeSteps \ {"data", "answer"}
<1> DEFINE handles == CASE step = "memory" -> {"memory"} [] step = "input" -> {"input"}
                        [] step = "run" -> {"output"} [] step = "shape" -> {"shape"} [] OTHER -> {}
<1>1. \A S, T : Tensor!Of(S \cup T) = Tensor!Of(S) \cup Tensor!Of(T)
  BY DEF Tensor!Of
<1>2. \A S, T : S \cap T = {} => Tensor!Of(S) \cap Tensor!Of(T) = {}
  BY DEF Tensor!Of
<1>3. \A S, T : S \subseteq T => Tensor!Of(S) \subseteq Tensor!Of(T)
  BY DEF Tensor!Of
<1>4. Tensor!Of({}) = {}
  BY DEF Tensor!Of
<1>5. Tensor!Gives(step) = Tensor!Of(handles)
  BY <1>4 DEF Tensor!Gives, CallSteps
<1>6. /\ Names(Tensor!After(step)) = Names(step) \cup handles
      /\ Names(step) \cap handles = {}
      /\ Tensor!After(step) \in RuntimeSteps \ {"data", "answer"}
  BY ChainIs DEF CallSteps, Names, RuntimeSteps
<1>7. Tensor!Uses(step) \subseteq Tensor!Of(Names(step)) \cup {Tensor!Session(job.model)}
  <2>1. CASE step = "memory"
    BY <2>1 DEF Tensor!Uses
  <2>2. CASE step = "input"
    <3>1. Names(step) = {"memory"} /\ Tensor!Uses(step) = Tensor!Of({"memory"})
      BY <2>2 DEF Tensor!Uses, Names
    <3> QED BY <3>1
  <2>3. CASE step = "run"
    <3>1. Names(step) = {"memory", "input"}
          /\ Tensor!Uses(step) = Tensor!Of({"input"}) \cup {Tensor!Session(job.model)}
      BY <2>3 DEF Tensor!Uses, Names
    <3> QED BY <1>3, <3>1
  <2>4. CASE step = "shape"
    <3>1. Names(step) = {"memory", "input", "output"} /\ Tensor!Uses(step) = Tensor!Of({"output"})
      BY <2>4 DEF Tensor!Uses, Names
    <3> QED BY <1>3, <3>1
  <2>5. CASE step \in {"type", "rank", "dimensions", "count"}
    <3>1. Names(step) = {"memory", "input", "output", "shape"}
          /\ Tensor!Uses(step) = Tensor!Of({"shape"})
      BY <2>5 DEF Tensor!Uses, Names
    <3> QED BY <1>3, <3>1
  <2> QED BY <2>1, <2>2, <2>3, <2>4, <2>5 DEF CallSteps
<1> HIDE DEF handles
<1>8. Tensor!Of(Names(Tensor!After(step))) = Tensor!Of(Names(step)) \cup Tensor!Gives(step)
  BY <1>1, <1>5, <1>6
<1>9. Tensor!Of(Names(step)) \cap Tensor!Gives(step) = {}
  BY <1>2, <1>5, <1>6
<1>10. Tensor!Gives(step) \cap Lasting = {}
  <2>1. Tensor!Of(Names(Tensor!After(step))) \cap Lasting = {}
    BY TensorApart
  <2> QED BY <1>8, <2>1
<1> QED BY <1>6, <1>7, <1>8, <1>9, <1>10

LEMMA TensorRuntimeCall ==
  ASSUME TensorInv, NEW ok \in BOOLEAN, Tensor!RuntimeCall(ok) PROVE TensorInv'
<1>1. /\ job.kind = "run" /\ job.step \in CallSteps
      /\ UNCHANGED <<Tensor!statics, Tensor!records>>
  BY ChainIs DEF Tensor!RuntimeCall
<1>2. /\ job.model \in context /\ request \in Requests
      /\ local = Tensor!Of(Names(job.step)) /\ local \cap Lasting = {}
      /\ held = Lasting \cup local /\ misused = FALSE
      /\ IF job.model \in Onnx THEN job.step \in RuntimeSteps ELSE job.step \in ProjectorSteps
  BY <1>1, RunningAt
<1>3. job.model \in Onnx
  BY <1>1, <1>2 DEF CallSteps, ProjectorSteps
<1>4. Tensor!Session(job.model) \in Lasting
  BY <1>2, <1>3 DEF Lasting, Tensor!Owned
<1>5. Tensor!Uses(job.step) \subseteq held
  BY <1>1, <1>2, <1>4, CallHandles
<1>6. CASE ok /\ (job.step = "rank" => output.rank <= RankLimit)
  <2>1. /\ Tensor!Go(Tensor!After(job.step)) /\ local' = local \cup Tensor!Gives(job.step)
        /\ Tensor!Hold(Tensor!Uses(job.step), {}, Tensor!Gives(job.step))
        /\ UNCHANGED <<request, response, reads>>
    BY <1>6 DEF Tensor!RuntimeCall
  <2>2. /\ local' = Tensor!Of(Names(Tensor!After(job.step)))
        /\ Tensor!Gives(job.step) \cap held = {}
        /\ Tensor!After(job.step) \in RuntimeSteps \ {"data", "answer"}
    BY <1>1, <1>2, <2>1, CallHandles
  <2>3. misused' = FALSE /\ held' = Lasting \cup local'
    BY <1>2, <1>5, <2>1, <2>2 DEF Tensor!Hold
  <2> DEFINE s == Tensor!After(job.step)
  <2>4. /\ TensorStatics' /\ TensorHandles' /\ TensorJob'
        /\ job' = [kind |-> "run", model |-> job.model, step |-> s]
    <3>1. s \in RuntimeSteps /\ Tensor!Go(s) /\ local' = Tensor!Of(Names(s))
      BY <2>1, <2>2
    <3> HIDE DEF s
    <3> QED BY <1>1, <1>3, <2>1, <2>3, <3>1, RunGoesOn
  <2>5. job'.kind = "run" /\ job'.model = job.model /\ job'.step \notin {"data", "answer"}
    BY <2>2, <2>4
  <2>6. Tensor!InputFits(request, Width[request.type], 1 .. RankLimit)'
    <3>1. Tensor!InputFits(request, Width[request.type], 1 .. RankLimit)
      BY <1>1, <1>3 DEF TensorInv, TensorAnswer
    <3> QED BY <2>1, <3>1
  <2>7. TensorAnswer'
    BY <1>3, <2>5, <2>6 DEF TensorAnswer
  <2> QED BY <2>4, <2>7 DEF TensorInv
<1>7. CASE ~(ok /\ (job.step = "rank" => output.rank <= RankLimit))
  <2>1. Tensor!Fail(Tensor!Uses(job.step))
    BY <1>7 DEF Tensor!RuntimeCall
  <2> QED BY <1>1, <1>5, <2>1, RunGivesBack
<1> QED BY <1>6, <1>7

\* The copy of the output, beside the handles of the runtime.
LEMMA OutputHandles ==
  /\ Tensor!Of(Names("data")) = Tensor!Of(Names("size")) \cup Tensor!Of({"data"})
  /\ Tensor!Of(Names("size")) \cap Tensor!Of({"data"}) = {}
  /\ Tensor!Of({"output"}) \subseteq Tensor!Of(Names("data"))
  /\ Tensor!Of(Names("answer")) = Tensor!Of({"data"})
  /\ Tensor!Of({"data"}) \cap Lasting = {}
<1>1. /\ Names("data") = {"memory", "input", "output", "shape", "data"}
      /\ Names("size") = {"memory", "input", "output", "shape"}
      /\ Names("answer") = {"data"}
  BY DEF Names
<1>2. Tensor!Of(Names("answer")) \cap Lasting = {}
  BY TensorApart
<1>3. /\ Tensor!Of(Names("data")) = Tensor!Of(Names("size")) \cup Tensor!Of({"data"})
      /\ Tensor!Of(Names("size")) \cap Tensor!Of({"data"}) = {}
      /\ Tensor!Of({"output"}) \subseteq Tensor!Of(Names("data"))
  BY <1>1 DEF Tensor!Of
<1> QED BY <1>1, <1>2, <1>3

LEMMA TensorAllocateOutput ==
  ASSUME TensorInv, NEW ok \in BOOLEAN, Tensor!AllocateOutput(ok) PROVE TensorInv'
<1>1. /\ job.kind = "run" /\ job.step = "size" /\ UNCHANGED <<Tensor!statics, Tensor!records>>
  BY DEF Tensor!AllocateOutput, Tensor!At
<1>2. /\ local = Tensor!Of(Names("size")) /\ local \cap Lasting = {}
      /\ held = Lasting \cup local /\ misused = FALSE /\ job.model \in Onnx
  BY <1>1, RunningAt DEF ProjectorSteps
<1>3. CASE ok /\ Tensor!OutputFits
  <2>1. /\ Tensor!Go("data") /\ local' = local \cup Tensor!Of({"data"})
        /\ Tensor!Hold({}, {}, Tensor!Of({"data"})) /\ Tensor!Keep
    BY <1>3 DEF Tensor!AllocateOutput
  <2>2. misused' = FALSE /\ held' = Lasting \cup local' /\ local' = Tensor!Of(Names("data"))
    BY <1>2, <2>1, OutputHandles DEF Tensor!Hold
  <2>3. UNCHANGED <<request, output, response, reads>>
    BY <2>1 DEF Tensor!Keep
  <2>4. /\ TensorStatics' /\ TensorHandles' /\ TensorJob'
        /\ job' = [kind |-> "run", model |-> job.model, step |-> "data"]
    BY <1>1, <1>2, <2>1, <2>2, <2>3, RunGoesOn DEF RuntimeSteps
  <2>5. job'.kind = "run" /\ job'.model = job.model /\ job'.step = "data"
    BY <2>4
  <2>6. Tensor!OutputFits'
    BY <1>3, <2>3 DEF Tensor!OutputFits
  <2>7. Tensor!InputFits(request, Width[request.type], 1 .. RankLimit)'
    BY <1>1, <1>2, <2>3, RequestKept
  <2>8. TensorAnswer'
    BY <1>2, <2>5, <2>6, <2>7 DEF TensorAnswer
  <2> QED BY <2>4, <2>8 DEF TensorInv
<1>4. CASE ~(ok /\ Tensor!OutputFits)
  <2>1. Tensor!Fail({}) /\ {} \in SUBSET held
    BY <1>4 DEF Tensor!AllocateOutput
  <2> QED BY <1>1, <2>1, RunGivesBack
<1> QED BY <1>3, <1>4

LEMMA TensorCopyOutput ==
  ASSUME TensorInv, NEW ok \in BOOLEAN, Tensor!CopyOutput(ok) PROVE TensorInv'
<1>1. /\ job.kind = "run" /\ job.step = "data" /\ UNCHANGED <<Tensor!statics, Tensor!records>>
  BY DEF Tensor!CopyOutput, Tensor!At
<1>2. /\ local = Tensor!Of(Names("data")) /\ local \cap Lasting = {}
      /\ held = Lasting \cup local /\ misused = FALSE /\ job.model \in Onnx
  BY <1>1, RunningAt DEF ProjectorSteps
<1>3. CASE ok
  <2>1. /\ Tensor!Go("answer") /\ local' = Tensor!Of({"data"})
        /\ response' = output.count * Width[output.type]
        /\ Tensor!Hold(Tensor!Of({"output"}), local \ Tensor!Of({"data"}), {})
        /\ UNCHANGED <<request, output, reads>>
    BY <1>3 DEF Tensor!CopyOutput
  <2>2. misused' = FALSE /\ held' = Lasting \cup local' /\ local' = Tensor!Of(Names("answer"))
    BY <1>2, <2>1, OutputHandles DEF Tensor!Hold
  <2>3. /\ TensorStatics' /\ TensorHandles' /\ TensorJob'
        /\ job' = [kind |-> "run", model |-> job.model, step |-> "answer"]
    BY <1>1, <1>2, <2>1, <2>2, RunGoesOn DEF RuntimeSteps
  <2>4. job'.kind = "run" /\ job'.model = job.model /\ job'.step = "answer"
    BY <2>3
  <2>5. /\ Tensor!InputFits(request, Width[request.type], 1 .. RankLimit)'
        /\ Tensor!OutputFits'
    BY <1>1, <1>2, <2>1, RequestKept
  <2>6. response' = output'.count * Width[output'.type]
    BY <2>1
  <2>7. TensorAnswer'
    BY <1>2, <2>4, <2>5, <2>6 DEF TensorAnswer
  <2> QED BY <2>3, <2>7 DEF TensorInv
<1>4. CASE ~ok
  <2>1. Tensor!Fail(Tensor!Of({"output"})) /\ Tensor!Of({"output"}) \in SUBSET held
    BY <1>2, <1>4, OutputHandles DEF Tensor!CopyOutput
  <2> QED BY <1>1, <2>1, RunGivesBack
<1> QED BY <1>3, <1>4

LEMMA TensorFreeResponse == ASSUME TensorInv, Tensor!FreeResponse PROVE TensorInv'
<1>1. /\ job.kind = "run" /\ UNCHANGED <<Tensor!statics, Tensor!records>>
      /\ Tensor!Return /\ Tensor!Hold({}, local, {})
  BY DEF Tensor!FreeResponse, Tensor!At
<1>2. Tensor!Fail({}) /\ {} \in SUBSET held
  BY <1>1 DEF Tensor!Fail, Tensor!FailureReleases
<1> QED BY <1>1, <1>2, RunGivesBack

LEMMA SoftIsCount ==
  ASSUME NEW r \in Requests, Tensor!ProjectorFits(r)
  PROVE  Tensor!SoftTokens(r) \in Nat \ {0}
<1>1. CASE r.name = "image_rgb"
  <2>1. PICK c \in Nat \ {0}, d \in Nat \ {0} : IsImage(r, c, d)
    BY <1>1, ImageShape
  <2>2. Tensor!SoftTokens(r) = d * c
    BY <2>1 DEF IsImage
  <2>3. d * c \in Nat \ {0}
    BY SMT
  <2> QED BY <2>2, <2>3
<1>2. CASE r.name # "image_rgb"
  BY <1>2, ProjectorShape
<1> QED BY <1>1, <1>2

\* The three buffers of a projector.
LEMMA BufferHandles ==
  /\ \A given \in SUBSET {"scratch", "hidden", "data"} :
       Tensor!Cardinality(given) = 3 => given = {"scratch", "hidden", "data"}
  /\ Tensor!Of(Names("token")) = Tensor!Of({"scratch", "hidden", "data"})
  /\ Tensor!Of(Names("answer")) = Tensor!Of({"data"})
  /\ Tensor!Of({"data"}) \subseteq Tensor!Of({"scratch", "hidden", "data"})
<1> DEFINE three == {"scratch", "hidden", "data"}
<1>1. IsFiniteSet(three) /\ Cardinality(three) = 3
  <2>1. IsFiniteSet({}) /\ Cardinality({}) = 0
    BY FS_EmptySet
  <2>2. IsFiniteSet({} \cup {"scratch"}) /\ Cardinality({} \cup {"scratch"}) = 1
    BY <2>1, FS_AddElement
  <2>3. {} \cup {"scratch"} = {"scratch"}
    OBVIOUS
  <2>4. IsFiniteSet({"scratch"} \cup {"hidden"}) /\ Cardinality({"scratch"} \cup {"hidden"}) = 2
    BY <2>2, <2>3, FS_AddElement
  <2>5. {"scratch"} \cup {"hidden"} = {"scratch", "hidden"}
    OBVIOUS
  <2>6. /\ IsFiniteSet({"scratch", "hidden"} \cup {"data"})
        /\ Cardinality({"scratch", "hidden"} \cup {"data"}) = 3
    BY <2>4, <2>5, FS_AddElement
  <2>7. {"scratch", "hidden"} \cup {"data"} = three
    OBVIOUS
  <2> QED BY <2>6, <2>7
<1>2. ASSUME NEW given \in SUBSET three, Tensor!Cardinality(given) = 3 PROVE given = three
  <2>1. Tensor!Cardinality(given) = Cardinality(given)
    BY Zenon DEF Tensor!Cardinality, Cardinality
  <2>2. Cardinality(three) = Cardinality(given)
    BY <1>1, <1>2, <2>1
  <2> HIDE DEF three
  <2> QED BY <1>1, <2>2, FS_Subset
<1>3. /\ Tensor!Of(Names("token")) = Tensor!Of(three)
      /\ Tensor!Of(Names("answer")) = Tensor!Of({"data"})
  BY DEF Names
<1>4. Tensor!Of({"data"}) \subseteq Tensor!Of(three)
  BY DEF Tensor!Of
<1> QED BY <1>2, <1>3, <1>4

LEMMA TensorAllocateBuffers ==
  ASSUME TensorInv, NEW given \in SUBSET {"scratch", "hidden", "data"}, Tensor!AllocateBuffers(given)
  PROVE  TensorInv'
<1>1. job.kind = "run" /\ job.step = "buffers" /\ UNCHANGED <<Tensor!statics, Tensor!records>>
  BY DEF Tensor!AllocateBuffers, Tensor!At
<1>2. /\ local = {} /\ held = Lasting \cup local /\ misused = FALSE /\ job.model \notin Onnx
      /\ request \in Requests
  BY <1>1, RunningAt, NamesAttach DEF RuntimeSteps
<1>3. reads = {} /\ Tensor!ProjectorFits(request)
  BY <1>1, <1>2 DEF TensorInv, TensorAnswer
<1>4. CASE Tensor!Cardinality(given) = 3
  <2>1. /\ Tensor!Go("token") /\ local' = Tensor!Of(given) /\ Tensor!Hold({}, {}, Tensor!Of(given))
        /\ Tensor!Keep
    BY <1>4 DEF Tensor!AllocateBuffers
  <2>2. Tensor!Of(given) = Tensor!Of(Names("token"))
    BY <1>4, BufferHandles
  <2>3. Tensor!Of(given) \cap Lasting = {}
    BY <2>2, TensorApart
  <2>4. misused' = FALSE /\ held' = Lasting \cup local' /\ local' = Tensor!Of(Names("token"))
    BY <1>2, <2>1, <2>2, <2>3 DEF Tensor!Hold
  <2>5. request' = request /\ reads' = reads
    BY <2>1 DEF Tensor!Keep
  <2>6. /\ TensorStatics' /\ TensorHandles' /\ TensorJob'
        /\ job' = [kind |-> "run", model |-> job.model, step |-> "token"]
    BY <1>1, <1>2, <2>1, <2>4, <2>5, RunGoesOn DEF ProjectorSteps
  <2>7. job'.kind = "run" /\ job'.model = job.model /\ job'.step = "token"
    BY <2>6
  <2>8. Tensor!ProjectorFits(request)'
    BY <1>3, <2>5
  <2>9. \E k \in 0 .. Tensor!SoftTokens(request') : reads' = Taken(request', k)
    <3>1. Tensor!SoftTokens(request) \in Nat
      BY <1>2, <1>3, SoftIsCount
    <3>2. Taken(request, 0) = {}
      BY DEF Taken
    <3> QED BY <1>3, <2>5, <3>1, <3>2
  <2>10. TensorAnswer'
    BY <1>2, <2>7, <2>8, <2>9 DEF TensorAnswer
  <2> QED BY <2>6, <2>10 DEF TensorInv
<1>5. CASE Tensor!Cardinality(given) # 3
  <2>1. Tensor!Return /\ UNCHANGED <<held, misused>>
    BY <1>5 DEF Tensor!AllocateBuffers
  <2> QED BY <1>1, <1>2, <2>1, TensorStays, TensorReturns
<1> QED BY <1>4, <1>5

LEMMA TensorProjectToken ==
  ASSUME TensorInv, NEW ok \in BOOLEAN, Tensor!ProjectToken(ok) PROVE TensorInv'
<1>1. job.kind = "run" /\ job.step = "token" /\ UNCHANGED <<Tensor!statics, Tensor!records>>
  BY DEF Tensor!ProjectToken, Tensor!At
<1>2. /\ local = Tensor!Of({"scratch", "hidden", "data"}) /\ local \cap Lasting = {}
      /\ held = Lasting \cup local /\ misused = FALSE /\ job.model \notin Onnx
      /\ request \in Requests
  BY <1>1, RunningAt, BufferHandles DEF RuntimeSteps
<1> DEFINE soft == Tensor!SoftTokens(request)
<1>3. Tensor!ProjectorFits(request) /\ \E k \in 0 .. soft : reads = Taken(request, k)
  BY <1>1, <1>2 DEF TensorInv, TensorAnswer
<1>4. soft \in Nat
  BY <1>2, <1>3, SoftIsCount
<1>5. PICK k \in 0 .. soft : reads = Taken(request, k)
  BY <1>3
<1>6. k \in Nat /\ Tensor!Done = k
  <2>1. k \in Nat
    BY <1>4
  <2>2. Tensor!Cardinality({read[2] : read \in Taken(request, k)}) = k
    BY <1>2, <1>3, <2>1, TokensRead
  <2> QED BY <1>5, <2>1, <2>2 DEF Tensor!Done
<1>7. CASE Tensor!Done = soft /\ ok
  <2>1. /\ Tensor!Go("answer") /\ local' = Tensor!Of({"data"}) /\ response' = soft * 4
        /\ Tensor!Hold({}, local \ Tensor!Of({"data"}), {}) /\ UNCHANGED <<request, output, reads>>
    BY <1>7 DEF Tensor!ProjectToken
  <2>2. misused' = FALSE /\ held' = Lasting \cup local' /\ local' = Tensor!Of(Names("answer"))
    BY <1>2, <2>1, BufferHandles DEF Tensor!Hold
  <2>3. /\ TensorStatics' /\ TensorHandles' /\ TensorJob'
        /\ job' = [kind |-> "run", model |-> job.model, step |-> "answer"]
    BY <1>1, <1>2, <2>1, <2>2, RunGoesOn DEF ProjectorSteps
  <2>4. job'.kind = "run" /\ job'.model = job.model /\ job'.step = "answer"
    BY <2>3
  <2>5. Tensor!ProjectorFits(request)'
    BY <1>1, <1>2, <2>1, RequestKept
  <2>6. reads' = Taken(request', Tensor!SoftTokens(request'))
        /\ response' = Tensor!SoftTokens(request') * 4
    BY <1>5, <1>6, <1>7, <2>1
  <2>7. TensorAnswer'
    BY <1>2, <2>4, <2>5, <2>6 DEF TensorAnswer
  <2> QED BY <2>3, <2>7 DEF TensorInv
<1>8. CASE Tensor!Done # soft /\ (ok \/ request.name # "image_patches")
  <2>1. /\ reads' = reads \cup Tensor!TokenReads(request, Tensor!Done)
        /\ Tensor!Hold(local, {}, {}) /\ UNCHANGED <<job, request, output, local, response>>
    BY <1>8 DEF Tensor!ProjectToken
  <2>2. TensorStatics' /\ Lasting' = Lasting
    BY <1>1, TensorStays
  <2>3. misused' = FALSE /\ held' = held
    BY <1>2, <2>1 DEF Tensor!Hold
  <2>4. TensorHandles'
    <3>1. local = IF job.step = "context" THEN {Tensor!Session(job.model)} ELSE Tensor!Of(Names(job.step))
      BY DEF TensorInv, TensorHandles
    <3>2. Tensor!Session(job.model)' = Tensor!Session(job.model) /\ job' = job
      BY <2>1 DEF Tensor!Session
    <3> QED BY <1>2, <2>1, <2>2, <2>3, <3>1, <3>2 DEF TensorHandles
  <2>5. TensorJob'
    <3>1. context' = context
      BY <1>1 DEF Tensor!records
    <3> QED BY <1>1, <2>1, <3>1 DEF TensorInv, TensorJob, Tensor!Models
  <2>6. reads' = Taken(request', k + 1) /\ k + 1 \in 0 .. Tensor!SoftTokens(request')
    <3>1. Taken(request, k) \cup Tensor!TokenReads(request, k) = Taken(request, k + 1)
      BY <1>2, <1>3, <1>6, TokensRead
    <3>2. k + 1 \in 0 .. soft
      <4> HIDE DEF soft
      <4> QED BY <1>4, <1>6, <1>8
    <3> QED BY <1>5, <1>6, <2>1, <3>1, <3>2
  <2>7. Tensor!ProjectorFits(request)'
    BY <1>1, <1>2, <2>1, RequestKept
  <2>8. TensorAnswer'
    BY <1>1, <1>2, <2>1, <2>6, <2>7 DEF TensorAnswer
  <2> QED BY <2>2, <2>4, <2>5, <2>8 DEF TensorInv
<1>9. CASE /\ ~(Tensor!Done = soft /\ ok)
           /\ ~(Tensor!Done # soft /\ (ok \/ request.name # "image_patches"))
  <2>1. Tensor!Fail({}) /\ {} \in SUBSET held
    BY <1>9 DEF Tensor!ProjectToken
  <2> QED BY <1>1, <2>1, RunGivesBack
<1> QED BY <1>7, <1>8, <1>9

LEMMA TensorNext == TensorInv /\ [Tensor!Next]_(Tensor!vars) => TensorInv'
<1> SUFFICES ASSUME TensorInv, [Tensor!Next]_(Tensor!vars) PROVE TensorInv'
  OBVIOUS
<1>1. CASE Tensor!Loading
  BY <1>1, TensorIsReady, TensorInitialize DEF Tensor!Loading
<1>2. CASE Tensor!Attaching
  BY <1>2, TensorAttachModel, TensorUnload, TensorCreateOptions, TensorSetLevel,
     TensorCreateSession, TensorAllocateContext, TensorLoadProjector, TensorShutdown
     DEF Tensor!Attaching
<1>3. CASE Tensor!Running
  BY <1>3, TensorBeginRun, TensorRuntimeCall, TensorAllocateOutput, TensorCopyOutput,
     TensorProjectToken, TensorAllocateBuffers, TensorFreeResponse DEF Tensor!Running
<1>4. CASE UNCHANGED Tensor!vars
  <2>1. UNCHANGED <<Tensor!statics, Tensor!records, Tensor!call, held, misused>>
    BY <1>4 DEF Tensor!vars
  <2>2. UNCHANGED <<job, request, output, local, response, reads>>
    BY <2>1 DEF Tensor!call
  <2>3. TensorStatics' /\ Lasting' = Lasting
    BY <2>1, TensorStays
  <2>4. TensorHandles'
    <3>1. Tensor!Session(job.model)' = Tensor!Session(job.model)
      BY <2>2 DEF Tensor!Session
    <3> QED BY <2>1, <2>2, <2>3, <3>1 DEF TensorInv, TensorHandles
  <2>5. TensorJob'
    <3>1. context' = context /\ environment' = environment /\ request' = request
      BY <2>1, <2>2 DEF Tensor!records, Tensor!statics
    <3>2. job' = job /\ reads' = reads
      BY <2>2
    <3>3. TensorJob
      BY DEF TensorInv
    <3> QED BY <3>1, <3>2, <3>3 DEF TensorJob
  <2>6. TensorAnswer'
    <3>1. Tensor!OutputFits' <=> Tensor!OutputFits
      BY <2>2 DEF Tensor!OutputFits
    <3> QED BY <2>2, <3>1 DEF TensorInv, TensorAnswer
  <2> QED BY <2>3, <2>4, <2>5, <2>6 DEF TensorInv
<1> QED BY <1>1, <1>2, <1>3, <1>4 DEF Tensor!Next

LEMMA TensorInvExact == TensorInv => Tensor!ExecutionIsExact
<1> SUFFICES ASSUME TensorInv PROVE Tensor!ExecutionIsExact
  OBVIOUS
<1>1. ~misused /\ context = supported
  BY DEF TensorInv, TensorHandles, TensorStatics
<1>2. ASSUME job = Tensor!Idle PROVE held = Lasting
  <2>1. job.step = "none"
    BY <1>2 DEF Tensor!Idle, Tensor!None
  <2> QED BY <2>1, NamesAttach DEF TensorInv, TensorHandles
<1>3. ASSUME Tensor!At("run", "answer")
      PROVE  /\ request.size = Tensor!Volume(request.shape) * Width[request.type]
             /\ response <= request.limit
             /\ IF job.model \in Onnx THEN response = output.count * Width[output.type]
                ELSE /\ response = 4 * Tensor!SoftTokens(request)
                     /\ {read[1] : read \in reads} = 0 .. Tensor!Volume(request.shape) - 1
                     /\ request.name = "image_rgb" =>
                          reads = {Tensor!Belongs(request, e) :
                                     e \in 0 .. Tensor!Volume(request.shape) - 1}
  <2>1. job.kind = "run" /\ job.step = "answer"
    BY <1>3 DEF Tensor!At
  <2>2. request \in Requests
    BY <2>1, RunningAt
  <2>3. CASE job.model \in Onnx
    <3>1. /\ Tensor!InputFits(request, Width[request.type], 1 .. RankLimit)
          /\ Tensor!OutputFits /\ response = output.count * Width[output.type]
      BY <2>1, <2>3 DEF TensorInv, TensorAnswer
    <3>2. request.size = Tensor!Volume(request.shape) * Width[request.type]
      BY <2>2, <3>1, FittingShape
    <3>3. response <= request.limit
      BY <3>1 DEF Tensor!OutputFits
    <3> QED BY <2>3, <3>1, <3>2, <3>3
  <2>4. CASE job.model \notin Onnx
    <3> DEFINE soft == Tensor!SoftTokens(request)
    <3>1. /\ Tensor!ProjectorFits(request) /\ reads = Taken(request, soft) /\ response = soft * 4
      BY <2>1, <2>4 DEF TensorInv, TensorAnswer
    <3>2. Tensor!InputFits(request, Width[request.type], 1 .. 3) /\ soft * 4 <= request.limit
      BY <3>1 DEF Tensor!ProjectorFits
    <3>3. request.size = Tensor!Volume(request.shape) * Width[request.type]
      BY <2>2, <3>2, FittingShape
    <3>4. soft \in Nat
      BY <2>2, <3>1, SoftIsCount
    <3>5. {read[1] : read \in reads} = 0 .. Tensor!Volume(request.shape) - 1
      BY <2>2, <3>1, ImageReads, RowReads
    <3>6. request.name = "image_rgb" =>
            reads = {Tensor!Belongs(request, e) : e \in 0 .. Tensor!Volume(request.shape) - 1}
      BY <2>2, <3>1, ImageReads
    <3>7. response = 4 * soft
      <4> HIDE DEF soft
      <4> QED BY <3>1, <3>4
    <3> QED BY <2>4, <3>1, <3>2, <3>3, <3>5, <3>6, <3>7
  <2> QED BY <2>3, <2>4
<1> QED BY <1>1, <1>2, <1>3 DEF Tensor!ExecutionIsExact, Lasting

(* Whichever call of the runtime or of the allocator fails, every handle   *)
(* is released once and none is used after that, and between requests only *)
(* the library, the environment and what attached models own is held; an   *)
(* answer has the size of its output, within the limit, to a request that  *)
(* sent as many bytes as its shape has values, and a projector takes every *)
(* value of an image once, into its place (nya_ort_attach, nya_ort_run,    *)
(* nya_multimodal_run, nya_execution_global_shutdown).                     *)
THEOREM TensorExecutionIsExact == EngineSpec => []ExecutionIsExact
<1> DEFINE Inv == driven = "tensor" => TensorInv
<1>1. EngineInit => Inv
  BY TensorInitInv DEF EngineInit
<1>2. Inv /\ [EngineNext]_every => Inv'
  <2> SUFFICES ASSUME Inv, [EngineNext]_every, (driven = "tensor")' PROVE TensorInv'
    OBVIOUS
  <2>1. driven = "tensor" /\ [Tensor!Next]_(Tensor!vars)
    BY DEF EngineNext, every, execution, Tensor!vars, Tensor!statics, Tensor!records, Tensor!call
  <2> QED BY <2>1, TensorNext
<1>3. Inv => ExecutionIsExact
  BY TensorInvExact DEF ExecutionIsExact
<1> QED BY <1>1, <1>2, <1>3, PTL DEF EngineSpec

=============================================================================
