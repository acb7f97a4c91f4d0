--------------------------- MODULE RunStateProofs ---------------------------
(***************************************************************************)
(* Lemmas about the operations on a run state (RunState), for every        *)
(* capacity, vocabulary and token sequence.                                *)
(***************************************************************************)
EXTENDS RunState, SequenceTheorems, TLAPS

Texts(n) == BoundedSeq(Tokens, n)

\* A run state of capacity c.
States(c) ==
  [path : Paths, cache : [1 .. c -> Texts(c)], kv : [1 .. c -> Texts(c)],
   valid : 0 .. c, doubt : BOOLEAN, tokens : [1 .. c -> Tokens \cup {Unset}],
   logits : Texts(c), fresh : BOOLEAN, hidden : Texts(c), borrowed : BOOLEAN]

\* The first n rows were computed from the first n tokens of p.
RowsOf(rows, p, n) == \A i \in 1 .. n : rows[i] = SubSeq(p, 1, i)

\* What s must hold so that a pass can continue after the tokens of p: on a
\* device the tokens to replay and, below the accepted position, the rows of
\* the plan unless one of its kernels failed; on the host every row.
Holds(s, p) ==
  /\ p \in Seq(Tokens) /\ Len(p) <= Capacity(s) /\ ~s.borrowed
  /\ IF s.path = "resident"
     THEN /\ \A i \in 1 .. Len(p) : s.tokens[i] = p[i]
          /\ s.doubt \/ \A i \in 1 .. Len(p) :
                          i <= s.valid => s.kv[i] = SubSeq(p, 1, i)
     ELSE RowsOf(s.cache, p, Len(p))

-----------------------------------------------------------------------------
(* Sequences                                                               *)

\* A bounded sequence is a sequence of at most n elements.
LEMMA BoundedSeqIs ==
  ASSUME NEW S, NEW n \in Nat, NEW s
  PROVE  s \in BoundedSeq(S, n) <=> s \in Seq(S) /\ Len(s) <= n
<1>1. ASSUME s \in BoundedSeq(S, n) PROVE s \in Seq(S) /\ Len(s) <= n
  <2>1. PICK m \in 0 .. n : s \in [1 .. m -> S]
    BY <1>1 DEF BoundedSeq, SeqOf
  <2>2. s \in Seq(S)
    BY <2>1, SeqDef
  <2>3. Len(s) = m
    BY <2>1, <2>2, LenProperties
  <2> QED BY <2>1, <2>2, <2>3
<1>2. ASSUME s \in Seq(S), Len(s) <= n PROVE s \in BoundedSeq(S, n)
  <2>1. Len(s) \in 0 .. n /\ s \in [1 .. Len(s) -> S]
    BY <1>2, LenProperties
  <2> QED BY <2>1 DEF BoundedSeq, SeqOf
<1> QED BY <1>1, <1>2

\* The first k values of an array, taken as a sequence.
LEMMA FirstOfArray ==
  ASSUME NEW S, NEW f, NEW k \in Nat, \A i \in 1 .. k : f[i] \in S
  PROVE  /\ SubSeq(f, 1, k) \in Seq(S)
         /\ Len(SubSeq(f, 1, k)) = k
         /\ \A i \in 1 .. k : SubSeq(f, 1, k)[i] = f[i]
  BY SubSeqProperties, Z3

\* The first n elements of a sequence.
LEMMA FirstOf ==
  ASSUME NEW S, NEW p \in Seq(S), NEW n \in 0 .. Len(p)
  PROVE  /\ SubSeq(p, 1, n) \in Seq(S)
         /\ Len(SubSeq(p, 1, n)) = n
         /\ \A i \in 1 .. n : SubSeq(p, 1, n)[i] = p[i]
<1>1. Len(p) \in Nat /\ \A i \in 1 .. n : p[i] \in S
  BY LenProperties, ElementOfSeq
<1> QED BY <1>1, SubSeqProperties, Z3

\* A prefix of a prefix.
LEMMA FirstOfFirst ==
  ASSUME NEW S, NEW p \in Seq(S), NEW n \in 0 .. Len(p), NEW k \in 0 .. n
  PROVE  SubSeq(SubSeq(p, 1, n), 1, k) = SubSeq(p, 1, k)
<1>1. /\ SubSeq(p, 1, n) \in Seq(S) /\ Len(SubSeq(p, 1, n)) = n
      /\ \A i \in 1 .. n : SubSeq(p, 1, n)[i] = p[i]
  BY FirstOf
<1>2. Len(p) \in Nat /\ k \in 0 .. Len(p) /\ n \in Nat
  BY LenProperties
<1>3. /\ SubSeq(p, 1, k) \in Seq(S) /\ Len(SubSeq(p, 1, k)) = k
      /\ \A i \in 1 .. k : SubSeq(p, 1, k)[i] = p[i]
  BY <1>2, FirstOf
<1>4. k \in 0 .. Len(SubSeq(p, 1, n))
  BY <1>1
<1>5. /\ SubSeq(SubSeq(p, 1, n), 1, k) \in Seq(S)
      /\ Len(SubSeq(SubSeq(p, 1, n), 1, k)) = k
      /\ \A i \in 1 .. k : SubSeq(SubSeq(p, 1, n), 1, k)[i] = SubSeq(p, 1, n)[i]
  BY <1>1, <1>4, FirstOf
<1>6. \A i \in 1 .. k : SubSeq(SubSeq(p, 1, n), 1, k)[i] = SubSeq(p, 1, k)[i]
  BY <1>1, <1>2, <1>3, <1>5
<1> QED BY <1>3, <1>5, <1>6, SeqEqual

\* The first elements of a concatenation.
LEMMA FirstOfConcat ==
  ASSUME NEW S, NEW p \in Seq(S), NEW q \in Seq(S), NEW n \in 0 .. Len(p)
  PROVE  SubSeq(p \o q, 1, n) = SubSeq(p, 1, n)
<1>1. /\ p \o q \in Seq(S) /\ Len(p \o q) = Len(p) + Len(q)
      /\ \A i \in 1 .. Len(p) + Len(q) :
           (p \o q)[i] = IF i <= Len(p) THEN p[i] ELSE q[i - Len(p)]
  BY ConcatProperties
<1>2. Len(p) \in Nat /\ Len(q) \in Nat /\ n \in 0 .. Len(p \o q)
  BY <1>1, LenProperties
<1>3. /\ SubSeq(p, 1, n) \in Seq(S) /\ Len(SubSeq(p, 1, n)) = n
      /\ \A i \in 1 .. n : SubSeq(p, 1, n)[i] = p[i]
  BY FirstOf
<1>4. /\ SubSeq(p \o q, 1, n) \in Seq(S) /\ Len(SubSeq(p \o q, 1, n)) = n
      /\ \A i \in 1 .. n : SubSeq(p \o q, 1, n)[i] = (p \o q)[i]
  BY <1>1, <1>2, FirstOf
<1>5. \A i \in 1 .. n : SubSeq(p \o q, 1, n)[i] = SubSeq(p, 1, n)[i]
  BY <1>1, <1>2, <1>3, <1>4
<1> QED BY <1>3, <1>4, <1>5, SeqEqual

\* The first elements of a concatenation that reach into its second part.
LEMMA FirstOfBoth ==
  ASSUME NEW S, NEW p \in Seq(S), NEW q \in Seq(S), NEW k \in 0 .. Len(q)
  PROVE  SubSeq(p \o q, 1, Len(p) + k) = p \o SubSeq(q, 1, k)
<1>1. /\ p \o q \in Seq(S) /\ Len(p \o q) = Len(p) + Len(q)
      /\ \A i \in 1 .. Len(p) + Len(q) :
           (p \o q)[i] = IF i <= Len(p) THEN p[i] ELSE q[i - Len(p)]
  BY ConcatProperties
<1>2. Len(p) \in Nat /\ Len(q) \in Nat /\ Len(p) + k \in 0 .. Len(p \o q)
  BY <1>1, LenProperties
<1>3. /\ SubSeq(q, 1, k) \in Seq(S) /\ Len(SubSeq(q, 1, k)) = k
      /\ \A i \in 1 .. k : SubSeq(q, 1, k)[i] = q[i]
  BY FirstOf
<1>4. /\ SubSeq(p \o q, 1, Len(p) + k) \in Seq(S)
      /\ Len(SubSeq(p \o q, 1, Len(p) + k)) = Len(p) + k
      /\ \A i \in 1 .. Len(p) + k : SubSeq(p \o q, 1, Len(p) + k)[i] = (p \o q)[i]
  BY <1>1, <1>2, FirstOf
<1>5. /\ p \o SubSeq(q, 1, k) \in Seq(S)
      /\ Len(p \o SubSeq(q, 1, k)) = Len(p) + k
      /\ \A i \in 1 .. Len(p) + k : (p \o SubSeq(q, 1, k))[i]
           = IF i <= Len(p) THEN p[i] ELSE SubSeq(q, 1, k)[i - Len(p)]
  BY <1>3, ConcatProperties
<1>6. \A i \in 1 .. Len(p) + k :
        SubSeq(p \o q, 1, Len(p) + k)[i] = (p \o SubSeq(q, 1, k))[i]
  <2> TAKE i \in 1 .. Len(p) + k
  <2>1. CASE i <= Len(p)
    BY <2>1, <1>1, <1>2, <1>4, <1>5
  <2>2. CASE ~(i <= Len(p))
    <3>1. i - Len(p) \in 1 .. k /\ i \in 1 .. Len(p) + Len(q)
      BY <2>2, <1>2
    <3> QED BY <3>1, <2>2, <1>1, <1>2, <1>3, <1>4, <1>5
  <2> QED BY <2>1, <2>2
<1> QED BY <1>4, <1>5, <1>6, SeqEqual

\* A text and one token more.
LEMMA AppendToConcat ==
  ASSUME NEW S, NEW p \in Seq(S), NEW q \in Seq(S), NEW e \in S
  PROVE  /\ p \o Append(q, e) = Append(p \o q, e)
         /\ Append(p, e) = p \o <<e>> /\ <<e>> \in Seq(S) /\ <<e>> # <<>> /\ Len(<<e>>) = 1
<1>1. <<e>> = Append(<<>>, e) /\ <<>> \in Seq(S) /\ Len(<<>>) = 0
  BY EmptySeq
<1>2. <<e>> \in Seq(S) /\ <<e>> # <<>> /\ Len(<<e>>) = 1
  BY <1>1, AppendProperties
<1>3. Append(p, e) = p \o <<e>> /\ Append(q, e) = q \o <<e>>
  BY AppendIsConcat
<1>4. p \o q \in Seq(S)
  BY ConcatProperties
<1>5. Append(p \o q, e) = (p \o q) \o <<e>>
  BY <1>4, AppendIsConcat
<1>6. (p \o q) \o <<e>> = p \o (q \o <<e>>)
  BY <1>2, ConcatAssociative
<1> QED BY <1>2, <1>3, <1>5, <1>6

\* The first n + 1 elements are the first n and the next.
LEMMA FirstAndNext ==
  ASSUME NEW S, NEW p \in Seq(S), NEW n \in 0 .. Len(p), n < Len(p)
  PROVE  /\ p[n + 1] \in S
         /\ SubSeq(p, 1, n + 1) = Append(SubSeq(p, 1, n), p[n + 1])
<1>1. Len(p) \in Nat /\ n + 1 \in 1 .. Len(p) /\ n + 1 \in 0 .. Len(p)
  BY LenProperties
<1>2. p[n + 1] \in S
  BY <1>1, ElementOfSeq
<1>3. /\ SubSeq(p, 1, n) \in Seq(S) /\ Len(SubSeq(p, 1, n)) = n
      /\ \A i \in 1 .. n : SubSeq(p, 1, n)[i] = p[i]
  BY FirstOf
<1>4. /\ SubSeq(p, 1, n + 1) \in Seq(S) /\ Len(SubSeq(p, 1, n + 1)) = n + 1
      /\ \A i \in 1 .. n + 1 : SubSeq(p, 1, n + 1)[i] = p[i]
  BY <1>1, FirstOf
<1> DEFINE a == SubSeq(p, 1, n)
           b == SubSeq(p, 1, n + 1)
<1> HIDE DEF a, b
<1>5. /\ Append(a, p[n + 1]) \in Seq(S) /\ Len(Append(a, p[n + 1])) = n + 1
      /\ \A i \in 1 .. n : Append(a, p[n + 1])[i] = a[i]
      /\ Append(a, p[n + 1])[n + 1] = p[n + 1]
  BY <1>2, <1>3, AppendProperties DEF a
<1>6. \A i \in 1 .. n + 1 : b[i] = Append(a, p[n + 1])[i]
  <2> TAKE i \in 1 .. n + 1
  <2>1. CASE i = n + 1
    BY <2>1, <1>4, <1>5 DEF b
  <2>2. CASE i # n + 1
    <3>1. i \in 1 .. n
      BY <2>2
    <3> QED BY <3>1, <1>3, <1>4, <1>5 DEF a, b
  <2> QED BY <2>1, <2>2
<1>7. b = Append(a, p[n + 1])
  BY <1>4, <1>5, <1>6, SeqEqual DEF b
<1> QED BY <1>2, <1>7 DEF a, b

-----------------------------------------------------------------------------
(* Rows                                                                    *)

\* Rows that were computed from one sequence belong together.
LEMMA RowsAreCoherent ==
  ASSUME NEW p \in Seq(Tokens), NEW n \in 0 .. Len(p), NEW rows, RowsOf(rows, p, n)
  PROVE  Coherent(rows, n) /\ Prefix(rows, n) = SubSeq(p, 1, n)
<1>1. Len(p) \in Nat
  BY LenProperties
<1>2. ASSUME NEW i \in 1 .. n
      PROVE  Len(rows[i]) = i /\ IsPrefix(rows[i], rows[n])
  <2>1. rows[i] = SubSeq(p, 1, i) /\ rows[n] = SubSeq(p, 1, n)
    BY <1>1 DEF RowsOf
  <2>2. i \in 0 .. Len(p) /\ i \in 0 .. n /\ i \in 0 .. i
    BY <1>1
  <2>3. Len(SubSeq(p, 1, i)) = i /\ Len(SubSeq(p, 1, n)) = n
    BY <2>2, FirstOf
  <2>4. SubSeq(SubSeq(p, 1, i), 1, i) = SubSeq(p, 1, i)
    BY <2>2, FirstOfFirst
  <2>5. SubSeq(SubSeq(p, 1, n), 1, i) = SubSeq(p, 1, i)
    BY <2>2, FirstOfFirst
  <2> QED BY <2>1, <2>2, <2>3, <2>4, <2>5 DEF IsPrefix
<1>3. Coherent(rows, n)
  BY <1>2 DEF Coherent
<1>4. Prefix(rows, n) = SubSeq(p, 1, n)
  <2>1. CASE n = 0
    BY <2>1, SubSeqEmpty DEF Prefix
  <2>2. CASE n # 0
    BY <2>2, <1>1 DEF Prefix, RowsOf
  <2> QED BY <2>1, <2>2
<1> QED BY <1>3, <1>4

\* Fewer rows of the same sequence.
LEMMA RowsOfPrefix ==
  ASSUME NEW p \in Seq(Tokens), NEW n \in 0 .. Len(p), NEW rows, RowsOf(rows, p, n),
         NEW k \in 0 .. n
  PROVE  RowsOf(rows, SubSeq(p, 1, k), k)
<1>1. Len(p) \in Nat
  BY LenProperties
<1>2. ASSUME NEW i \in 1 .. k PROVE rows[i] = SubSeq(SubSeq(p, 1, k), 1, i)
  <2>1. rows[i] = SubSeq(p, 1, i) /\ i \in 0 .. k /\ k \in 0 .. Len(p)
    BY <1>1 DEF RowsOf
  <2> QED BY <2>1, FirstOfFirst
<1> QED BY <1>2 DEF RowsOf

\* A pass over rows of p appends the rows of its tokens.
LEMMA WrittenRows ==
  ASSUME NEW p \in Seq(Tokens), NEW q \in Seq(Tokens), NEW c \in Nat,
         Len(p) + Len(q) <= c, NEW rows, DOMAIN rows = 1 .. c,
         RowsOf(rows, p, Len(p))
  PROVE  RowsOf(Written(rows, Len(p), q), p \o q, Len(p) + Len(q))
<1>1. Len(p) \in Nat /\ Len(q) \in Nat
  BY LenProperties
<1>2. Coherent(rows, Len(p)) /\ Prefix(rows, Len(p)) = p
  BY <1>1, RowsAreCoherent, SubSeqFull
<1>3. ASSUME NEW i \in 1 .. Len(p) + Len(q)
      PROVE  Written(rows, Len(p), q)[i] = SubSeq(p \o q, 1, i)
  <2>1. i \in 1 .. c
    BY <1>1
  <2>2. CASE i <= Len(p)
    <3>1. i \in 0 .. Len(p) /\ i \in 1 .. Len(p) /\ i \notin Len(p) + 1 .. Len(p) + Len(q)
      BY <2>2, <1>1
    <3>2. Written(rows, Len(p), q)[i] = rows[i]
      BY <2>1, <3>1 DEF Written
    <3>3. rows[i] = SubSeq(p, 1, i)
      BY <3>1 DEF RowsOf
    <3> QED BY <3>1, <3>2, <3>3, FirstOfConcat
  <2>3. CASE ~(i <= Len(p))
    <3>1. i \in Len(p) + 1 .. Len(p) + Len(q) /\ i - Len(p) \in 0 .. Len(q)
      BY <2>3, <1>1
    <3>2. Written(rows, Len(p), q)[i] = p \o SubSeq(q, 1, i - Len(p))
      BY <2>1, <3>1, <1>2 DEF Written
    <3>3. SubSeq(p \o q, 1, Len(p) + (i - Len(p))) = p \o SubSeq(q, 1, i - Len(p))
      BY <3>1, FirstOfBoth
    <3>4. Len(p) + (i - Len(p)) = i
      BY <1>1
    <3> QED BY <3>2, <3>3, <3>4
  <2> QED BY <2>2, <2>3
<1> QED BY <1>3 DEF RowsOf

\* The texts of at most c tokens, among them the empty one.
LEMMA TextsAre ==
  ASSUME NEW c \in Nat
  PROVE  /\ \A x : x \in Texts(c) <=> x \in Seq(Tokens) /\ Len(x) <= c
         /\ Corrupt \in Texts(c)
<1>1. ASSUME NEW x PROVE x \in Texts(c) <=> x \in Seq(Tokens) /\ Len(x) <= c
  BY BoundedSeqIs DEF Texts
<1>2. <<>> \in Seq(Tokens) /\ Len(<<>>) = 0 /\ 0 <= c
  BY EmptySeq
<1>3. <<>> \in Texts(c)
  BY <1>2, <1>1
<1> QED BY <1>1, <1>3 DEF Corrupt

\* Whatever the rows are, a written row is a sequence that fits.
LEMMA WrittenType ==
  ASSUME NEW c \in Nat, NEW rows \in [1 .. c -> Texts(c)], NEW q \in Seq(Tokens),
         NEW n \in Nat
  PROVE  Written(rows, n, q) \in [1 .. c -> Texts(c)]
<1>1. Len(q) \in Nat
  BY LenProperties
<1>2. \A x : x \in Texts(c) <=> x \in Seq(Tokens) /\ Len(x) <= c
  BY TextsAre
<1>3. Corrupt \in Texts(c)
  BY TextsAre
<1>4. ASSUME NEW i \in 1 .. c, i \in n + 1 .. n + Len(q), Coherent(rows, n)
      PROVE  Prefix(rows, n) \o SubSeq(q, 1, i - n) \in Texts(c)
  <2>1. i - n \in 0 .. Len(q) /\ n \in 0 .. c
    BY <1>1, <1>4
  <2>2. SubSeq(q, 1, i - n) \in Seq(Tokens) /\ Len(SubSeq(q, 1, i - n)) = i - n
    BY <2>1, FirstOf
  <2>3. Prefix(rows, n) \in Seq(Tokens) /\ Len(Prefix(rows, n)) = n
    <3>1. CASE n = 0
      BY <3>1, EmptySeq DEF Prefix
    <3>2. CASE n # 0
      BY <3>2, <2>1, <1>2, <1>4 DEF Prefix, Coherent
    <3> QED BY <3>1, <3>2
  <2>4. /\ Prefix(rows, n) \o SubSeq(q, 1, i - n) \in Seq(Tokens)
        /\ Len(Prefix(rows, n) \o SubSeq(q, 1, i - n)) = n + (i - n)
    BY <2>2, <2>3, ConcatProperties
  <2>5. n + (i - n) <= c
    BY <2>1
  <2> QED BY <2>4, <2>5, <1>2
<1> QED BY <1>3, <1>4 DEF Written

LEMMA SpoiledType ==
  ASSUME NEW c \in Nat, NEW rows \in [1 .. c -> Texts(c)], NEW n, NEW m
  PROVE  Spoiled(rows, n, m) \in [1 .. c -> Texts(c)]
<1>1. Corrupt \in Texts(c)
  BY TextsAre
<1> QED BY <1>1 DEF Spoiled

-----------------------------------------------------------------------------
(* States                                                                  *)

\* The states of capacity c, component by component.
LEMMA StateParts ==
  ASSUME NEW c \in Nat, NEW s \in States(c)
  PROVE  /\ Capacity(s) = c /\ Corrupt \in Texts(c) /\ DOMAIN s.cache = 1 .. c
         /\ DOMAIN s.kv = 1 .. c
<1>1. s.cache \in [1 .. c -> Texts(c)] /\ s.kv \in [1 .. c -> Texts(c)]
  BY DEF States
<1>2. s.cache \in Seq(Texts(c))
  BY <1>1, SeqDef
<1>3. Len(s.cache) = c
  BY <1>1, <1>2, LenProperties
<1>4. Corrupt \in Texts(c)
  BY TextsAre
<1> QED BY <1>1, <1>3, <1>4 DEF Capacity

LEMMA NewStateType ==
  ASSUME NEW c \in Nat, NEW path \in Paths
  PROVE  NewState(c, path) \in States(c) /\ Holds(NewState(c, path), <<>>)
<1>1. Corrupt \in Texts(c)
  BY TextsAre
<1>2. NewState(c, path) \in States(c)
  BY <1>1 DEF NewState, States, Blank
<1>3. Capacity(NewState(c, path)) = c
  BY <1>2, StateParts
<1> QED BY <1>2, <1>3, EmptySeq DEF Holds, RowsOf, NewState

\* A position may be set back: what holds for a text holds for its prefixes.
LEMMA HoldsPrefix ==
  ASSUME NEW s, NEW p, Holds(s, p), NEW k \in 0 .. Len(p), NEW c \in Nat, s \in States(c)
  PROVE  Holds(s, SubSeq(p, 1, k))
<1>1. p \in Seq(Tokens) /\ Len(p) \in Nat
  BY LenProperties DEF Holds
<1>2. /\ SubSeq(p, 1, k) \in Seq(Tokens) /\ Len(SubSeq(p, 1, k)) = k
      /\ \A i \in 1 .. k : SubSeq(p, 1, k)[i] = p[i]
  BY <1>1, FirstOf
<1>3. \A i \in 1 .. k : SubSeq(SubSeq(p, 1, k), 1, i) = SubSeq(p, 1, i)
  <2> TAKE i \in 1 .. k
  <2>1. i \in 0 .. k
    OBVIOUS
  <2> QED BY <1>1, <2>1, FirstOfFirst
<1>4. \A i \in 1 .. k : i \in 1 .. Len(p)
  BY <1>1
<1>5. Capacity(s) = c /\ k <= c
  BY <1>1, StateParts DEF Holds
<1> QED BY <1>2, <1>3, <1>4, <1>5 DEF Holds, RowsOf

-----------------------------------------------------------------------------
(* Passes                                                                  *)

\* nya_llm_forward, nya_llm_prefill and nya_llm_session_run take the device
\* when there is one.
Pass(s, q, n, want) ==
  IF s.path = "resident" THEN DeviceRun(s, q, n, want) ELSE HostRun(s, q, n, want)

\* A plan that is given up leaves a state for the host.
LEMMA FreePlanType ==
  ASSUME NEW c \in Nat, NEW s \in States(c)
  PROVE  /\ FreePlan(s) \in States(c)
         /\ FreePlan(s).path # "resident"
         /\ s.path # "resident" => FreePlan(s).path = s.path
         /\ FreePlan(s).cache = s.cache /\ FreePlan(s).tokens = s.tokens
         /\ FreePlan(s).borrowed = s.borrowed /\ Capacity(FreePlan(s)) = c
<1>1. Blank(Capacity(s)) \in [1 .. c -> Texts(c)]
  BY StateParts DEF Blank
<1> DEFINE path == IF s.path = "resident" THEN "tokens" ELSE s.path
<1>2. FreePlan(s) = [s EXCEPT !.path = path, !.kv = Blank(Capacity(s)), !.valid = 0, !.doubt = FALSE]
  BY DEF FreePlan, States
<1>3. path \in Paths /\ 0 \in 0 .. c
  BY DEF Paths, States
<1> HIDE DEF path
<1>4. FreePlan(s) \in States(c)
  BY <1>1, <1>2, <1>3 DEF States
<1> QED BY <1>4, StateParts DEF FreePlan, States

\* Every outcome of a pass on the host is a state, and borrowed inputs are
\* neither taken nor given back.
LEMMA HostRunType ==
  ASSUME NEW c \in Nat, NEW s \in States(c), NEW q \in Seq(Tokens), q # <<>>,
         NEW n \in Nat, NEW want \in BOOLEAN, NEW r \in HostRun(s, q, n, want)
  PROVE  /\ r.s \in States(c) /\ r.ok \in BOOLEAN /\ r.s.path = s.path
         /\ r.s.borrowed = s.borrowed
         /\ r.ok => n + Len(q) <= c
<1>1. Capacity(s) = c /\ Corrupt \in Texts(c)
  BY StateParts
<1>2. Len(q) \in Nat /\ Len(q) > 0
  BY EmptySeq, LenProperties
<1>3. CASE n + Len(q) > c
  <2>1. r = Failed(s)
    BY <1>1, <1>3 DEF HostRun
  <2> QED BY <2>1 DEF Failed
<1>4. CASE ~(n + Len(q) > c)
  <2> DEFINE rows == IF s.borrowed THEN Spoiled(s.cache, n, Len(q))
                     ELSE Written(s.cache, n, q)
             t == [s EXCEPT !.cache = rows]
  <2>1. s.cache \in [1 .. c -> Texts(c)]
    BY DEF States
  <2>2. rows \in [1 .. c -> Texts(c)] /\ Spoiled(s.cache, n, Len(q)) \in [1 .. c -> Texts(c)]
    BY <2>1, SpoiledType, WrittenType
  <2>3. n + Len(q) \in 1 .. c /\ n + Len(q) <= c
    BY <1>2, <1>4
  <2>4. rows[n + Len(q)] \in Texts(c)
    BY <2>2, <2>3
  <2>5. \/ r = Done(Output(t, n + Len(q), want))
        \/ r = Failed(Broken(s, n, Len(q)))
    BY <1>1, <1>4 DEF HostRun
  <2> HIDE DEF rows
  <2>6. CASE r = Done(Output(t, n + Len(q), want))
    BY <1>1, <2>2, <2>3, <2>4, <2>6 DEF Done, Output, States
  <2>7. CASE r = Failed(Broken(s, n, Len(q)))
    BY <1>1, <2>2, <2>3, <2>7 DEF Failed, Broken, States
  <2> QED BY <2>5, <2>6, <2>7
<1> QED BY <1>3, <1>4

\* A pass on the host that succeeds extends the text it continues.
LEMMA HostRunHolds ==
  ASSUME NEW c \in Nat, NEW s \in States(c), NEW p, Holds(s, p), s.path # "resident",
         NEW q \in Seq(Tokens), q # <<>>, NEW want \in BOOLEAN,
         NEW r \in HostRun(s, q, Len(p), want), r.ok
  PROVE  /\ Holds(r.s, p \o q)
         /\ want => r.s.logits = p \o q /\ r.s.hidden = p \o q /\ r.s.fresh
<1> DEFINE n == Len(p)
           m == Len(q)
           rows == Written(s.cache, n, q)
           t == [s EXCEPT !.cache = rows]
<1>1. /\ p \in Seq(Tokens) /\ ~s.borrowed /\ RowsOf(s.cache, p, n) /\ n \in Nat
  BY LenProperties DEF Holds
<1>2. m \in Nat /\ m > 0
  BY EmptySeq, LenProperties
<1>3. /\ r.s \in States(c) /\ r.s.path = s.path /\ r.s.borrowed = s.borrowed /\ n + m <= c
  BY <1>1, HostRunType
<1>4. Capacity(s) = c /\ DOMAIN s.cache = 1 .. c /\ Capacity(r.s) = c
  BY <1>3, StateParts
<1>5. RowsOf(rows, p \o q, n + m)
  BY <1>1, <1>2, <1>3, <1>4, WrittenRows
<1>6. r.s = Output(t, n + m, want)
  BY <1>1, <1>2, <1>3, <1>4 DEF HostRun, Done, Failed
<1>7. p \o q \in Seq(Tokens) /\ Len(p \o q) = n + m
  BY <1>1, ConcatProperties
<1>8. rows[n + m] = p \o q
  <2>1. rows[n + m] = SubSeq(p \o q, 1, n + m)
    BY <1>1, <1>2, <1>5 DEF RowsOf
  <2> QED BY <2>1, <1>7, SubSeqFull
<1> HIDE DEF n, m, rows
<1>9. r.s.cache = rows
  BY <1>6 DEF Output, States
<1>10. Holds(r.s, p \o q)
  BY <1>1, <1>3, <1>4, <1>5, <1>7, <1>9 DEF Holds
<1>11. want => r.s.logits = p \o q /\ r.s.hidden = p \o q /\ r.s.fresh
  BY <1>6, <1>8 DEF Output, States
<1> QED BY <1>10, <1>11

\* device_tokens after the tokens of a call were stored.
LEMMA RememberType ==
  ASSUME NEW c \in Nat, NEW s \in States(c), NEW q \in Seq(Tokens), NEW n \in Nat,
         n + Len(q) <= c
  PROVE  /\ Remember(s, q, n) \in States(c)
         /\ \A i \in 1 .. n : Remember(s, q, n).tokens[i] = s.tokens[i]
         /\ \A i \in 1 .. Len(q) : Remember(s, q, n).tokens[n + i] = q[i]
         /\ LET t == Remember(s, q, n)
            IN /\ t.path = s.path /\ t.borrowed = s.borrowed /\ t.doubt = s.doubt
               /\ t.valid = s.valid /\ t.kv = s.kv
<1>1. Len(q) \in Nat /\ \A i \in 1 .. Len(q) : q[i] \in Tokens
  BY LenProperties, ElementOfSeq
<1> DEFINE f == [i \in DOMAIN s.tokens |->
                   IF i \in n + 1 .. n + Len(q) THEN q[i - n] ELSE s.tokens[i]]
<1>2. Remember(s, q, n) = [s EXCEPT !.tokens = f]
  BY DEF Remember
<1>3. s.tokens \in [1 .. c -> Tokens \cup {Unset}]
  BY DEF States
<1>4. f \in [1 .. c -> Tokens \cup {Unset}]
  <2> SUFFICES ASSUME NEW i \in 1 .. c PROVE f[i] \in Tokens \cup {Unset}
    BY <1>3
  <2>1. i \in n + 1 .. n + Len(q) => i - n \in 1 .. Len(q)
    BY <1>1
  <2> QED BY <2>1, <1>1, <1>3
<1>5. \A i \in 1 .. n : f[i] = s.tokens[i]
  BY <1>1, <1>3
<1>6. \A i \in 1 .. Len(q) : f[n + i] = q[i]
  <2> TAKE i \in 1 .. Len(q)
  <2>1. n + i \in n + 1 .. n + Len(q) /\ n + i \in 1 .. c /\ (n + i) - n = i
    BY <1>1
  <2> QED BY <2>1, <1>3
<1> HIDE DEF f
<1>7. Remember(s, q, n) \in States(c) /\ Remember(s, q, n).tokens = f
  BY <1>2, <1>4 DEF States
<1>8. LET t == Remember(s, q, n)
      IN /\ t.path = s.path /\ t.borrowed = s.borrowed /\ t.doubt = s.doubt
         /\ t.valid = s.valid /\ t.kv = s.kv
  BY <1>2 DEF States
<1> QED BY <1>5, <1>6, <1>7, <1>8

\* After Remember, device_tokens holds the text and the tokens of the call, so
\* that a replay starts from exactly these.
LEMMA RememberedText ==
  ASSUME NEW c \in Nat, NEW s \in States(c), NEW p \in Seq(Tokens),
         \A i \in 1 .. Len(p) : s.tokens[i] = p[i],
         NEW q \in Seq(Tokens), Len(p) + Len(q) <= c
  PROVE  LET t == Remember(s, q, Len(p))
         IN /\ \A i \in 1 .. Len(p) + Len(q) : t.tokens[i] = (p \o q)[i]
            /\ SubSeq(t.tokens, 1, Len(p) + Len(q)) = p \o q
<1> DEFINE n == Len(p)
           m == Len(q)
           tokens == Remember(s, q, n).tokens
<1>1. n \in Nat /\ m \in Nat
  BY LenProperties
<1>2. /\ \A i \in 1 .. n : tokens[i] = p[i]
      /\ \A i \in 1 .. m : tokens[n + i] = q[i]
  <2>1. Len(p) \in Nat
    BY <1>1
  <2>2. /\ \A i \in 1 .. Len(p) : Remember(s, q, Len(p)).tokens[i] = s.tokens[i]
        /\ \A i \in 1 .. Len(q) : Remember(s, q, Len(p)).tokens[Len(p) + i] = q[i]
    BY <2>1, RememberType
  <2> QED BY <2>2
<1>3. /\ p \o q \in Seq(Tokens) /\ Len(p \o q) = n + m
      /\ \A i \in 1 .. n + m : (p \o q)[i] = IF i <= n THEN p[i] ELSE q[i - n]
  BY ConcatProperties
<1> HIDE DEF n, m, tokens
<1>4. \A i \in 1 .. n + m : tokens[i] = (p \o q)[i]
  <2> TAKE i \in 1 .. n + m
  <2>1. CASE i <= n
    BY <2>1, <1>1, <1>2, <1>3
  <2>2. CASE ~(i <= n)
    <3>1. i - n \in 1 .. m /\ n + (i - n) = i
      BY <2>2, <1>1
    <3> QED BY <3>1, <2>2, <1>2, <1>3
  <2> QED BY <2>1, <2>2
<1>5. \A i \in 1 .. n + m : tokens[i] \in Tokens
  BY <1>3, <1>4, ElementOfSeq
<1>6. /\ SubSeq(tokens, 1, n + m) \in Seq(Tokens)
      /\ Len(SubSeq(tokens, 1, n + m)) = n + m
      /\ \A i \in 1 .. n + m : SubSeq(tokens, 1, n + m)[i] = tokens[i]
  <2>1. n + m \in Nat
    BY <1>1
  <2> QED BY <1>5, <2>1, FirstOfArray
<1>7. SubSeq(tokens, 1, n + m) = p \o q
  BY <1>3, <1>4, <1>6, SeqEqual
<1> QED BY <1>4, <1>7 DEF n, m, tokens

\* A plan that takes the call: it computes from its own rows, which are those
\* of the text as long as no kernel failed.
LEMMA PlanRunHolds ==
  ASSUME NEW c \in Nat, NEW t \in States(c), t.path = "resident", ~t.borrowed,
         NEW p \in Seq(Tokens), NEW q \in Seq(Tokens), q # <<>>, Len(p) + Len(q) <= c,
         \A i \in 1 .. Len(p) + Len(q) : t.tokens[i] = (p \o q)[i],
         t.doubt \/ \A i \in 1 .. Len(p) : i <= t.valid => t.kv[i] = SubSeq(p, 1, i),
         NEW want \in BOOLEAN, NEW r \in PlanRuns(t, q, Len(p), want)
  PROVE  /\ r.s \in States(c) /\ r.ok /\ Holds(r.s, p \o q)
         /\ want => r.s.logits = p \o q /\ r.s.fresh
<1> DEFINE n == Len(p)
           m == Len(q)
           kv == Written(t.kv, n, q)
           next == [t EXCEPT !.kv = kv, !.valid = n + m]
<1>1. n \in Nat /\ m \in Nat /\ m > 0 /\ n + m \in 1 .. c
  BY EmptySeq, LenProperties
<1>2. t.kv \in [1 .. c -> Texts(c)] /\ DOMAIN t.kv = 1 .. c
  BY DEF States
<1>3. kv \in [1 .. c -> Texts(c)]
  BY <1>1, <1>2, WrittenType
<1>4. Spoiled(kv, n, m) \in [1 .. c -> Texts(c)]
  BY <1>3, SpoiledType
<1>5. Corrupt \in Texts(c)
  BY TextsAre
<1>6. PlanAccepts(t, n)
  BY DEF PlanRuns
<1>7. ASSUME ~t.doubt PROVE RowsOf(kv, p \o q, n + m)
  <2>1. \A i \in 1 .. n : i <= t.valid
    BY <1>1, <1>6 DEF PlanAccepts, States
  <2>2. RowsOf(t.kv, p, n)
    BY <1>7, <2>1 DEF RowsOf
  <2> QED BY <1>1, <1>2, <2>2, WrittenRows
<1>8. p \o q \in Seq(Tokens) /\ Len(p \o q) = n + m
  BY ConcatProperties
<1>9. kv[n + m] \in Texts(c)
  BY <1>1, <1>3
<1>10. SubSeq(p \o q, 1, n + m) = p \o q
  BY <1>8, SubSeqFull
<1>11. \/ /\ want /\ ~t.doubt
          /\ r = Done([next EXCEPT !.logits = next.kv[n + m], !.fresh = TRUE, !.hidden = Corrupt])
       \/ ~want /\ r = Done(next)
       \/ /\ ~want
          /\ r = Done([next EXCEPT !.kv = Spoiled(next.kv, n, m), !.doubt = TRUE])
  <2>1. PlanRuns(t, q, n, want) =
          IF want
          THEN IF t.doubt THEN {}
               ELSE {Done([next EXCEPT !.logits = next.kv[n + m], !.fresh = TRUE, !.hidden = Corrupt])}
          ELSE {Done(next),
                Done([next EXCEPT !.kv = Spoiled(next.kv, n, m), !.doubt = TRUE])}
    BY <1>6 DEF PlanRuns, States
  <2> QED BY <2>1
<1> HIDE DEF n, m, kv
<1>12. next \in States(c) /\ next.kv = kv
  <2>1. n + m \in 0 .. c
    BY <1>1
  <2> QED BY <2>1, <1>3 DEF States
<1>13. CASE /\ want /\ ~t.doubt
            /\ r = Done([next EXCEPT !.logits = next.kv[n + m], !.fresh = TRUE, !.hidden = Corrupt])
  <2>1. /\ r.ok /\ r.s \in States(c) /\ r.s.path = "resident" /\ ~r.s.borrowed
        /\ r.s.tokens = t.tokens /\ r.s.kv = kv /\ r.s.logits = kv[n + m] /\ r.s.fresh
    BY <1>5, <1>9, <1>12, <1>13 DEF Done, States
  <2>2. Capacity(r.s) = c
    BY <2>1, StateParts
  <2>3. kv[n + m] = p \o q
    <3>1. n + m \in 1 .. n + m
      BY <1>1
    <3> QED BY <3>1, <1>7, <1>10, <1>13 DEF RowsOf
  <2>4. Holds(r.s, p \o q)
    BY <1>1, <1>7, <1>8, <1>13, <2>1, <2>2 DEF Holds, RowsOf, n, m
  <2> QED BY <2>1, <2>3, <2>4
<1>14. CASE ~want /\ r = Done(next)
  <2>1. /\ r.ok /\ r.s \in States(c) /\ r.s.path = "resident" /\ ~r.s.borrowed
        /\ r.s.tokens = t.tokens /\ r.s.kv = kv /\ r.s.doubt = t.doubt
    BY <1>12, <1>14 DEF Done, States
  <2>2. Capacity(r.s) = c
    BY <2>1, StateParts
  <2>4. Holds(r.s, p \o q)
    BY <1>1, <1>7, <1>8, <2>1, <2>2 DEF Holds, RowsOf, n, m
  <2> QED BY <2>1, <2>4, <1>14
<1>15. CASE /\ ~want
            /\ r = Done([next EXCEPT !.kv = Spoiled(next.kv, n, m), !.doubt = TRUE])
  <2>1. /\ r.ok /\ r.s \in States(c) /\ r.s.path = "resident" /\ ~r.s.borrowed
        /\ r.s.tokens = t.tokens /\ r.s.doubt
    BY <1>4, <1>12, <1>15 DEF Done, States
  <2>2. Capacity(r.s) = c
    BY <2>1, StateParts
  <2>4. Holds(r.s, p \o q)
    BY <1>1, <1>8, <2>1, <2>2 DEF Holds, n, m
  <2> QED BY <2>1, <2>4, <1>15
<1> QED BY <1>11, <1>13, <1>14, <1>15

\* The replay: all rows of the text are computed again on the host, so
\* whatever its caches held before does not matter.
LEMMA ReplayHolds ==
  ASSUME NEW c \in Nat, NEW t \in States(c), ~t.borrowed,
         NEW a \in Seq(Tokens), a # <<>>, NEW want \in BOOLEAN,
         NEW r \in HostRun(FreePlan(t), a, 0, want)
  PROVE  /\ r.s \in States(c) /\ r.ok \in BOOLEAN /\ ~r.s.borrowed /\ r.s.path # "resident"
         /\ r.ok => Len(a) <= c /\ Holds(r.s, a)
                   /\ (want => r.s.logits = a /\ r.s.fresh)
<1> DEFINE s == FreePlan(t)
           e == <<>>
<1>1. /\ s \in States(c) /\ s.path # "resident" /\ ~s.borrowed /\ Capacity(s) = c
  BY FreePlanType
<1>2. e \in Seq(Tokens) /\ Len(e) = 0
  BY EmptySeq
<1>3. Holds(s, e)
  BY <1>1, <1>2 DEF Holds, RowsOf
<1>4. r \in HostRun(s, a, 0, want)
  OBVIOUS
<1>7. e \o a = a /\ 0 + Len(a) = Len(a)
  BY ConcatEmptySeq, LenProperties
<1> HIDE DEF s, e
<1>8. r \in HostRun(s, a, Len(e), want)
  BY <1>2, <1>4
<1>5. /\ r.s \in States(c) /\ r.ok \in BOOLEAN /\ r.s.path = s.path
      /\ r.s.borrowed = s.borrowed /\ (r.ok => 0 + Len(a) <= c)
  BY <1>1, <1>4, HostRunType
<1>6. ASSUME r.ok
      PROVE  Holds(r.s, e \o a) /\ (want => r.s.logits = e \o a /\ r.s.fresh)
  <2>1. s \in States(c) /\ s.path # "resident"
    BY <1>1
  <2>2. /\ Holds(r.s, e \o a)
        /\ want => r.s.logits = e \o a /\ r.s.hidden = e \o a /\ r.s.fresh
    BY <2>1, <1>3, <1>6, <1>8, HostRunHolds
  <2> QED BY <2>2
<1> QED BY <1>1, <1>5, <1>6, <1>7

LEMMA DeviceRunHolds ==
  ASSUME NEW c \in Nat, NEW s \in States(c), NEW p, Holds(s, p), s.path = "resident",
         NEW q \in Seq(Tokens), q # <<>>, NEW want \in BOOLEAN,
         NEW r \in DeviceRun(s, q, Len(p), want)
  PROVE  /\ r.s \in States(c) /\ r.ok \in BOOLEAN /\ ~r.s.borrowed
         /\ r.ok => /\ Len(p) + Len(q) <= c /\ Holds(r.s, p \o q)
                    /\ want => r.s.logits = p \o q /\ r.s.fresh
<1> DEFINE n == Len(p)
           m == Len(q)
           t == Remember(s, q, n)
<1>1. /\ p \in Seq(Tokens) /\ ~s.borrowed /\ n \in Nat /\ m \in Nat /\ m > 0 /\ Capacity(s) = c
  BY StateParts, LenProperties, EmptySeq DEF Holds
<1>2. CASE n + m > c
  <2>1. r = Failed(s)
    BY <1>1, <1>2 DEF DeviceRun
  <2> QED BY <1>1, <2>1 DEF Failed
<1>3. CASE ~(n + m > c)
  <2>1. n + m <= c
    BY <1>1, <1>3
  <2>2. \A i \in 1 .. n : s.tokens[i] = p[i]
    BY DEF Holds
  <2>3. /\ \A i \in 1 .. n + m : t.tokens[i] = (p \o q)[i]
        /\ SubSeq(t.tokens, 1, n + m) = p \o q
    BY <1>1, <2>1, <2>2, RememberedText
  <2>5. t \in States(c)
    BY <1>1, <2>1, RememberType
  <2>6. /\ t.path = "resident" /\ ~t.borrowed /\ t.doubt = s.doubt /\ t.valid = s.valid
        /\ t.kv = s.kv
    BY <1>1, <2>1, RememberType
  <2>7. r \in PlanRuns(t, q, n, want) \/ r \in Replay(t, n, m, want)
    BY <1>1, <1>3 DEF DeviceRun
  <2>8. p \o q \in Seq(Tokens) /\ Len(p \o q) = n + m /\ p \o q # <<>>
    BY <1>1, ConcatProperties, EmptySeq
  <2>9. t.doubt \/ \A i \in 1 .. n : i <= t.valid => t.kv[i] = SubSeq(p, 1, i)
    BY <2>6 DEF Holds
  <2>4. want \in BOOLEAN /\ n = Len(p) /\ m = Len(q)
    OBVIOUS
  <2> HIDE DEF t, n, m
  <2>10. CASE r \in PlanRuns(t, q, n, want)
    <3>1. /\ r.s \in States(c) /\ r.ok /\ Holds(r.s, p \o q)
          /\ want => r.s.logits = p \o q /\ r.s.fresh
      BY <1>1, <2>1, <2>3, <2>4, <2>5, <2>6, <2>9, <2>10, PlanRunHolds
    <3> QED BY <2>1, <2>4, <3>1 DEF Holds
  <2>11. CASE r \in Replay(t, n, m, want)
    <3> DEFINE a == p \o q
    <3> HIDE DEF a
    <3>1. a \in Seq(Tokens) /\ a # <<>> /\ Len(a) = n + m
      BY <2>8 DEF a
    <3>3. r \in HostRun(FreePlan(t), a, 0, want)
      BY <2>3, <2>11 DEF Replay, a
    <3>2. /\ r.s \in States(c) /\ r.ok \in BOOLEAN /\ ~r.s.borrowed
          /\ r.ok => Len(a) <= c /\ Holds(r.s, a)
                    /\ (want => r.s.logits = a /\ r.s.fresh)
      BY <1>1, <2>5, <2>6, <3>1, <3>3, ReplayHolds
    <3> QED BY <3>1, <3>2, <2>4 DEF a
  <2> QED BY <2>7, <2>10, <2>11
<1> QED BY <1>2, <1>3

\* A pass after the tokens of p, on the device or on the host: a failed pass
\* leaves a state that can be used again, a successful one leaves what the
\* longer text needs and, when asked, its logits.
LEMMA PassHolds ==
  ASSUME NEW c \in Nat, NEW s \in States(c), NEW p, Holds(s, p),
         NEW q \in Seq(Tokens), q # <<>>, NEW want \in BOOLEAN,
         NEW r \in Pass(s, q, Len(p), want)
  PROVE  /\ r.s \in States(c) /\ r.ok \in BOOLEAN /\ ~r.s.borrowed
         /\ s.path # "resident" => r.s.path # "resident"
         /\ r.ok => /\ Len(p) + Len(q) <= c /\ Holds(r.s, p \o q)
                    /\ want => r.s.logits = p \o q /\ r.s.fresh
                    /\ want /\ s.path # "resident" => r.s.hidden = p \o q
<1>1. Len(p) \in Nat /\ ~s.borrowed
  BY LenProperties DEF Holds
<1>2. CASE s.path = "resident"
  BY <1>2, DeviceRunHolds DEF Pass
<1>3. CASE s.path # "resident"
  <2>1. r \in HostRun(s, q, Len(p), want)
    BY <1>3 DEF Pass
  <2>2. /\ r.s \in States(c) /\ r.ok \in BOOLEAN /\ r.s.path = s.path
        /\ r.s.borrowed = s.borrowed /\ (r.ok => Len(p) + Len(q) <= c)
    BY <1>1, <2>1, HostRunType
  <2>3. ASSUME r.ok
        PROVE  /\ Holds(r.s, p \o q)
               /\ want => r.s.logits = p \o q /\ r.s.hidden = p \o q /\ r.s.fresh
    BY <1>3, <2>1, <2>3, HostRunHolds
  <2> QED BY <1>1, <1>3, <2>2, <2>3
<1> QED BY <1>2, <1>3

\* The operations of the code are passes.
LEMMA ForwardIsPass ==
  ASSUME NEW s, NEW token, NEW n, NEW want
  PROVE  Forward(s, token, n, want) = Pass(s, <<token>>, n, want)
  BY DEF Forward, Pass

LEMMA TextPrefillIsPass ==
  ASSUME NEW s, NEW q, NEW n
  PROVE  TextPrefill(s, q, n) = Pass(s, q, n, TRUE)
  BY DEF TextPrefill, Pass

\* A prefill with soft tokens gives the plan up and starts over.
LEMMA SoftPrefillHolds ==
  ASSUME NEW c \in Nat, NEW s \in States(c), ~s.borrowed,
         NEW q \in Seq(Tokens), q # <<>>, Len(q) <= c,
         NEW r \in SoftPrefill(s, q)
  PROVE  /\ r.s \in States(c) /\ r.ok \in BOOLEAN /\ ~r.s.borrowed
         /\ r.s.path # "resident"
         /\ r.ok => /\ Holds(r.s, q) /\ r.s.logits = q /\ r.s.fresh
                    /\ r.s.hidden = q
<1> DEFINE t == FreePlan(s)
           m == Len(q)
           rows == Written(t.cache, 0, q)
           u == [t EXCEPT !.borrowed = TRUE]
           v == [t EXCEPT !.cache = rows, !.borrowed = TRUE]
<1>1. /\ t \in States(c) /\ t.path # "resident" /\ ~t.borrowed /\ Capacity(t) = c
  BY FreePlanType
<1>2. m \in Nat /\ m > 0 /\ m \in 1 .. c
  BY EmptySeq, LenProperties
<1>3. t.cache \in [1 .. c -> Texts(c)] /\ DOMAIN t.cache = 1 .. c /\ Corrupt \in Texts(c)
  BY <1>1, TextsAre DEF States
<1>4. rows \in [1 .. c -> Texts(c)]
  BY <1>3, WrittenType
<1>5. Spoiled(t.cache, 0, m) \in [1 .. c -> Texts(c)]
  BY <1>3, SpoiledType
<1>6. RowsOf(rows, q, m)
  <2>1. <<>> \in Seq(Tokens) /\ Len(<<>>) = 0 /\ <<>> \o q = q /\ 0 + m = m
    BY <1>2, EmptySeq, ConcatEmptySeq
  <2>2. RowsOf(t.cache, <<>>, 0)
    BY DEF RowsOf
  <2>3. RowsOf(Written(t.cache, Len(<<>>), q), <<>> \o q, Len(<<>>) + Len(q))
    BY <1>2, <1>3, <2>1, <2>2, WrittenRows
  <2> QED BY <2>1, <2>3
<1>7. rows[m] = q
  BY <1>2, <1>6, SubSeqFull DEF RowsOf
<1>8. \/ r = Failed(Return(t))
      \/ r = Failed(Return(Broken(u, 0, m)))
      \/ r = Done(Return(Output(v, m, TRUE)))
  BY DEF SoftPrefill
<1> HIDE DEF t, m, rows
<1>9. CASE r = Failed(Return(t))
  BY <1>1, <1>9 DEF Failed, Return, States
<1>10. CASE r = Failed(Return(Broken(u, 0, m)))
  BY <1>1, <1>3, <1>5, <1>10 DEF Failed, Return, Broken, States
<1>11. CASE r = Done(Return(Output(v, m, TRUE)))
  <2>1. rows[m] \in Texts(c)
    BY <1>2, <1>4
  <2>2. /\ r.ok /\ r.s \in States(c) /\ ~r.s.borrowed /\ r.s.path # "resident"
        /\ r.s.logits = q /\ r.s.hidden = q /\ r.s.fresh /\ r.s.cache = rows
    BY <1>1, <1>4, <1>7, <1>11, <2>1 DEF Done, Return, Output, States
  <2>3. Capacity(r.s) = c
    BY <2>2, StateParts
  <2>4. Holds(r.s, q)
    BY <1>6, <2>2, <2>3 DEF Holds, m
  <2> QED BY <2>2, <2>4
<1> QED BY <1>8, <1>9, <1>10, <1>11

\* A sample may use up the logits, nothing else.
LEMMA ConsumeHolds ==
  ASSUME NEW c \in Nat, NEW s \in States(c), NEW greedy \in BOOLEAN
  PROVE  LET t == Consume(s, greedy)
         IN /\ t \in States(c) /\ t.path = s.path /\ t.borrowed = s.borrowed
            /\ t.cache = s.cache /\ t.hidden = s.hidden /\ t.logits = s.logits
            /\ \A p : Holds(s, p) => Holds(t, p)
<1>1. /\ Consume(s, greedy) \in States(c)
      /\ \E b : Consume(s, greedy) = [s EXCEPT !.fresh = b]
  <2>1. CASE greedy
    <3>1. s = [s EXCEPT !.fresh = s.fresh]
      BY DEF States
    <3> QED BY <2>1, <3>1 DEF Consume
  <2>2. CASE ~greedy
    BY <2>2 DEF Consume, States
  <2> QED BY <2>1, <2>2
<1>2. PICK b : Consume(s, greedy) = [s EXCEPT !.fresh = b]
  BY <1>1
<1>3. LET t == Consume(s, greedy)
      IN /\ t.path = s.path /\ t.borrowed = s.borrowed /\ t.cache = s.cache
         /\ t.hidden = s.hidden /\ t.logits = s.logits /\ t.tokens = s.tokens
         /\ t.doubt = s.doubt /\ t.valid = s.valid /\ t.kv = s.kv
  BY <1>2 DEF States
<1>4. ASSUME NEW p, Holds(s, p) PROVE Holds(Consume(s, greedy), p)
  BY <1>3, <1>4 DEF Holds, Capacity
<1> QED BY <1>1, <1>3, <1>4

\* A pass of an assistant that carries the hidden state of a text and borrows
\* the rows of one of its prefixes extends that text.
LEMMA AssistantRunIs ==
  ASSUME NEW c \in Nat, NEW s \in States(c), NEW target \in States(c),
         NEW a \in Seq(Tokens), NEW length \in Nat, length <= Len(a),
         RowsOf(target.cache, a, length), s.hidden = a,
         NEW token \in Tokens,
         NEW r \in AssistantRun(s, target, token, Len(a), length), r.ok
  PROVE  /\ r.s \in States(c) /\ r.s.path = s.path /\ r.s.borrowed = s.borrowed
         /\ r.s.logits = Append(a, token) /\ r.s.hidden = Append(a, token)
         /\ r.s.fresh /\ Len(a) < c /\ length > 0
<1> DEFINE n == Len(a)
           known == /\ Coherent(target.cache, length) /\ Len(s.hidden) = n
                    /\ IsPrefix(target.cache[length], s.hidden)
           p == IF known THEN Append(s.hidden, token) ELSE Corrupt
<1>1. n \in Nat /\ Capacity(s) = c /\ Capacity(target) = c /\ length \in 0 .. n
  BY StateParts, LenProperties
<1>2. /\ ~(n >= c \/ length = 0 \/ length > c)
      /\ \/ r = Done([s EXCEPT !.logits = p, !.hidden = p, !.fresh = TRUE])
         \/ r = Failed([s EXCEPT !.logits = Corrupt, !.hidden = Corrupt, !.fresh = FALSE])
  BY <1>1 DEF AssistantRun, Failed
<1>3. Coherent(target.cache, length)
  BY <1>1, RowsAreCoherent
<1>4. target.cache[length] = SubSeq(a, 1, length)
  BY <1>1, <1>2 DEF RowsOf
<1>5. IsPrefix(target.cache[length], s.hidden)
  <2>1. Len(SubSeq(a, 1, length)) = length /\ SubSeq(a, 1, length) \in Seq(Tokens)
    BY <1>1, FirstOf
  <2>2. SubSeq(SubSeq(a, 1, length), 1, length) = SubSeq(a, 1, length)
    BY <2>1, SubSeqFull
  <2> QED BY <1>1, <1>4, <2>1, <2>2 DEF IsPrefix
<1>6. p = Append(a, token)
  BY <1>3, <1>5
<1>7. Append(a, token) \in Texts(c)
  <2>1. Append(a, token) \in Seq(Tokens) /\ Len(Append(a, token)) = n + 1
    BY AppendProperties
  <2>2. n + 1 <= c
    BY <1>1, <1>2
  <2> QED BY <2>1, <2>2, TextsAre
<1> HIDE DEF n, p
<1>8. r = Done([s EXCEPT !.logits = p, !.hidden = p, !.fresh = TRUE])
  BY <1>2 DEF Failed
<1>9. n < c /\ length > 0
  BY <1>1, <1>2
<1> QED BY <1>6, <1>7, <1>8, <1>9 DEF Done, States, n

\* One token more.
LEMMA ForwardHolds ==
  ASSUME NEW c \in Nat, NEW s \in States(c), NEW p, Holds(s, p), NEW token \in Tokens,
         NEW want \in BOOLEAN, NEW r \in Forward(s, token, Len(p), want)
  PROVE  /\ r.s \in States(c) /\ r.ok \in BOOLEAN /\ ~r.s.borrowed
         /\ s.path # "resident" => r.s.path # "resident"
         /\ r.ok => /\ Len(p) + 1 <= c /\ Holds(r.s, Append(p, token))
                    /\ want => r.s.logits = Append(p, token) /\ r.s.fresh
                    /\ want /\ s.path # "resident" => r.s.hidden = Append(p, token)
<1> DEFINE q == <<token>>
<1>1. p \in Seq(Tokens)
  BY DEF Holds
<1>2. q \in Seq(Tokens) /\ q # <<>>
  BY <1>1, AppendToConcat
<1>5. Append(p, token) = p \o q /\ Len(q) = 1
  BY <1>1, AppendToConcat
<1>3. r \in Pass(s, q, Len(p), want)
  BY ForwardIsPass
<1> HIDE DEF q
<1>4. /\ r.s \in States(c) /\ r.ok \in BOOLEAN /\ ~r.s.borrowed
      /\ s.path # "resident" => r.s.path # "resident"
      /\ r.ok => /\ Len(p) + Len(q) <= c /\ Holds(r.s, p \o q)
                 /\ want => r.s.logits = p \o q /\ r.s.fresh
                 /\ want /\ s.path # "resident" => r.s.hidden = p \o q
  BY <1>2, <1>3, PassHolds, SMTT(30)
<1> QED BY <1>4, <1>5
=============================================================================
