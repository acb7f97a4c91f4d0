----------------------------- MODULE TapeProofs -----------------------------
(***************************************************************************)
(* What the engine's run checks of a gradient graph (Tape): a backward     *)
(* pass computes the derivatives that Tangent defines, for every set of    *)
(* parameters, inputs, operations and bounds that TapeAssumption allows.   *)
(***************************************************************************)
EXTENDS MCEngine, FiniteSetTheorems, WellFoundedInduction, TLAPS

-----------------------------------------------------------------------------
(* Arithmetic.                                                             *)

LEMMA LessIsWellFounded == IsWellFoundedOn({ss \in Nat \X Nat : ss[1] < ss[2]}, Nat)
  BY NatLessThanWellFounded DEF OpToRel

\* A set of naturals that is not empty has a least element.
LEMMA LeastElement ==
  ASSUME NEW T, T \subseteq Nat, T # {}
  PROVE  \E x \in T : \A y \in T : x <= y
<1> DEFINE R == {ss \in Nat \X Nat : ss[1] < ss[2]}
<1>1. \E x \in T : \A y \in T : ~(<<y, x>> \in R)
  <2>1. IsWellFoundedOn(R, Nat)
    BY LessIsWellFounded
  <2> HIDE DEF R
  <2> QED BY <2>1, WFMin
<1>2. PICK x \in T : \A y \in T : ~(<<y, x>> \in R)
  BY <1>1
<1>3. ASSUME NEW y \in T PROVE x <= y
  <2>1. x \in Nat /\ y \in Nat /\ ~(<<y, x>> \in R)
    BY <1>2
  <2>2. ~(y < x)
    BY <2>1
  <2> QED BY <2>1, <2>2
<1> QED BY <1>3

\* Two digits, with b as the radix of the lower one, and the number they give.
LEMMA Pack ==
  ASSUME NEW a \in Nat, NEW b \in Nat, NEW q \in 0 .. a - 1, NEW x \in 0 .. b - 1
  PROVE  /\ q * b + x \in 0 .. (a * b) - 1
         /\ (q * b + x) \div b = q /\ (q * b + x) % b = x
<1>1. b \in Nat \ {0} /\ q \in Nat /\ x \in Nat /\ x < b /\ q + 1 <= a
  OBVIOUS
<1>2. q * b \in Nat /\ a * b \in Nat /\ (q + 1) * b = q * b + b
  BY <1>1
<1>3. (q + 1) * b <= a * b
  BY <1>1
<1>4. q * b + x \in 0 .. (a * b) - 1
  BY <1>1, <1>2, <1>3
<1>5. (q * b + x) \div b = q /\ (q * b + x) % b = x
  BY <1>1
<1> QED BY <1>4, <1>5

LEMMA Unpack ==
  ASSUME NEW a \in Nat, NEW b \in Nat, NEW v \in 0 .. (a * b) - 1
  PROVE  /\ b > 0 /\ v \div b \in 0 .. a - 1 /\ v % b \in 0 .. b - 1
         /\ v = (v \div b) * b + (v % b)
<1>1. a * b \in Nat /\ v \in Nat /\ v < a * b
  BY SMT
<1>2. b > 0
  <2>1. b = 0 => a * b = 0
    BY SMT
  <2> QED BY <1>1, <2>1
<1>3. v \div b \in Nat /\ v % b \in 0 .. b - 1 /\ v = b * (v \div b) + (v % b)
  BY <1>1, <1>2, SMT
<1> DEFINE q == v \div b
<1>4. q < a
  <2>1. SUFFICES ASSUME a <= q PROVE FALSE
    BY <1>3
  <2>2. q \in Nat /\ a * b <= q * b
    BY <1>3, <2>1, SMT
  <2>3. v = q * b + (v % b)
    BY <1>3, SMT
  <2> HIDE DEF q
  <2> QED BY <1>1, <1>3, <2>2, <2>3
<1>5. b * q = q * b
  BY <1>3, SMT
<1> QED BY <1>2, <1>3, <1>4, <1>5

-----------------------------------------------------------------------------
(* Sums.                                                                   *)

\* A set is in G if each of its subsets is, once all smaller ones are.
LEMMA SmallerFirst ==
  ASSUME NEW S, IsFiniteSet(S), NEW G,
         \A T \in SUBSET S : (\A R \in SUBSET T : R # T => R \in G) => T \in G
  PROVE  \A T \in SUBSET S : T \in G
<1> DEFINE Bad == {Cardinality(T) : T \in {T \in SUBSET S : T \notin G}}
<1>1. \A T \in SUBSET S : IsFiniteSet(T) /\ Cardinality(T) \in Nat
  BY FS_Subset, FS_CardinalityType
<1>2. SUFFICES ASSUME Bad # {} PROVE FALSE
  OBVIOUS
<1>3. PICK n \in Bad : \A m \in Bad : n <= m
  <2>1. Bad \subseteq Nat
    BY <1>1
  <2> HIDE DEF Bad
  <2> QED BY <1>2, <2>1, LeastElement
<1>4. PICK T \in SUBSET S : T \notin G /\ n = Cardinality(T)
  OBVIOUS
<1>5. ASSUME NEW R \in SUBSET T, R # T PROVE R \in G
  <2>1. IsFiniteSet(T) /\ Cardinality(R) <= Cardinality(T) /\ Cardinality(R) # Cardinality(T)
        /\ Cardinality(R) \in Nat /\ Cardinality(T) \in Nat
    <3>1. IsFiniteSet(T) /\ Cardinality(T) \in Nat /\ R \in SUBSET S /\ Cardinality(R) \in Nat
      BY <1>1, <1>4
    <3> QED BY <1>5, <3>1, FS_Subset
  <2>2. SUFFICES ASSUME R \notin G PROVE FALSE
    OBVIOUS
  <2>3. Cardinality(R) \in Bad
    BY <1>4, <2>2
  <2>4. n <= Cardinality(R)
    BY <1>3, <2>3
  <2> QED BY <1>4, <2>1, <2>4
<1> QED BY <1>4, <1>5

\* One element after the other.
LEMMA OneByOne ==
  ASSUME NEW S, IsFiniteSet(S), NEW G, {} \in G,
         \A T \in SUBSET S : \A x \in S \ T : T \in G => T \cup {x} \in G
  PROVE  S \in G
<1>1. ASSUME NEW T \in SUBSET S, \A R \in SUBSET T : R # T => R \in G PROVE T \in G
  <2>1. CASE T = {}
    BY <2>1
  <2>2. CASE T # {}
    <3>1. PICK x : x \in T
      BY <2>2
    <3>2. T \ {x} \in G /\ T \ {x} \in SUBSET S /\ x \in S \ (T \ {x}) /\ (T \ {x}) \cup {x} = T
      BY <1>1, <3>1
    <3> QED BY <3>2
  <2> QED BY <2>1, <2>2
<1> QED BY <1>1, SmallerFirst

\* total[T] is the sum of f over T, taken from the element that is chosen.
Chosen(T) == CHOOSE x \in T : TRUE
Solved(f, T, total) == \A R \in SUBSET T : total[R] = IF R = {} THEN 0 ELSE f[Chosen(R)] + total[R \ {Chosen(R)}]

\* The recursion of MapThenFoldSet, as a function of the sets.
Totals(f, S, total) == total = [R \in SUBSET S |-> IF R = {} THEN 0 ELSE f[Chosen(R)] + total[R \ {Chosen(R)}]]

\* By the least number of elements for which there is none.
LEMMA TotalsExist ==
  ASSUME NEW S, IsFiniteSet(S), NEW f
  PROVE  \E total : Totals(f, S, total)
<1> DEFINE Body(h) == [R \in SUBSET S |-> IF R = {} THEN 0 ELSE f[Chosen(R)] + h[R \ {Chosen(R)}]]
           Small(n) == {T \in SUBSET S : Cardinality(T) <= n}
           Solves(n, h) == \A R \in Small(n) : h[R] = IF R = {} THEN 0 ELSE f[Chosen(R)] + h[R \ {Chosen(R)}]
           Bad == {n \in Nat : ~ \E h : Solves(n, h)}
<1>1. \A T \in SUBSET S : IsFiniteSet(T) /\ Cardinality(T) \in Nat
  BY FS_Subset, FS_CardinalityType
<1>2. \A T \in SUBSET S : T # {} =>
        /\ Chosen(T) \in T /\ T \ {Chosen(T)} \in SUBSET S
        /\ Cardinality(T \ {Chosen(T)}) = Cardinality(T) - 1
  BY <1>1, FS_RemoveElement DEF Chosen
<1>3. ASSUME Bad # {} PROVE FALSE
  <2>1. PICK n \in Bad : \A m \in Bad : n <= m
    <3>1. Bad \subseteq Nat
      OBVIOUS
    <3> HIDE DEF Bad
    <3> QED BY <1>3, <3>1, LeastElement
  <2>2. n # 0
    <3>1. SUFFICES ASSUME n = 0 PROVE FALSE
      OBVIOUS
    <3> DEFINE h == [R \in SUBSET S |-> 0]
    <3>2. \A R \in Small(0) : R = {}
      <4>1. \A R \in SUBSET S : Cardinality(R) <= 0 => R = {}
        BY <1>1, FS_EmptySet
      <4> QED BY <4>1
    <3>3. Solves(0, h)
      BY <3>2
    <3> QED BY <3>1, <3>3
  <2>3. n - 1 \in Nat /\ n \in Nat /\ n - 1 \notin Bad
    <3>1. n \in Nat /\ n - 1 \in Nat
      BY <2>1, <2>2
    <3> HIDE DEF Bad
    <3> QED BY <2>1, <3>1
  <2>4. PICK h : Solves(n - 1, h)
    BY <2>3
  <2> DEFINE g == [R \in SUBSET S |-> IF Cardinality(R) <= n - 1 THEN h[R] ELSE f[Chosen(R)] + h[R \ {Chosen(R)}]]
  <2>5. ASSUME NEW R \in Small(n)
        PROVE  g[R] = IF R = {} THEN 0 ELSE f[Chosen(R)] + g[R \ {Chosen(R)}]
    <3>1. R \in SUBSET S /\ Cardinality(R) <= n /\ Cardinality(R) \in Nat
      BY <1>1
    <3>2. CASE R = {}
      <4>1. Cardinality(R) <= n - 1
        BY <2>3, <3>2, FS_EmptySet
      <4>2. h[R] = 0
        BY <2>4, <3>1, <3>2, <4>1
      <4> QED BY <3>1, <3>2, <4>1, <4>2
    <3>3. CASE R # {}
      <4> DEFINE Q == R \ {Chosen(R)}
      <4>1. Q \in SUBSET S /\ Cardinality(Q) <= n - 1
        BY <1>2, <2>3, <3>1, <3>3
      <4>2. g[Q] = h[Q]
        BY <4>1
      <4>3. g[R] = f[Chosen(R)] + h[Q]
        <5>1. CASE Cardinality(R) <= n - 1
          BY <2>4, <3>1, <3>3, <5>1
        <5>2. CASE ~(Cardinality(R) <= n - 1)
          BY <3>1, <5>2
        <5> QED BY <5>1, <5>2
      <4> QED BY <3>3, <4>2, <4>3
    <3> QED BY <3>2, <3>3
  <2>6. Solves(n, g)
    BY <2>5
  <2> QED BY <2>1, <2>6
<1>4. PICK h : Solves(Cardinality(S), h)
  <2>1. Cardinality(S) \in Nat /\ Cardinality(S) \notin Bad
    BY <1>1, <1>3
  <2> QED BY <2>1
<1> DEFINE total == [R \in SUBSET S |-> h[R]]
<1>5. \A R \in SUBSET S : R \in Small(Cardinality(S))
  BY FS_Subset
<1>6. total = Body(total)
  <2>1. \A R \in SUBSET S : total[R] = IF R = {} THEN 0 ELSE f[Chosen(R)] + total[R \ {Chosen(R)}]
    BY <1>2, <1>4, <1>5
  <2> QED BY <2>1
<1> QED BY <1>6 DEF Totals

\* The fold is such a total.
LEMMA SumIs ==
  ASSUME NEW S, IsFiniteSet(S), NEW f, DOMAIN f = S
  PROVE  \E total : /\ Solved(f, S, total) /\ Train!Sum(f) = total[S]
<1> DEFINE total == CHOOSE h : Totals(f, S, h)
<1>1. Totals(f, S, total)
  BY TotalsExist
<1>2. Train!Sum(f) = total[S]
  BY DEF Train!Sum, Train!MapThenFoldSet, Chosen, Totals
<1> HIDE DEF total
<1>3. Solved(f, S, total)
  BY <1>1 DEF Solved, Totals
<1> QED BY <1>2, <1>3

LEMMA SumOfNone == ASSUME NEW f, DOMAIN f = {} PROVE Train!Sum(f) = 0
<1>1. PICK total : Solved(f, {}, total) /\ Train!Sum(f) = total[{}]
  BY FS_EmptySet, SumIs
<1> QED BY <1>1 DEF Solved

LEMMA TotalType ==
  ASSUME NEW S, IsFiniteSet(S), NEW f \in [S -> Int], NEW total, Solved(f, S, total)
  PROVE  \A T \in SUBSET S : total[T] \in Int
<1> DEFINE G == {T \in SUBSET S : total[T] \in Int}
<1>1. ASSUME NEW T \in SUBSET S, \A R \in SUBSET T : R # T => R \in G PROVE T \in G
  <2>1. CASE T = {}
    <3>1. total[T] = 0
      BY <2>1 DEF Solved
    <3> QED BY <3>1
  <2>2. CASE T # {}
    <3>1. Chosen(T) \in T
      BY <2>2 DEF Chosen
    <3>2. T \ {Chosen(T)} \in G
      BY <1>1, <3>1
    <3>3. total[T] = f[Chosen(T)] + total[T \ {Chosen(T)}]
      BY <2>2 DEF Solved
    <3>4. f[Chosen(T)] \in Int /\ total[T \ {Chosen(T)}] \in Int
      BY <3>1, <3>2
    <3> QED BY <3>3, <3>4
  <2> QED BY <2>1, <2>2
<1> HIDE DEF G
<1>2. \A T \in SUBSET S : T \in G
  BY <1>1, SmallerFirst
<1> QED BY <1>2 DEF G

\* Any element may be taken first.
LEMMA TotalFrom ==
  ASSUME NEW S, IsFiniteSet(S), NEW f \in [S -> Int], NEW total, Solved(f, S, total)
  PROVE  \A T \in SUBSET S : \A x \in T : total[T] = f[x] + total[T \ {x}]
<1> DEFINE G == {T \in SUBSET S : \A x \in T : total[T] = f[x] + total[T \ {x}]}
<1>1. ASSUME NEW T \in SUBSET S, \A R \in SUBSET T : R # T => R \in G PROVE T \in G
  <2> SUFFICES ASSUME NEW x \in T PROVE total[T] = f[x] + total[T \ {x}]
    OBVIOUS
  <2> DEFINE c == Chosen(T)
  <2>1. c \in T
    BY DEF Chosen
  <2>2. total[T] = f[c] + total[T \ {c}]
    BY DEF Solved
  <2>3. CASE x = c
    BY <2>2, <2>3
  <2>4. CASE x # c
    <3> HIDE DEF c
    <3>1. T \ {c} \in G /\ T \ {x} \in G /\ x \in T \ {c} /\ c \in T \ {x}
          /\ (T \ {c}) \ {x} = (T \ {x}) \ {c}
      BY <1>1, <2>1, <2>4
    <3>2. total[T \ {c}] = f[x] + total[(T \ {c}) \ {x}]
      BY <3>1
    <3>3. total[T \ {x}] = f[c] + total[(T \ {c}) \ {x}]
      BY <3>1
    <3>4. f[x] \in Int /\ f[c] \in Int /\ total[(T \ {c}) \ {x}] \in Int
      BY <2>1, TotalType
    <3> QED BY <2>2, <3>2, <3>3, <3>4
  <2> QED BY <2>3, <2>4
<1> HIDE DEF G
<1>2. \A T \in SUBSET S : T \in G
  BY <1>1, SmallerFirst
<1> QED BY <1>2 DEF G

\* Totals of functions that agree agree.
LEMMA TotalsAgree ==
  ASSUME NEW S, IsFiniteSet(S), NEW f, NEW g, \A x \in S : f[x] = g[x],
         NEW t, Solved(f, S, t), NEW u, Solved(g, S, u)
  PROVE  t[S] = u[S]
<1> DEFINE G == {T \in SUBSET S : t[T] = u[T]}
<1>1. ASSUME NEW T \in SUBSET S, \A R \in SUBSET T : R # T => R \in G PROVE T \in G
  <2>1. CASE T = {}
    BY <2>1 DEF Solved
  <2>2. CASE T # {}
    <3>1. Chosen(T) \in T
      BY <2>2 DEF Chosen
    <3>2. T \ {Chosen(T)} \in G
      BY <1>1, <3>1
    <3>3. t[T] = f[Chosen(T)] + t[T \ {Chosen(T)}] /\ u[T] = g[Chosen(T)] + u[T \ {Chosen(T)}]
      BY <2>2 DEF Solved
    <3> QED BY <3>1, <3>2, <3>3
  <2> QED BY <2>1, <2>2
<1> HIDE DEF G
<1>2. \A T \in SUBSET S : T \in G
  BY <1>1, SmallerFirst
<1> QED BY <1>2 DEF G

LEMMA SumType == ASSUME NEW S, IsFiniteSet(S), NEW f \in [S -> Int] PROVE Train!Sum(f) \in Int
<1>1. PICK total : Solved(f, S, total) /\ Train!Sum(f) = total[S]
  BY SumIs
<1> QED BY <1>1, TotalType

\* A sum is any of its terms and the sum of the rest.
LEMMA SumFrom ==
  ASSUME NEW S, IsFiniteSet(S), NEW f \in [S -> Int], NEW x \in S
  PROVE  Train!Sum(f) = f[x] + Train!Sum([y \in S \ {x} |-> f[y]])
<1> DEFINE R == S \ {x}
           g == [y \in R |-> f[y]]
<1>1. IsFiniteSet(R) /\ R \in SUBSET S /\ DOMAIN g = R
  BY FS_Subset
<1>2. PICK t : Solved(f, S, t) /\ Train!Sum(f) = t[S]
  BY SumIs
<1> HIDE DEF g
<1>3. PICK u : Solved(g, R, u) /\ Train!Sum(g) = u[R]
  BY <1>1, SumIs
<1>4. t[S] = f[x] + t[R]
  BY <1>2, TotalFrom
<1>5. t[R] = u[R]
  <2>1. \A y \in R : f[y] = g[y]
    BY DEF g
  <2>2. Solved(f, R, t)
    BY <1>1, <1>2 DEF Solved
  <2> QED BY <1>1, <1>3, <2>1, <2>2, TotalsAgree
<1> QED BY <1>2, <1>3, <1>4, <1>5 DEF g

\* The sum of f over T.
Part(f, T) == Train!Sum([x \in T |-> f[x]])

LEMMA PartSum == ASSUME NEW S, NEW f, f = [x \in S |-> f[x]] PROVE Train!Sum(f) = Part(f, S)
  BY DEF Part

LEMMA PartNone == \A f : Part(f, {}) = 0
  BY SumOfNone DEF Part

LEMMA PartSame == ASSUME NEW T, NEW f, NEW g, \A x \in T : f[x] = g[x] PROVE Part(f, T) = Part(g, T)
<1>1. [x \in T |-> f[x]] = [x \in T |-> g[x]]
  OBVIOUS
<1> QED BY <1>1 DEF Part

LEMMA PartType == ASSUME NEW T, IsFiniteSet(T), NEW f, \A x \in T : f[x] \in Int PROVE Part(f, T) \in Int
  BY SumType DEF Part

LEMMA SumPart ==
  ASSUME NEW S, IsFiniteSet(S), NEW f \in [S -> Int], NEW x \in S
  PROVE  Train!Sum(f) = f[x] + Part(f, S \ {x})
  BY SumFrom DEF Part

LEMMA PartGrows ==
  ASSUME NEW T, IsFiniteSet(T), NEW x, x \notin T, NEW f, \A y \in T \cup {x} : f[y] \in Int
  PROVE  Part(f, T \cup {x}) = f[x] + Part(f, T)
<1> DEFINE S == T \cup {x}
           g == [y \in S |-> f[y]]
<1>1. IsFiniteSet(S) /\ g \in [S -> Int] /\ x \in S /\ S \ {x} = T
  BY FS_AddElement
<1>2. \A y \in S : g[y] = f[y]
  OBVIOUS
<1>3. Train!Sum(g) = Part(f, S)
  BY DEF Part
<1> HIDE DEF g, S
<1>4. Part(g, T) = Part(f, T)
  BY <1>1, <1>2, PartSame
<1>5. Train!Sum(g) = g[x] + Part(g, S \ {x})
  BY <1>1, SumPart
<1>6. S = T \cup {x}
  BY DEF S
<1> QED BY <1>1, <1>2, <1>3, <1>4, <1>5, <1>6

\* A sum of one term and the rest.
LEMMA PartFrom ==
  ASSUME NEW S, IsFiniteSet(S), NEW f, \A y \in S : f[y] \in Int, NEW x \in S
  PROVE  Part(f, S) = f[x] + Part(f, S \ {x})
<1>1. IsFiniteSet(S \ {x}) /\ x \notin S \ {x} /\ (S \ {x}) \cup {x} = S
  BY FS_Subset
<1> QED BY <1>1, PartGrows

LEMMA PartAdd ==
  ASSUME NEW S, IsFiniteSet(S), NEW f, NEW g, NEW h, \A x \in S : f[x] \in Int /\ g[x] \in Int /\ h[x] = f[x] + g[x]
  PROVE  Part(h, S) = Part(f, S) + Part(g, S)
<1> DEFINE G == {T \in SUBSET S : Part(h, T) = Part(f, T) + Part(g, T)}
<1>1. {} \in G
  BY PartNone
<1>2. ASSUME NEW T \in SUBSET S, NEW x \in S \ T, T \in G PROVE T \cup {x} \in G
  <2>1. IsFiniteSet(T)
    BY FS_Subset
  <2>2. \A y \in S : h[y] \in Int
    OBVIOUS
  <2>3. Part(h, T \cup {x}) = h[x] + Part(h, T)
    BY <2>1, <2>2, PartGrows
  <2>4. Part(f, T \cup {x}) = f[x] + Part(f, T) /\ Part(g, T \cup {x}) = g[x] + Part(g, T)
    BY <2>1, PartGrows
  <2>5. Part(f, T) \in Int /\ Part(g, T) \in Int
    BY <2>1, PartType
  <2>6. Part(h, T \cup {x}) = Part(f, T \cup {x}) + Part(g, T \cup {x})
    BY <1>2, <2>3, <2>4, <2>5
  <2> QED BY <2>6
<1> HIDE DEF G
<1>3. S \in G
  BY <1>1, <1>2, OneByOne
<1> QED BY <1>3 DEF G

LEMMA Distributes == \A a, b, c \in Int : a * (b + c) = a * b + a * c /\ a * b \in Int /\ a * b = b * a
  OBVIOUS

LEMMA PartTimes ==
  ASSUME NEW S, IsFiniteSet(S), NEW c \in Int, NEW f, NEW h, \A x \in S : f[x] \in Int /\ h[x] = c * f[x]
  PROVE  Part(h, S) = c * Part(f, S)
<1> DEFINE G == {T \in SUBSET S : Part(h, T) = c * Part(f, T)}
<1>1. {} \in G
  <2>1. c * 0 = 0
    OBVIOUS
  <2> QED BY <2>1, PartNone
<1>2. ASSUME NEW T \in SUBSET S, NEW x \in S \ T, T \in G PROVE T \cup {x} \in G
  <2>1. IsFiniteSet(T)
    BY FS_Subset
  <2>2. \A y \in S : h[y] \in Int
    BY Distributes
  <2>3. Part(h, T \cup {x}) = h[x] + Part(h, T)
    BY <2>1, <2>2, PartGrows
  <2>4. Part(f, T \cup {x}) = f[x] + Part(f, T)
    BY <2>1, PartGrows
  <2>5. Part(f, T) \in Int /\ f[x] \in Int /\ h[x] = c * f[x] /\ Part(h, T) = c * Part(f, T)
    BY <1>2, <2>1, PartType
  <2>6. c * (f[x] + Part(f, T)) = c * f[x] + c * Part(f, T)
    BY <2>5, Distributes
  <2>7. Part(h, T \cup {x}) = c * Part(f, T \cup {x})
    BY <2>3, <2>4, <2>5, <2>6
  <2> QED BY <2>7
<1> HIDE DEF G
<1>3. S \in G
  BY <1>1, <1>2, OneByOne
<1> QED BY <1>3 DEF G

LEMMA PartZero == ASSUME NEW S, IsFiniteSet(S), NEW f, \A x \in S : f[x] = 0 PROVE Part(f, S) = 0
<1>1. \A x \in S : f[x] \in Int /\ f[x] = 0 * f[x]
  OBVIOUS
<1>2. Part(f, S) \in Int
  BY <1>1, PartType
<1>3. Part(f, S) = 0 * Part(f, S)
  <2>1. 0 \in Int
    OBVIOUS
  <2> QED BY <1>1, <2>1, PartTimes
<1> QED BY <1>2, <1>3

\* Terms that are zero do not count.
LEMMA PartSupport ==
  ASSUME NEW S, IsFiniteSet(S), NEW T \in SUBSET S, NEW f, \A x \in S : f[x] \in Int,
         \A x \in S \ T : f[x] = 0
  PROVE  Part(f, S) = Part(f, T)
<1> DEFINE G == {R \in SUBSET S : Part(f, R) = Part(f, R \cap T)}
<1>1. {} \in G
  <2>1. {} \cap T = {}
    OBVIOUS
  <2> QED BY <2>1
<1>2. ASSUME NEW R \in SUBSET S, NEW x \in S \ R, R \in G PROVE R \cup {x} \in G
  <2>1. IsFiniteSet(R) /\ IsFiniteSet(R \cap T)
    BY FS_Subset
  <2>2. Part(f, R \cup {x}) = f[x] + Part(f, R)
    BY <2>1, PartGrows
  <2>3. CASE x \in T
    <3>1. (R \cup {x}) \cap T = (R \cap T) \cup {x} /\ x \notin R \cap T
      BY <2>3
    <3>2. Part(f, (R \cap T) \cup {x}) = f[x] + Part(f, R \cap T)
      BY <2>1, <3>1, PartGrows
    <3> QED BY <1>2, <2>2, <3>1, <3>2
  <2>4. CASE x \notin T
    <3>1. (R \cup {x}) \cap T = R \cap T /\ f[x] = 0
      BY <2>4
    <3>2. Part(f, R) \in Int
      BY <2>1, PartType
    <3>3. Part(f, R \cup {x}) = Part(f, R)
      BY <2>2, <3>1, <3>2
    <3> QED BY <1>2, <3>1, <3>3
  <2> QED BY <2>3, <2>4
<1> HIDE DEF G
<1>3. S \in G
  BY <1>1, <1>2, OneByOne
<1>4. S \cap T = T
  OBVIOUS
<1> QED BY <1>3, <1>4 DEF G

LEMMA PartSingle ==
  ASSUME NEW S, IsFiniteSet(S), NEW x \in S, NEW f, f[x] \in Int, \A y \in S \ {x} : f[y] = 0
  PROVE  Part(f, S) = f[x]
<1>1. \A y \in S : f[y] \in Int
  OBVIOUS
<1>2. Part(f, S) = f[x] + Part(f, S \ {x})
  BY <1>1, PartFrom
<1>3. Part(f, S \ {x}) = 0
  BY FS_Subset, PartZero
<1> QED BY <1>2, <1>3

\* The order and the names of the terms do not matter.
LEMMA PartMoved ==
  ASSUME NEW S, IsFiniteSet(S), NEW f, \A x \in S : f[x] \in Int,
         NEW R, IsFiniteSet(R), NEW h \in [R -> S], NEW g, \A y \in R : g[y] = f[h[y]],
         \A y, z \in R : y # z => h[y] # h[z],
         \A x \in S : \E y \in R : h[y] = x
  PROVE  Part(g, R) = Part(f, S)
<1> DEFINE To(T) == {h[y] : y \in T}
           G == {T \in SUBSET R : Part(g, T) = Part(f, To(T)) /\ IsFiniteSet(To(T))}
<1>1. {} \in G
  <2>1. To({}) = {}
    OBVIOUS
  <2> QED BY <2>1, PartNone, FS_EmptySet
<1>2. ASSUME NEW T \in SUBSET R, NEW y \in R \ T, T \in G PROVE T \cup {y} \in G
  <2>1. IsFiniteSet(T) /\ IsFiniteSet(To(T))
    BY <1>2, FS_Subset
  <2>2. To(T \cup {y}) = To(T) \cup {h[y]} /\ h[y] \notin To(T) /\ To(T) \cup {h[y]} \subseteq S
    OBVIOUS
  <2>3. Part(g, T \cup {y}) = g[y] + Part(g, T)
    <3>1. \A z \in R : g[z] \in Int
      OBVIOUS
    <3> QED BY <2>1, <3>1, PartGrows
  <2>4. IsFiniteSet(To(T) \cup {h[y]})
    BY <2>1, FS_AddElement
  <2>5. Part(f, To(T) \cup {h[y]}) = f[h[y]] + Part(f, To(T))
    <3> HIDE DEF To
    <3> QED BY <2>1, <2>2, PartGrows
  <2>6. Part(g, T) = Part(f, To(T)) /\ g[y] = f[h[y]]
    BY <1>2
  <2>7. Part(g, T \cup {y}) = Part(f, To(T \cup {y})) /\ IsFiniteSet(To(T \cup {y}))
    <3> HIDE DEF To
    <3> QED BY <2>2, <2>3, <2>4, <2>5, <2>6
  <2> QED BY <2>7
<1>3. R \in G
  <2> HIDE DEF G
  <2> QED BY <1>1, <1>2, OneByOne
<1>4. To(R) = S
  OBVIOUS
<1> QED BY <1>3, <1>4

\* Rows first or columns first.
ByRows(f, S, R)    == Part([x \in S |-> Part([y \in R |-> f[<<x, y>>]], R)], S)
ByColumns(f, S, R) == Part([y \in R |-> Part([x \in S |-> f[<<x, y>>]], S)], R)

LEMMA PartSwap ==
  ASSUME NEW S, IsFiniteSet(S), NEW R, IsFiniteSet(R), NEW f, \A x \in S, y \in R : f[<<x, y>>] \in Int
  PROVE  ByRows(f, S, R) = ByColumns(f, S, R)
<1> DEFINE row == [x \in S |-> Part([y \in R |-> f[<<x, y>>]], R)]
           column(T) == [y \in R |-> Part([x \in S |-> f[<<x, y>>]], T)]
           G == {T \in SUBSET S : Part(row, T) = Part(column(T), R)}
<1>1. {} \in G
  <2>1. \A y \in R : column({})[y] = 0
    BY PartNone
  <2>2. Part(column({}), R) = 0
    <3> HIDE DEF column
    <3> QED BY <2>1, PartZero
  <2>3. Part(row, {}) = 0
    BY PartNone
  <2> QED BY <2>2, <2>3
<1>2. ASSUME NEW T \in SUBSET S, NEW x \in S \ T, T \in G PROVE T \cup {x} \in G
  <2> DEFINE of == [y \in R |-> f[<<x, y>>]]
  <2>1. IsFiniteSet(T)
    BY FS_Subset
  <2>2. \A y \in R : of[y] \in Int /\ column(T)[y] \in Int /\ column(T \cup {x})[y] = of[y] + column(T)[y]
    <3> SUFFICES ASSUME NEW y \in R
                 PROVE  of[y] \in Int /\ column(T)[y] \in Int /\ column(T \cup {x})[y] = of[y] + column(T)[y]
      OBVIOUS
    <3> DEFINE c == [z \in S |-> f[<<z, y>>]]
    <3>1. \A z \in S : c[z] \in Int
      OBVIOUS
    <3>2. c[x] = of[y] /\ of[y] \in Int
      OBVIOUS
    <3>3. column(T)[y] = Part(c, T) /\ column(T \cup {x})[y] = Part(c, T \cup {x})
      OBVIOUS
    <3> HIDE DEF c
    <3>4. Part(c, T) \in Int
      BY <2>1, <3>1, PartType
    <3>5. Part(c, T \cup {x}) = c[x] + Part(c, T)
      BY <2>1, <3>1, PartGrows
    <3> QED BY <3>2, <3>3, <3>4, <3>5
  <2>3. \A z \in S : row[z] \in Int
    <3> SUFFICES ASSUME NEW z \in S PROVE Part([y \in R |-> f[<<z, y>>]], R) \in Int
      OBVIOUS
    <3>1. \A y \in R : [w \in R |-> f[<<z, w>>]][y] \in Int
      OBVIOUS
    <3> QED BY <3>1, PartType
  <2>4. Part(row, T \cup {x}) = row[x] + Part(row, T)
    <3> HIDE DEF row
    <3> QED BY <2>1, <2>3, PartGrows
  <2>5. row[x] = Part(of, R)
    OBVIOUS
  <2>6. Part(column(T \cup {x}), R) = Part(of, R) + Part(column(T), R)
    <3> HIDE DEF of, column
    <3> QED BY <2>2, PartAdd
  <2>7. Part(row, T \cup {x}) = Part(column(T \cup {x}), R)
    <3> HIDE DEF of, row, column
    <3>1. Part(row, T) = Part(column(T), R)
      BY <1>2
    <3> QED BY <2>4, <2>5, <2>6, <3>1
  <2> QED BY <2>7
<1>3. S \in G
  <2> HIDE DEF G
  <2> QED BY <1>1, <1>2, OneByOne
<1> QED BY <1>3 DEF ByRows, ByColumns

-----------------------------------------------------------------------------
(* Linear maps.                                                            *)

\* What is added to u, when w is a linear function of u and dw what it gets, is
\* such that both inner products are the same.
Dual(K, dw, w, E, du, u) ==
  Part([k \in K |-> dw[k] * w[k]], K) = Part([e \in E |-> du[e] * u[e]], E)

LEMMA ProductLaws == \A a, b, c \in Int : a * b \in Int /\ a * b = b * a /\ (a * b) * c = a * (b * c)
  OBVIOUS

LEMMA Adjoint ==
  ASSUME NEW K, IsFiniteSet(K), NEW E, IsFiniteSet(E), NEW M \in [K \X E -> Int],
         NEW dw \in [K -> Int], NEW u \in [E -> Int], NEW w, NEW du,
         \A k \in K : w[k] = Part([e \in E |-> M[<<k, e>>] * u[e]], E),
         \A e \in E : du[e] = Part([k \in K |-> dw[k] * M[<<k, e>>]], K)
  PROVE  Dual(K, dw, w, E, du, u)
<1> DEFINE f == [x \in K \X E |-> dw[x[1]] * (M[x] * u[x[2]])]
<1>1. \A k \in K, e \in E : /\ M[<<k, e>>] \in Int /\ dw[k] \in Int /\ u[e] \in Int
                            /\ f[<<k, e>>] = dw[k] * (M[<<k, e>>] * u[e])
  OBVIOUS
<1> HIDE DEF f
<1>2. \A k \in K, e \in E : /\ M[<<k, e>>] * u[e] \in Int /\ dw[k] * M[<<k, e>>] \in Int
                            /\ f[<<k, e>>] \in Int
                            /\ f[<<k, e>>] = u[e] * (dw[k] * M[<<k, e>>])
  <2> SUFFICES ASSUME NEW k \in K, NEW e \in E
               PROVE  /\ M[<<k, e>>] * u[e] \in Int /\ dw[k] * M[<<k, e>>] \in Int
                      /\ f[<<k, e>>] \in Int
                      /\ f[<<k, e>>] = u[e] * (dw[k] * M[<<k, e>>])
    OBVIOUS
  <2> DEFINE a == dw[k]
             b == M[<<k, e>>]
             c == u[e]
  <2>1. a \in Int /\ b \in Int /\ c \in Int /\ f[<<k, e>>] = a * (b * c)
    BY <1>1
  <2> HIDE DEF a, b, c
  <2>2. b * c \in Int /\ a * b \in Int /\ a * (b * c) \in Int /\ a * (b * c) = c * (a * b)
    BY <2>1, ProductLaws
  <2> QED BY <2>1, <2>2 DEF a, b, c
<1>3. ASSUME NEW k \in K PROVE Part([e \in E |-> f[<<k, e>>]], E) = dw[k] * w[k]
  <2> DEFINE row == [e \in E |-> M[<<k, e>>] * u[e]]
             h   == [e \in E |-> f[<<k, e>>]]
  <2>1. \A e \in E : row[e] \in Int /\ h[e] = dw[k] * row[e]
    BY <1>1, <1>2
  <2>2. w[k] = Part(row, E) /\ dw[k] \in Int
    OBVIOUS
  <2> HIDE DEF row, h
  <2>3. Part(h, E) = dw[k] * Part(row, E)
    BY <2>1, <2>2, PartTimes
  <2> QED BY <2>2, <2>3 DEF h
<1>4. ASSUME NEW e \in E PROVE Part([k \in K |-> f[<<k, e>>]], K) = du[e] * u[e]
  <2> DEFINE column == [k \in K |-> dw[k] * M[<<k, e>>]]
             h      == [k \in K |-> f[<<k, e>>]]
  <2>1. \A k \in K : column[k] \in Int /\ h[k] = u[e] * column[k]
    BY <1>2
  <2>2. du[e] = Part(column, K) /\ u[e] \in Int
    OBVIOUS
  <2> HIDE DEF column, h
  <2>3. Part(h, K) = u[e] * Part(column, K) /\ Part(column, K) \in Int
    BY <2>1, <2>2, PartTimes, PartType
  <2>4. Part(h, K) = du[e] * u[e]
    BY <2>2, <2>3, ProductLaws
  <2> QED BY <2>4 DEF h
<1>5. ByRows(f, K, E) = ByColumns(f, K, E)
  <2>1. \A k \in K, e \in E : f[<<k, e>>] \in Int
    BY <1>2
  <2> QED BY <2>1, PartSwap
<1>6. [k \in K |-> Part([e \in E |-> f[<<k, e>>]], E)] = [k \in K |-> dw[k] * w[k]]
  BY <1>3
<1>7. [e \in E |-> Part([k \in K |-> f[<<k, e>>]], K)] = [e \in E |-> du[e] * u[e]]
  BY <1>4
<1>8. Part([k \in K |-> dw[k] * w[k]], K) = ByRows(f, K, E)
  BY <1>6 DEF ByRows
<1>9. Part([e \in E |-> du[e] * u[e]], E) = ByColumns(f, K, E)
  BY <1>7 DEF ByColumns
<1> QED BY <1>5, <1>8, <1>9 DEF Dual

\* Each w[k] is a multiple of one element of u.
Scattered(K, E, to, by, dw, u, w, du) ==
  /\ IsFiniteSet(K) /\ IsFiniteSet(E) /\ to \in [K -> E] /\ by \in [K -> Int]
  /\ dw \in [K -> Int] /\ u \in [E -> Int]
  /\ \A k \in K : w[k] = by[k] * u[to[k]]
  /\ \A e \in E : du[e] = Part([k \in K |-> dw[k] * by[k]], {k \in K : to[k] = e})

LEMMA Scatter ==
  ASSUME NEW K, NEW E, NEW to, NEW by, NEW dw, NEW u, NEW w, NEW du, Scattered(K, E, to, by, dw, u, w, du)
  PROVE  Dual(K, dw, w, E, du, u)
<1>0. /\ IsFiniteSet(K) /\ IsFiniteSet(E) /\ to \in [K -> E] /\ by \in [K -> Int]
      /\ dw \in [K -> Int] /\ u \in [E -> Int]
      /\ \A k \in K : w[k] = by[k] * u[to[k]]
      /\ \A e \in E : du[e] = Part([k \in K |-> dw[k] * by[k]], {k \in K : to[k] = e})
  BY DEF Scattered
<1> USE <1>0
<1> DEFINE M == [x \in K \X E |-> IF to[x[1]] = x[2] THEN by[x[1]] ELSE 0]
<1>1. M \in [K \X E -> Int]
  OBVIOUS
<1>2. \A k \in K, e \in E : M[<<k, e>>] = IF to[k] = e THEN by[k] ELSE 0
  OBVIOUS
<1> HIDE DEF M
<1>3. \A n \in Int : 0 * n = 0 /\ n * 0 = 0
  OBVIOUS
<1>4. ASSUME NEW k \in K PROVE w[k] = Part([e \in E |-> M[<<k, e>>] * u[e]], E)
  <2> DEFINE f == [e \in E |-> M[<<k, e>>] * u[e]]
  <2>1. f[to[k]] = by[k] * u[to[k]] /\ to[k] \in E /\ by[k] \in Int /\ u[to[k]] \in Int
    BY <1>2
  <2>2. \A e \in E \ {to[k]} : f[e] = 0
    BY <1>2, <1>3
  <2> HIDE DEF f
  <2>3. f[to[k]] \in Int
    BY <2>1, ProductLaws
  <2>4. Part(f, E) = f[to[k]]
    BY <2>1, <2>2, <2>3, PartSingle
  <2> QED BY <2>1, <2>4 DEF f
<1>5. ASSUME NEW e \in E PROVE du[e] = Part([k \in K |-> dw[k] * M[<<k, e>>]], K)
  <2> DEFINE f == [k \in K |-> dw[k] * M[<<k, e>>]]
             g == [k \in K |-> dw[k] * by[k]]
             T == {k \in K : to[k] = e}
  <2>1. \A k \in T : f[k] = g[k]
    BY <1>2
  <2>2. \A k \in K \ T : f[k] = 0
    BY <1>2, <1>3
  <2>3. \A k \in K : f[k] \in Int
    <3> SUFFICES ASSUME NEW k \in K PROVE dw[k] * M[<<k, e>>] \in Int
      OBVIOUS
    <3>1. dw[k] \in Int /\ M[<<k, e>>] \in Int
      BY <1>1
    <3> QED BY <3>1, ProductLaws
  <2>4. T \in SUBSET K /\ du[e] = Part(g, T)
    OBVIOUS
  <2> HIDE DEF f, g, T
  <2>5. Part(f, K) = Part(f, T)
    BY <2>2, <2>3, <2>4, PartSupport
  <2>6. Part(f, T) = Part(g, T)
    BY <2>1, PartSame
  <2> QED BY <2>4, <2>5, <2>6 DEF f
<1> QED BY <1>1, <1>4, <1>5, Adjoint

\* Element j of row r, of rows of c elements.
Spot(c, r, j) == (r - 1) * c + j

LEMMA SpotAt ==
  ASSUME NEW n \in Nat, NEW c \in Nat, NEW r \in 1 .. n, NEW j \in 1 .. c
  PROVE  /\ Spot(c, r, j) \in 1 .. n * c
         /\ Train!Row(Spot(c, r, j), c) = r /\ Train!Column(Spot(c, r, j), c) = j
<1>1. r - 1 \in 0 .. n - 1 /\ j - 1 \in 0 .. c - 1
  OBVIOUS
<1> DEFINE v == (r - 1) * c + (j - 1)
<1>2. v \in 0 .. (n * c) - 1 /\ v \div c = r - 1 /\ v % c = j - 1
  BY <1>1, Pack
<1>3. (r - 1) * c \in Nat /\ n * c \in Nat
  OBVIOUS
<1>4. Spot(c, r, j) = v + 1
  BY <1>3 DEF Spot
<1> HIDE DEF v
<1>5. (v + 1) - 1 = v /\ v + 1 \in 1 .. n * c
  BY <1>2, <1>3
<1>6. Train!Row(v + 1, c) = (v \div c) + 1 /\ Train!Column(v + 1, c) = (v % c) + 1
  BY <1>5 DEF Train!Row, Train!Column
<1> QED BY <1>2, <1>4, <1>5, <1>6

LEMMA SpotOf ==
  ASSUME NEW n \in Nat, NEW c \in Nat, NEW k \in 1 .. n * c
  PROVE  /\ Train!Row(k, c) \in 1 .. n /\ Train!Column(k, c) \in 1 .. c
         /\ Spot(c, Train!Row(k, c), Train!Column(k, c)) = k
<1> DEFINE v == k - 1
<1>1. n * c \in Nat
  OBVIOUS
<1>2. v \in 0 .. (n * c) - 1 /\ k = v + 1
  BY <1>1
<1> HIDE DEF v
<1>3. /\ v \div c \in 0 .. n - 1 /\ v % c \in 0 .. c - 1
      /\ v = (v \div c) * c + (v % c)
  BY <1>2, Unpack
<1>4. Train!Row(k, c) = (v \div c) + 1 /\ Train!Column(k, c) = (v % c) + 1
  BY DEF Train!Row, Train!Column, v
<1>5. ((v \div c) + 1) - 1 = v \div c /\ (v \div c) * c \in Int
  BY <1>3
<1>6. Spot(c, (v \div c) + 1, (v % c) + 1) = v + 1
  BY <1>3, <1>5 DEF Spot
<1> QED BY <1>2, <1>3, <1>4, <1>6

\* Rows and columns of a tensor of n rows of c elements are all there, once.
Laid(n, c) ==
  /\ \A k \in 1 .. n * c : /\ Train!Row(k, c) \in 1 .. n /\ Train!Column(k, c) \in 1 .. c
                           /\ Spot(c, Train!Row(k, c), Train!Column(k, c)) = k
  /\ \A r \in 1 .. n, j \in 1 .. c :
       /\ Spot(c, r, j) \in 1 .. n * c
       /\ Train!Row(Spot(c, r, j), c) = r /\ Train!Column(Spot(c, r, j), c) = j

LEMMA LaidOut == ASSUME NEW n \in Nat, NEW c \in Nat PROVE Laid(n, c)
<1>1. ASSUME NEW k \in 1 .. n * c
      PROVE  /\ Train!Row(k, c) \in 1 .. n /\ Train!Column(k, c) \in 1 .. c
             /\ Spot(c, Train!Row(k, c), Train!Column(k, c)) = k
  BY SpotOf
<1>2. ASSUME NEW r \in 1 .. n, NEW j \in 1 .. c
      PROVE  /\ Spot(c, r, j) \in 1 .. n * c
             /\ Train!Row(Spot(c, r, j), c) = r /\ Train!Column(Spot(c, r, j), c) = j
  BY SpotAt
<1> QED BY <1>1, <1>2 DEF Laid

\* Row r of w comes from row r of u.
MixedRows(n, c, d, W, dw, w, du, u) ==
  /\ W \in [(1 .. c) \X (1 .. d) -> Int]
  /\ dw \in [1 .. n * c -> Int] /\ u \in [1 .. n * d -> Int]
  /\ \A k \in 1 .. n * c :
       w[k] = Part([i \in 1 .. d |-> u[Spot(d, Train!Row(k, c), i)] * W[<<Train!Column(k, c), i>>]], 1 .. d)
  /\ \A e \in 1 .. n * d :
       du[e] = Part([k \in 1 .. n * c |-> dw[k] * W[<<Train!Column(k, c), Train!Column(e, d)>>]],
                    {Spot(c, Train!Row(e, d), j) : j \in 1 .. c})

LEMMA MixRows ==
  ASSUME NEW n \in Nat, NEW c \in Nat, NEW d \in Nat, NEW W, NEW dw, NEW w, NEW du, NEW u,
         MixedRows(n, c, d, W, dw, w, du, u)
  PROVE  Dual(1 .. n * c, dw, w, 1 .. n * d, du, u)
<1> DEFINE K == 1 .. n * c
           E == 1 .. n * d
           M == [x \in K \X E |-> IF Train!Row(x[1], c) = Train!Row(x[2], d)
                                  THEN W[<<Train!Column(x[1], c), Train!Column(x[2], d)>>] ELSE 0]
<1>1. n * c \in Nat /\ n * d \in Nat /\ IsFiniteSet(K) /\ IsFiniteSet(E) /\ IsFiniteSet(1 .. d)
  <2>1. n * c \in Nat /\ n * d \in Nat
    OBVIOUS
  <2> QED BY <2>1, FS_Interval
<1>2. /\ \A k \in K : Train!Row(k, c) \in 1 .. n /\ Train!Column(k, c) \in 1 .. c
                      /\ Spot(c, Train!Row(k, c), Train!Column(k, c)) = k
      /\ \A e \in E : Train!Row(e, d) \in 1 .. n /\ Train!Column(e, d) \in 1 .. d
                      /\ Spot(d, Train!Row(e, d), Train!Column(e, d)) = e
  BY LaidOut DEF Laid
<1>10. ASSUME NEW r \in 1 .. n, NEW i \in 1 .. d
       PROVE  Spot(d, r, i) \in E /\ Train!Row(Spot(d, r, i), d) = r /\ Train!Column(Spot(d, r, i), d) = i
  BY LaidOut DEF Laid
<1>11. ASSUME NEW r \in 1 .. n, NEW j \in 1 .. c
       PROVE  Spot(c, r, j) \in K /\ Train!Row(Spot(c, r, j), c) = r /\ Train!Column(Spot(c, r, j), c) = j
  BY LaidOut DEF Laid
<1>9. dw \in [K -> Int] /\ u \in [E -> Int] /\ W \in [(1 .. c) \X (1 .. d) -> Int]
  BY DEF MixedRows
<1>12. /\ \A k \in K : w[k] = Part([i \in 1 .. d |-> u[Spot(d, Train!Row(k, c), i)] * W[<<Train!Column(k, c), i>>]], 1 .. d)
       /\ \A e \in E : du[e] = Part([k \in K |-> dw[k] * W[<<Train!Column(k, c), Train!Column(e, d)>>]],
                                       {Spot(c, Train!Row(e, d), j) : j \in 1 .. c})
  BY DEF MixedRows
<1> HIDE DEF K, E
<1>3. \A k \in K, e \in E : M[<<k, e>>] = IF Train!Row(k, c) = Train!Row(e, d)
                                          THEN W[<<Train!Column(k, c), Train!Column(e, d)>>] ELSE 0
  OBVIOUS
<1>4. \A k \in K, e \in E : W[<<Train!Column(k, c), Train!Column(e, d)>>] \in Int
  BY <1>2, <1>9
<1>5. M \in [K \X E -> Int]
  <2>1. ASSUME NEW k \in K, NEW e \in E PROVE M[<<k, e>>] \in Int
    <3> DEFINE v == W[<<Train!Column(k, c), Train!Column(e, d)>>]
    <3>1. v \in Int
      BY <1>4
    <3>2. M[<<k, e>>] = IF Train!Row(k, c) = Train!Row(e, d) THEN v ELSE 0
      BY <1>3
    <3> HIDE DEF v, M
    <3> QED BY <3>1, <3>2
  <2> QED BY <2>1
<1> HIDE DEF M
<1>6. \A a \in Int : 0 * a = 0 /\ a * 0 = 0
  OBVIOUS
<1>7. ASSUME NEW k \in K PROVE w[k] = Part([e \in E |-> M[<<k, e>>] * u[e]], E)
  <2> DEFINE r == Train!Row(k, c)
             f == [e \in E |-> M[<<k, e>>] * u[e]]
             S == {e \in E : Train!Row(e, d) = r}
             h == [i \in 1 .. d |-> Spot(d, r, i)]
             g == [i \in 1 .. d |-> u[Spot(d, r, i)] * W[<<Train!Column(k, c), i>>]]
  <2>1. \A e \in E : f[e] \in Int
    <3> SUFFICES ASSUME NEW e \in E PROVE M[<<k, e>>] * u[e] \in Int
      OBVIOUS
    <3>1. M[<<k, e>>] \in Int /\ u[e] \in Int
      BY <1>5, <1>9
    <3> QED BY <3>1, ProductLaws
  <2>2. \A e \in E \ S : f[e] = 0
    BY <1>3, <1>6, <1>9
  <2>3. r \in 1 .. n /\ Train!Column(k, c) \in 1 .. c
    BY <1>2
  <2>4. \A i \in 1 .. d : /\ Spot(d, r, i) \in E /\ Train!Row(Spot(d, r, i), d) = r
                          /\ Train!Column(Spot(d, r, i), d) = i
    BY <1>10, <2>3
  <2>5. h \in [1 .. d -> S]
    BY <2>4
  <2>6. ASSUME NEW i \in 1 .. d PROVE g[i] = f[h[i]]
    <3> DEFINE e == Spot(d, r, i)
    <3>1. e \in E /\ M[<<k, e>>] = W[<<Train!Column(k, c), i>>]
      BY <1>3, <2>4
    <3>2. u[e] \in Int /\ W[<<Train!Column(k, c), i>>] \in Int
      BY <1>9, <2>3, <3>1
    <3>3. u[e] * W[<<Train!Column(k, c), i>>] = M[<<k, e>>] * u[e]
      BY <3>1, <3>2, ProductLaws
    <3>4. f[e] = M[<<k, e>>] * u[e] /\ h[i] = e /\ g[i] = u[e] * W[<<Train!Column(k, c), i>>]
      BY <3>1
    <3> QED BY <3>3, <3>4
  <2>7. \A i, j \in 1 .. d : i # j => h[i] # h[j]
    <3>1. \A i \in 1 .. d : h[i] = Spot(d, r, i)
      OBVIOUS
    <3> HIDE DEF h
    <3> QED BY <2>4, <3>1
  <2>8. \A e \in S : \E i \in 1 .. d : h[i] = e
    BY <1>2
  <2>9. S \in SUBSET E /\ IsFiniteSet(S) /\ w[k] = Part(g, 1 .. d)
    <3>1. S \in SUBSET E
      OBVIOUS
    <3>2. w[k] = Part(g, 1 .. d)
      BY <1>12
    <3> QED BY <1>1, <3>1, <3>2, FS_Subset
  <2>10. \A e \in S : f[e] \in Int
    BY <2>1
  <2> HIDE DEF f, S, h, g, r
  <2>11. Part(g, 1 .. d) = Part(f, S)
    BY <1>1, <2>5, <2>6, <2>7, <2>8, <2>9, <2>10, PartMoved
  <2>12. Part(f, E) = Part(f, S)
    BY <1>1, <2>1, <2>2, <2>9, PartSupport
  <2> QED BY <2>9, <2>11, <2>12 DEF f
<1>8. ASSUME NEW e \in E PROVE du[e] = Part([k \in K |-> dw[k] * M[<<k, e>>]], K)
  <2> DEFINE f == [k \in K |-> dw[k] * M[<<k, e>>]]
             g == [k \in K |-> dw[k] * W[<<Train!Column(k, c), Train!Column(e, d)>>]]
             r == Train!Row(e, d)
             T == {Spot(c, r, j) : j \in 1 .. c}
  <2>1. r \in 1 .. n
    BY <1>2
  <2>2. \A j \in 1 .. c : Spot(c, r, j) \in K /\ Train!Row(Spot(c, r, j), c) = r
    BY <1>11, <2>1
  <2>3. T \in SUBSET K /\ \A k \in T : Train!Row(k, c) = r
    BY <2>2
  <2>4. \A k \in K \ T : Train!Row(k, c) # r
    BY <1>2
  <2>5. \A k \in T : f[k] = g[k]
    BY <1>3, <2>3
  <2>6. ASSUME NEW k \in K \ T PROVE f[k] = 0
    <3>1. M[<<k, e>>] = 0
      BY <1>3, <1>6, <1>9, <2>4
    <3>2. f[k] = dw[k] * M[<<k, e>>] /\ dw[k] \in Int
      BY <1>9
    <3> HIDE DEF f
    <3> QED BY <1>6, <3>1, <3>2
  <2>7. \A k \in K : f[k] \in Int
    <3> SUFFICES ASSUME NEW k \in K PROVE dw[k] * M[<<k, e>>] \in Int
      OBVIOUS
    <3>1. dw[k] \in Int /\ M[<<k, e>>] \in Int
      BY <1>5, <1>9
    <3> QED BY <3>1, ProductLaws
  <2>8. du[e] = Part(g, T)
    BY <1>12
  <2> HIDE DEF f, g, T
  <2>9. Part(f, K) = Part(f, T)
    BY <1>1, <2>3, <2>6, <2>7, PartSupport
  <2>10. Part(f, T) = Part(g, T)
    BY <2>5, PartSame
  <2> QED BY <2>8, <2>9, <2>10 DEF f
<1> QED
  <2>1. Dual(K, dw, w, E, du, u)
    BY <1>1, <1>5, <1>7, <1>8, <1>9, Adjoint
  <2> QED BY <2>1 DEF K, E

\* Column m of w comes from row m of u.
MixedColumns(n, c, d, X, dw, w, du, u) ==
  /\ X \in [(1 .. n) \X (1 .. d) -> Int]
  /\ dw \in [1 .. n * c -> Int] /\ u \in [1 .. c * d -> Int]
  /\ \A k \in 1 .. n * c :
       w[k] = Part([i \in 1 .. d |-> X[<<Train!Row(k, c), i>>] * u[Spot(d, Train!Column(k, c), i)]], 1 .. d)
  /\ \A e \in 1 .. c * d :
       du[e] = Part([k \in 1 .. n * c |-> dw[k] * X[<<Train!Row(k, c), Train!Column(e, d)>>]],
                    {Spot(c, m, Train!Row(e, d)) : m \in 1 .. n})

LEMMA MixColumns ==
  ASSUME NEW n \in Nat, NEW c \in Nat, NEW d \in Nat, NEW X, NEW dw, NEW w, NEW du, NEW u,
         MixedColumns(n, c, d, X, dw, w, du, u)
  PROVE  Dual(1 .. n * c, dw, w, 1 .. c * d, du, u)
<1> DEFINE K == 1 .. n * c
           E == 1 .. c * d
           M == [x \in K \X E |-> IF Train!Column(x[1], c) = Train!Row(x[2], d)
                                  THEN X[<<Train!Row(x[1], c), Train!Column(x[2], d)>>] ELSE 0]
<1>1. n * c \in Nat /\ c * d \in Nat /\ IsFiniteSet(K) /\ IsFiniteSet(E) /\ IsFiniteSet(1 .. d)
  <2>1. n * c \in Nat /\ c * d \in Nat
    OBVIOUS
  <2> QED BY <2>1, FS_Interval
<1>2. /\ \A k \in K : Train!Row(k, c) \in 1 .. n /\ Train!Column(k, c) \in 1 .. c
                      /\ Spot(c, Train!Row(k, c), Train!Column(k, c)) = k
      /\ \A e \in E : Train!Row(e, d) \in 1 .. c /\ Train!Column(e, d) \in 1 .. d
                      /\ Spot(d, Train!Row(e, d), Train!Column(e, d)) = e
  BY LaidOut DEF Laid
<1>10. ASSUME NEW r \in 1 .. c, NEW i \in 1 .. d
       PROVE  Spot(d, r, i) \in E /\ Train!Row(Spot(d, r, i), d) = r /\ Train!Column(Spot(d, r, i), d) = i
  BY LaidOut DEF Laid
<1>11. ASSUME NEW r \in 1 .. n, NEW j \in 1 .. c
       PROVE  Spot(c, r, j) \in K /\ Train!Row(Spot(c, r, j), c) = r /\ Train!Column(Spot(c, r, j), c) = j
  BY LaidOut DEF Laid
<1>9. dw \in [K -> Int] /\ u \in [E -> Int] /\ X \in [(1 .. n) \X (1 .. d) -> Int]
  BY DEF MixedColumns
<1>12. /\ \A k \in K : w[k] = Part([i \in 1 .. d |-> X[<<Train!Row(k, c), i>>] * u[Spot(d, Train!Column(k, c), i)]], 1 .. d)
       /\ \A e \in E : du[e] = Part([k \in K |-> dw[k] * X[<<Train!Row(k, c), Train!Column(e, d)>>]],
                                       {Spot(c, m, Train!Row(e, d)) : m \in 1 .. n})
  BY DEF MixedColumns
<1> HIDE DEF K, E
<1>3. \A k \in K, e \in E : M[<<k, e>>] = IF Train!Column(k, c) = Train!Row(e, d)
                                          THEN X[<<Train!Row(k, c), Train!Column(e, d)>>] ELSE 0
  OBVIOUS
<1>4. \A k \in K, e \in E : X[<<Train!Row(k, c), Train!Column(e, d)>>] \in Int
  BY <1>2, <1>9
<1>5. M \in [K \X E -> Int]
  <2>1. ASSUME NEW k \in K, NEW e \in E PROVE M[<<k, e>>] \in Int
    <3> DEFINE v == X[<<Train!Row(k, c), Train!Column(e, d)>>]
    <3>1. v \in Int
      BY <1>4
    <3>2. M[<<k, e>>] = IF Train!Column(k, c) = Train!Row(e, d) THEN v ELSE 0
      BY <1>3
    <3> HIDE DEF v, M
    <3> QED BY <3>1, <3>2
  <2> QED BY <2>1
<1> HIDE DEF M
<1>6. \A a \in Int : 0 * a = 0 /\ a * 0 = 0
  OBVIOUS
<1>7. ASSUME NEW k \in K PROVE w[k] = Part([e \in E |-> M[<<k, e>>] * u[e]], E)
  <2> DEFINE r == Train!Column(k, c)
             f == [e \in E |-> M[<<k, e>>] * u[e]]
             S == {e \in E : Train!Row(e, d) = r}
             h == [i \in 1 .. d |-> Spot(d, r, i)]
             g == [i \in 1 .. d |-> X[<<Train!Row(k, c), i>>] * u[Spot(d, r, i)]]
  <2>1. \A e \in E : f[e] \in Int
    <3> SUFFICES ASSUME NEW e \in E PROVE M[<<k, e>>] * u[e] \in Int
      OBVIOUS
    <3>1. M[<<k, e>>] \in Int /\ u[e] \in Int
      BY <1>5, <1>9
    <3> QED BY <3>1, ProductLaws
  <2>2. \A e \in E \ S : f[e] = 0
    BY <1>3, <1>6, <1>9
  <2>3. r \in 1 .. c
    BY <1>2
  <2>4. \A i \in 1 .. d : /\ Spot(d, r, i) \in E /\ Train!Row(Spot(d, r, i), d) = r
                          /\ Train!Column(Spot(d, r, i), d) = i
    BY <1>10, <2>3
  <2>5. h \in [1 .. d -> S]
    BY <2>4
  <2>6. ASSUME NEW i \in 1 .. d PROVE g[i] = f[h[i]]
    <3> DEFINE e == Spot(d, r, i)
    <3>1. e \in E /\ M[<<k, e>>] = X[<<Train!Row(k, c), i>>]
      BY <1>3, <2>4
    <3>2. f[e] = M[<<k, e>>] * u[e] /\ h[i] = e /\ g[i] = X[<<Train!Row(k, c), i>>] * u[e]
      BY <3>1
    <3> QED BY <3>1, <3>2
  <2>7. \A i, j \in 1 .. d : i # j => h[i] # h[j]
    <3>1. \A i \in 1 .. d : h[i] = Spot(d, r, i)
      OBVIOUS
    <3> HIDE DEF h
    <3> QED BY <2>4, <3>1
  <2>8. \A e \in S : \E i \in 1 .. d : h[i] = e
    BY <1>2
  <2>9. S \in SUBSET E /\ IsFiniteSet(S) /\ w[k] = Part(g, 1 .. d)
    <3>1. S \in SUBSET E
      OBVIOUS
    <3>2. w[k] = Part(g, 1 .. d)
      BY <1>12
    <3> QED BY <1>1, <3>1, <3>2, FS_Subset
  <2>10. \A e \in S : f[e] \in Int
    BY <2>1
  <2> HIDE DEF f, S, h, g, r
  <2>11. Part(g, 1 .. d) = Part(f, S)
    BY <1>1, <2>5, <2>6, <2>7, <2>8, <2>9, <2>10, PartMoved
  <2>12. Part(f, E) = Part(f, S)
    BY <1>1, <2>1, <2>2, <2>9, PartSupport
  <2> QED BY <2>9, <2>11, <2>12 DEF f
<1>8. ASSUME NEW e \in E PROVE du[e] = Part([k \in K |-> dw[k] * M[<<k, e>>]], K)
  <2> DEFINE f == [k \in K |-> dw[k] * M[<<k, e>>]]
             g == [k \in K |-> dw[k] * X[<<Train!Row(k, c), Train!Column(e, d)>>]]
             r == Train!Row(e, d)
             T == {Spot(c, m, r) : m \in 1 .. n}
  <2>1. r \in 1 .. c
    BY <1>2
  <2>2. \A m \in 1 .. n : Spot(c, m, r) \in K /\ Train!Column(Spot(c, m, r), c) = r
    BY <1>11, <2>1
  <2>3. T \in SUBSET K /\ \A k \in T : Train!Column(k, c) = r
    BY <2>2
  <2>4. \A k \in K \ T : Train!Column(k, c) # r
    BY <1>2
  <2>5. \A k \in T : f[k] = g[k]
    BY <1>3, <2>3
  <2>6. ASSUME NEW k \in K \ T PROVE f[k] = 0
    <3>1. M[<<k, e>>] = 0
      BY <1>3, <1>6, <1>9, <2>4
    <3>2. f[k] = dw[k] * M[<<k, e>>] /\ dw[k] \in Int
      BY <1>9
    <3> HIDE DEF f
    <3> QED BY <1>6, <3>1, <3>2
  <2>7. \A k \in K : f[k] \in Int
    <3> SUFFICES ASSUME NEW k \in K PROVE dw[k] * M[<<k, e>>] \in Int
      OBVIOUS
    <3>1. dw[k] \in Int /\ M[<<k, e>>] \in Int
      BY <1>5, <1>9
    <3> QED BY <3>1, ProductLaws
  <2>8. du[e] = Part(g, T)
    BY <1>12
  <2> HIDE DEF f, g, T
  <2>9. Part(f, K) = Part(f, T)
    BY <1>1, <2>3, <2>6, <2>7, PartSupport
  <2>10. Part(f, T) = Part(g, T)
    BY <2>5, PartSame
  <2> QED BY <2>8, <2>9, <2>10 DEF f
<1> QED
  <2>1. Dual(K, dw, w, E, du, u)
    BY <1>1, <1>5, <1>7, <1>8, <1>9, Adjoint
  <2> QED BY <2>1 DEF K, E

-----------------------------------------------------------------------------
(* The operations of the tape.                                             *)

\* How the shape of t follows from those of its operands.
Follows(t, a, b) ==
  \/ /\ t.op \in {"add", "mul"}
     /\ Train!Matches(a.rows, b.rows) /\ Train!Matches(a.columns, b.columns)
     /\ t.rows = Train!Larger(a.rows, b.rows) /\ t.columns = Train!Larger(a.columns, b.columns)
  \/ t.op = "scale" /\ t.rows = a.rows /\ t.columns = a.columns /\ t.of \in Int
  \/ t.op = "reshape" /\ Train!Count(t) = Train!Count(a)
  \/ t.op = "slice" /\ t.rows = a.rows /\ t.of \in Nat /\ t.of + t.columns <= a.columns
  \/ t.op = "embed" /\ t.columns = a.columns /\ t.of \in [1 .. t.rows -> 1 .. a.rows]
  \/ t.op = "linear" /\ a.columns = b.columns /\ t.rows = a.rows /\ t.columns = b.rows
  \/ /\ t.op = "mapped" /\ t.of \in DOMAIN Frozen /\ Frozen[t.of].columns = a.columns
     /\ t.rows = a.rows /\ t.columns = Frozen[t.of].rows

\* The elements of a tensor are in its rows and columns, once each.
LEMMA TensorLaid ==
  ASSUME NEW t, Filled(t)
  PROVE  /\ Train!Count(t) \in Nat \ {0} /\ IsFiniteSet(1 .. Train!Count(t))
         /\ t.data \in [1 .. Train!Count(t) -> Int]
         /\ \A k \in 1 .. Train!Count(t) :
              /\ Train!Row(k, t.columns) \in 1 .. t.rows /\ Train!Column(k, t.columns) \in 1 .. t.columns
              /\ Train!Element(t, Train!Row(k, t.columns), Train!Column(k, t.columns)) = k
         /\ \A r \in 1 .. t.rows, j \in 1 .. t.columns :
              /\ Train!Element(t, r, j) \in 1 .. Train!Count(t)
              /\ Train!Row(Train!Element(t, r, j), t.columns) = r
              /\ Train!Column(Train!Element(t, r, j), t.columns) = j
<1> DEFINE n == t.rows
           c == t.columns
<1>1. n \in Nat \ {0} /\ c \in Nat \ {0} /\ t.data \in [1 .. n * c -> Int]
  BY DEF Filled
<1>2. Train!Count(t) = n * c /\ \A r, j : Train!Element(t, r, j) = Spot(c, r, j)
  BY DEF Train!Count, Train!Element, Spot
<1> HIDE DEF n, c
<1>3. n * c \in Nat \ {0}
  BY <1>1
<1>4. IsFiniteSet(1 .. n * c)
  BY <1>3, FS_Interval
<1>5. Laid(n, c)
  BY <1>1, LaidOut
<1>6. \A k \in 1 .. n * c : /\ Train!Row(k, c) \in 1 .. n /\ Train!Column(k, c) \in 1 .. c
                            /\ Train!Element(t, Train!Row(k, c), Train!Column(k, c)) = k
  BY <1>2, <1>5 DEF Laid
<1>7. \A r \in 1 .. n, j \in 1 .. c :
        /\ Train!Element(t, r, j) \in 1 .. n * c
        /\ Train!Row(Train!Element(t, r, j), c) = r /\ Train!Column(Train!Element(t, r, j), c) = j
  BY <1>2, <1>5 DEF Laid
<1> QED BY <1>1, <1>2, <1>3, <1>4, <1>6, <1>7 DEF n, c

\* o has one row or as many as t, and likewise columns.
Spread(t, o) == o.rows \in {1, t.rows} /\ o.columns \in {1, t.columns}

LEMMA BothSpread ==
  ASSUME NEW t, NEW a, NEW b, Filled(a), Filled(b), Follows(t, a, b), t.op \in {"add", "mul"}
  PROVE  Spread(t, a) /\ Spread(t, b)
<1>1. /\ Train!Matches(a.rows, b.rows) /\ Train!Matches(a.columns, b.columns)
      /\ t.rows = Train!Larger(a.rows, b.rows) /\ t.columns = Train!Larger(a.columns, b.columns)
  BY DEF Follows
<1>2. a.rows \in Nat \ {0} /\ b.rows \in Nat \ {0} /\ a.columns \in Nat \ {0} /\ b.columns \in Nat \ {0}
  BY DEF Filled
<1>3. \A m, n \in Nat \ {0} : Train!Matches(m, n) => /\ m \in {1, Train!Larger(m, n)}
                                                     /\ n \in {1, Train!Larger(m, n)}
  BY DEF Train!Matches, Train!Larger
<1> QED BY <1>1, <1>2, <1>3 DEF Spread

LEMMA BroadcastInside ==
  ASSUME NEW t, NEW o, Filled(t), Filled(o), Spread(t, o), NEW k \in 1 .. Train!Count(t)
  PROVE  Train!Broadcast(o, k, t.columns) \in 1 .. Train!Count(o)
<1> DEFINE r == IF o.rows = 1 THEN 1 ELSE Train!Row(k, t.columns)
           j == IF o.columns = 1 THEN 1 ELSE Train!Column(k, t.columns)
<1>1. Train!Row(k, t.columns) \in 1 .. t.rows /\ Train!Column(k, t.columns) \in 1 .. t.columns
  BY TensorLaid
<1>2. r \in 1 .. o.rows /\ j \in 1 .. o.columns
  BY <1>1 DEF Spread
<1>3. Train!Broadcast(o, k, t.columns) = Train!Element(o, r, j)
  BY DEF Train!Broadcast
<1> HIDE DEF r, j
<1> QED BY <1>2, <1>3, TensorLaid

\* What an operand gets.
Back(t, side, o, dy) == [e \in 1 .. Train!Count(o) |-> Train!Adds(t, side, e, dy)]

\* The other operand.
Other(side) == IF side = "a" THEN "b" ELSE "a"

LEMMA OneTimes == \A a \in Int : a * 1 = a /\ 1 * a = a /\ 0 * a = 0 /\ a * 0 = 0
  OBVIOUS

\* A sum, a sum of the elements that were spread.
LEMMA AddFlows ==
  ASSUME NEW t, NEW side, NEW o, Filled(t), Filled(o), Spread(t, o), o = nodes[t[side]], t.op = "add",
         NEW dy \in [1 .. Train!Count(t) -> Int], NEW u \in [1 .. Train!Count(o) -> Int]
  PROVE  Dual(1 .. Train!Count(t), dy, [k \in 1 .. Train!Count(t) |-> u[Train!Broadcast(o, k, t.columns)]],
              1 .. Train!Count(o), Back(t, side, o, dy), u)
<1> DEFINE K == 1 .. Train!Count(t)
           E == 1 .. Train!Count(o)
           to == [k \in K |-> Train!Broadcast(o, k, t.columns)]
           by == [k \in K |-> 1]
           w == [k \in K |-> u[Train!Broadcast(o, k, t.columns)]]
           du == Back(t, side, o, dy)
           f == [k \in K |-> dy[k] * by[k]]
<1>1. IsFiniteSet(K) /\ IsFiniteSet(E)
  BY TensorLaid
<1>2. to \in [K -> E] /\ by \in [K -> Int]
  BY BroadcastInside
<1>3. ASSUME NEW e \in E PROVE du[e] = Part(f, {k \in K : to[k] = e})
  <2>1. du[e] = Train!Adds(t, side, e, dy)
    BY DEF Back
  <2>2. Train!Adds(t, side, e, dy) = Train!Sum([k \in {k \in K : Train!Broadcast(o, k, t.columns) = e} |-> dy[k] * 1])
    BY DEF Train!Adds
  <2>3. {k \in K : Train!Broadcast(o, k, t.columns) = e} = {k \in K : to[k] = e}
    OBVIOUS
  <2>4. [k \in {k \in K : to[k] = e} |-> dy[k] * 1] = [k \in {k \in K : to[k] = e} |-> f[k]]
    OBVIOUS
  <2> QED BY <2>1, <2>2, <2>3, <2>4 DEF Part
<1>4. ASSUME NEW k \in K PROVE w[k] = by[k] * u[to[k]]
  <2>1. u[to[k]] \in Int /\ by[k] = 1 /\ w[k] = u[to[k]]
    BY <1>2
  <2> QED BY <2>1, OneTimes
<1>5. dy \in [K -> Int] /\ u \in [E -> Int]
  OBVIOUS
<1> HIDE DEF to, by, w, du, K, E
<1>6. Dual(K, dy, w, E, du, u)
  <2>1. Scattered(K, E, to, by, dy, u, w, du)
    BY <1>1, <1>2, <1>3, <1>4, <1>5 DEF f, Scattered
  <2> QED BY <2>1, Scatter
<1> QED BY <1>6 DEF K, E, w, du

\* A product: the other factor is the derivative.
LEMMA MulFlows ==
  ASSUME NEW t, NEW side, NEW o, NEW y, Filled(t), Filled(o), Filled(y), Spread(t, o), Spread(t, y),
         o = nodes[t[side]], y = nodes[t[Other(side)]], t.op = "mul",
         NEW dy \in [1 .. Train!Count(t) -> Int], NEW u \in [1 .. Train!Count(o) -> Int]
  PROVE  Dual(1 .. Train!Count(t), dy,
              [k \in 1 .. Train!Count(t) |->
                 y.data[Train!Broadcast(y, k, t.columns)] * u[Train!Broadcast(o, k, t.columns)]],
              1 .. Train!Count(o), Back(t, side, o, dy), u)
<1> DEFINE K == 1 .. Train!Count(t)
           E == 1 .. Train!Count(o)
           to == [k \in K |-> Train!Broadcast(o, k, t.columns)]
           by == [k \in K |-> y.data[Train!Broadcast(y, k, t.columns)]]
           w == [k \in K |-> y.data[Train!Broadcast(y, k, t.columns)] * u[Train!Broadcast(o, k, t.columns)]]
           du == Back(t, side, o, dy)
           f == [k \in K |-> dy[k] * by[k]]
<1>1. IsFiniteSet(K) /\ IsFiniteSet(E)
  BY TensorLaid
<1>2. to \in [K -> E]
  BY BroadcastInside
<1>3. by \in [K -> Int]
  <2>1. \A k \in K : Train!Broadcast(y, k, t.columns) \in 1 .. Train!Count(y)
    BY BroadcastInside
  <2>2. y.data \in [1 .. Train!Count(y) -> Int]
    BY TensorLaid
  <2> QED BY <2>1, <2>2
<1>4. ASSUME NEW e \in E PROVE du[e] = Part(f, {k \in K : to[k] = e})
  <2>1. du[e] = Train!Adds(t, side, e, dy)
    BY DEF Back
  <2>2. Train!Adds(t, side, e, dy) =
          Train!Sum([k \in {k \in K : Train!Broadcast(o, k, t.columns) = e} |->
                       dy[k] * y.data[Train!Broadcast(y, k, t.columns)]])
    BY DEF Train!Adds, Other
  <2>3. {k \in K : Train!Broadcast(o, k, t.columns) = e} = {k \in K : to[k] = e}
    OBVIOUS
  <2>4. [k \in {k \in K : to[k] = e} |-> dy[k] * y.data[Train!Broadcast(y, k, t.columns)]]
          = [k \in {k \in K : to[k] = e} |-> f[k]]
    OBVIOUS
  <2> QED BY <2>1, <2>2, <2>3, <2>4 DEF Part
<1>5. \A k \in K : w[k] = by[k] * u[to[k]]
  OBVIOUS
<1>6. dy \in [K -> Int] /\ u \in [E -> Int]
  OBVIOUS
<1> HIDE DEF to, by, w, du, K, E
<1>7. Dual(K, dy, w, E, du, u)
  <2>1. Scattered(K, E, to, by, dy, u, w, du)
    BY <1>1, <1>2, <1>3, <1>4, <1>5, <1>6 DEF f, Scattered
  <2> QED BY <2>1, Scatter
<1> QED BY <1>7 DEF K, E, w, du

\* Each element becomes one element.
LEMMA ScaleFlows ==
  ASSUME NEW t, NEW o, Filled(t), Filled(o), Train!Count(t) = Train!Count(o), NEW c \in Int, o = nodes[t.a],
         \/ t.op = "scale" /\ t.of = c
         \/ t.op = "reshape" /\ c = 1,
         NEW dy \in [1 .. Train!Count(t) -> Int], NEW u \in [1 .. Train!Count(o) -> Int]
  PROVE  Dual(1 .. Train!Count(t), dy, [k \in 1 .. Train!Count(t) |-> c * u[k]],
              1 .. Train!Count(o), Back(t, "a", o, dy), u)
<1> DEFINE K == 1 .. Train!Count(t)
           E == 1 .. Train!Count(o)
           to == [k \in K |-> k]
           by == [k \in K |-> c]
           w == [k \in K |-> c * u[k]]
           du == Back(t, "a", o, dy)
           f == [k \in K |-> dy[k] * by[k]]
<1>1. IsFiniteSet(K) /\ IsFiniteSet(E)
  BY TensorLaid
<1>7. K = E
  OBVIOUS
<1>2. to \in [K -> E] /\ by \in [K -> Int]
  BY <1>7
<1>3. ASSUME NEW e \in E PROVE du[e] = Part(f, {k \in K : to[k] = e})
  <2>1. du[e] = Train!Adds(t, "a", e, dy)
    BY DEF Back
  <2>2. e \in K /\ dy[e] \in Int
    BY <1>7
  <2>3. Train!Adds(t, "a", e, dy) = dy[e] * c
    <3>1. CASE t.op = "scale" /\ t.of = c
      BY <3>1 DEF Train!Adds
    <3>2. CASE t.op = "reshape" /\ c = 1
      <4>1. Train!Adds(t, "a", e, dy) = dy[e]
        BY <3>2 DEF Train!Adds
      <4> QED BY <2>2, <3>2, <4>1, OneTimes
    <3> QED BY <3>1, <3>2
  <2>4. {k \in K : to[k] = e} = {e} /\ f[e] = dy[e] * c
    BY <2>2
  <2>5. f[e] \in Int
    BY <2>2, <2>4, ProductLaws
  <2> HIDE DEF f
  <2>6. Part(f, {e}) = f[e]
    BY <2>5, FS_Singleton, PartSingle
  <2> QED BY <2>1, <2>3, <2>4, <2>6
<1>4. \A k \in K : w[k] = by[k] * u[to[k]]
  OBVIOUS
<1>5. dy \in [K -> Int] /\ u \in [E -> Int]
  OBVIOUS
<1> HIDE DEF to, by, w, du, K, E
<1>6. Dual(K, dy, w, E, du, u)
  <2>1. Scattered(K, E, to, by, dy, u, w, du)
    BY <1>1, <1>2, <1>3, <1>4, <1>5 DEF f, Scattered
  <2> QED BY <2>1, Scatter
<1> QED BY <1>6 DEF K, E, w, du

\* Some of the columns.
LEMMA SliceFlows ==
  ASSUME NEW t, NEW o, Filled(t), Filled(o), o = nodes[t.a], t.op = "slice",
         t.rows = o.rows, t.of \in Nat, t.of + t.columns <= o.columns,
         NEW dy \in [1 .. Train!Count(t) -> Int], NEW u \in [1 .. Train!Count(o) -> Int]
  PROVE  Dual(1 .. Train!Count(t), dy,
              [k \in 1 .. Train!Count(t) |->
                 u[Train!Element(o, Train!Row(k, t.columns), t.of + Train!Column(k, t.columns))]],
              1 .. Train!Count(o), Back(t, "a", o, dy), u)
<1> DEFINE K == 1 .. Train!Count(t)
           E == 1 .. Train!Count(o)
           to == [k \in K |-> Train!Element(o, Train!Row(k, t.columns), t.of + Train!Column(k, t.columns))]
           by == [k \in K |-> 1]
           w == [k \in K |-> u[Train!Element(o, Train!Row(k, t.columns), t.of + Train!Column(k, t.columns))]]
           du == Back(t, "a", o, dy)
           f == [k \in K |-> dy[k] * by[k]]
<1>1. IsFiniteSet(K) /\ IsFiniteSet(E)
  BY TensorLaid
<1>2. t.columns \in Nat \ {0} /\ o.columns \in Nat \ {0}
  BY DEF Filled
<1>3. ASSUME NEW k \in K
      PROVE  /\ Train!Row(k, t.columns) \in 1 .. t.rows /\ Train!Column(k, t.columns) \in 1 .. t.columns
             /\ Train!Element(t, Train!Row(k, t.columns), Train!Column(k, t.columns)) = k
             /\ t.of + Train!Column(k, t.columns) \in 1 .. o.columns
             /\ to[k] \in E /\ Train!Row(to[k], o.columns) = Train!Row(k, t.columns)
             /\ Train!Column(to[k], o.columns) = t.of + Train!Column(k, t.columns)
  <2>1. /\ Train!Row(k, t.columns) \in 1 .. t.rows /\ Train!Column(k, t.columns) \in 1 .. t.columns
        /\ Train!Element(t, Train!Row(k, t.columns), Train!Column(k, t.columns)) = k
    BY TensorLaid
  <2>2. t.of + Train!Column(k, t.columns) \in 1 .. o.columns
    BY <1>2, <2>1
  <2> QED BY <2>1, <2>2, TensorLaid
<1>4. to \in [K -> E] /\ by \in [K -> Int]
  BY <1>3
<1>5. ASSUME NEW e \in E PROVE du[e] = Part(f, {k \in K : to[k] = e})
  <2> DEFINE row == Train!Row(e, o.columns)
             column == Train!Column(e, o.columns)
             k == Train!Element(t, row, column - t.of)
             T == {m \in K : to[m] = e}
  <2>1. du[e] = Train!Adds(t, "a", e, dy)
    BY DEF Back
  <2>2. Train!Adds(t, "a", e, dy) = IF column \in t.of + 1 .. t.of + t.columns THEN dy[k] ELSE 0
    BY DEF Train!Adds
  <2>3. row \in 1 .. o.rows /\ column \in 1 .. o.columns /\ Train!Element(o, row, column) = e
    BY TensorLaid
  <2>4. CASE column \in t.of + 1 .. t.of + t.columns
    <3>1. column - t.of \in 1 .. t.columns /\ t.of + (column - t.of) = column
      BY <1>2, <2>3, <2>4
    <3>2. k \in K /\ Train!Row(k, t.columns) = row /\ Train!Column(k, t.columns) = column - t.of
      BY <2>3, <3>1, TensorLaid
    <3>3. to[k] = e
      BY <2>3, <3>1, <3>2
    <3>4. \A m \in T : m = k
      <4> SUFFICES ASSUME NEW m \in K, to[m] = e PROVE m = k
        OBVIOUS
      <4>1. Train!Row(m, t.columns) = row /\ Train!Column(m, t.columns) \in 1 .. t.columns
            /\ t.of + Train!Column(m, t.columns) = column
            /\ Train!Element(t, Train!Row(m, t.columns), Train!Column(m, t.columns)) = m
        BY <1>3
      <4>2. Train!Column(m, t.columns) = column - t.of
        BY <1>2, <4>1
      <4> QED BY <4>1, <4>2
    <3>5. T = {k}
      BY <3>2, <3>3, <3>4
    <3>6. dy[k] \in Int /\ f[k] = dy[k] * 1
      BY <3>2
    <3>7. f[k] = dy[k]
      BY <3>6, OneTimes
    <3> HIDE DEF f, k, T
    <3>8. Part(f, {k}) = f[k]
      BY <3>6, <3>7, FS_Singleton, PartSingle
    <3> QED BY <2>1, <2>2, <2>4, <3>5, <3>7, <3>8 DEF T
  <2>5. CASE column \notin t.of + 1 .. t.of + t.columns
    <3>1. \A m \in K : to[m] # e
      <4> SUFFICES ASSUME NEW m \in K, to[m] = e PROVE FALSE
        OBVIOUS
      <4>1. Train!Column(m, t.columns) \in 1 .. t.columns /\ t.of + Train!Column(m, t.columns) = column
        BY <1>3
      <4> QED BY <1>2, <2>5, <4>1
    <3>2. T = {}
      BY <3>1
    <3> QED BY <2>1, <2>2, <2>5, <3>2, PartNone
  <2> QED BY <2>4, <2>5
<1>6. ASSUME NEW k \in K PROVE w[k] = by[k] * u[to[k]]
  <2>1. u[to[k]] \in Int /\ by[k] = 1 /\ w[k] = u[to[k]]
    BY <1>4
  <2> QED BY <2>1, OneTimes
<1>7. dy \in [K -> Int] /\ u \in [E -> Int]
  OBVIOUS
<1> HIDE DEF to, by, w, du, K, E
<1>8. Dual(K, dy, w, E, du, u)
  <2>1. Scattered(K, E, to, by, dy, u, w, du)
    BY <1>1, <1>4, <1>5, <1>6, <1>7 DEF f, Scattered
  <2> QED BY <2>1, Scatter
<1> QED BY <1>8 DEF K, E, w, du

\* The rows that were looked up.
LEMMA EmbedFlows ==
  ASSUME NEW t, NEW o, Filled(t), Filled(o), o = nodes[t.a], t.op = "embed",
         t.columns = o.columns, t.of \in [1 .. t.rows -> 1 .. o.rows],
         NEW dy \in [1 .. Train!Count(t) -> Int], NEW u \in [1 .. Train!Count(o) -> Int]
  PROVE  Dual(1 .. Train!Count(t), dy,
              [k \in 1 .. Train!Count(t) |->
                 u[Train!Element(o, t.of[Train!Row(k, t.columns)], Train!Column(k, t.columns))]],
              1 .. Train!Count(o), Back(t, "a", o, dy), u)
<1> DEFINE K == 1 .. Train!Count(t)
           E == 1 .. Train!Count(o)
           to == [k \in K |-> Train!Element(o, t.of[Train!Row(k, t.columns)], Train!Column(k, t.columns))]
           by == [k \in K |-> 1]
           w == [k \in K |-> u[Train!Element(o, t.of[Train!Row(k, t.columns)], Train!Column(k, t.columns))]]
           du == Back(t, "a", o, dy)
           f == [k \in K |-> dy[k] * by[k]]
<1>1. IsFiniteSet(K) /\ IsFiniteSet(E)
  BY TensorLaid
<1>2. ASSUME NEW k \in K
      PROVE  /\ Train!Row(k, t.columns) \in 1 .. t.rows /\ Train!Column(k, t.columns) \in 1 .. t.columns
             /\ Train!Element(t, Train!Row(k, t.columns), Train!Column(k, t.columns)) = k
             /\ to[k] \in E /\ Train!Row(to[k], o.columns) = t.of[Train!Row(k, t.columns)]
             /\ Train!Column(to[k], o.columns) = Train!Column(k, t.columns)
  <2>1. /\ Train!Row(k, t.columns) \in 1 .. t.rows /\ Train!Column(k, t.columns) \in 1 .. t.columns
        /\ Train!Element(t, Train!Row(k, t.columns), Train!Column(k, t.columns)) = k
    BY TensorLaid
  <2>2. t.of[Train!Row(k, t.columns)] \in 1 .. o.rows
    BY <2>1
  <2> QED BY <2>1, <2>2, TensorLaid
<1>3. to \in [K -> E] /\ by \in [K -> Int]
  BY <1>2
<1>4. ASSUME NEW e \in E PROVE du[e] = Part(f, {k \in K : to[k] = e})
  <2> DEFINE row == Train!Row(e, o.columns)
             column == Train!Column(e, o.columns)
             T == {Train!Element(t, n, column) : n \in {n \in 1 .. t.rows : t.of[n] = row}}
  <2>1. du[e] = Train!Adds(t, "a", e, dy)
    BY DEF Back
  <2>2. Train!Adds(t, "a", e, dy) = Train!Sum([k \in T |-> dy[k] * 1])
    BY DEF Train!Adds
  <2>3. row \in 1 .. o.rows /\ column \in 1 .. t.columns /\ Train!Element(o, row, column) = e
    BY TensorLaid
  <2>4. ASSUME NEW n \in 1 .. t.rows, t.of[n] = row
        PROVE  Train!Element(t, n, column) \in K /\ to[Train!Element(t, n, column)] = e
    <3>1. /\ Train!Element(t, n, column) \in K
          /\ Train!Row(Train!Element(t, n, column), t.columns) = n
          /\ Train!Column(Train!Element(t, n, column), t.columns) = column
      BY <2>3, TensorLaid
    <3> QED BY <2>3, <2>4, <3>1
  <2>5. ASSUME NEW k \in K, to[k] = e PROVE k \in T
    <3>1. /\ Train!Row(k, t.columns) \in 1 .. t.rows /\ t.of[Train!Row(k, t.columns)] = row
          /\ Train!Element(t, Train!Row(k, t.columns), column) = k
      BY <1>2, <2>5
    <3> QED BY <3>1
  <2>6. T = {k \in K : to[k] = e}
    BY <2>4, <2>5
  <2>7. T \subseteq K
    BY <2>6
  <2>8. [k \in T |-> dy[k] * 1] = [k \in T |-> f[k]]
    BY <2>7
  <2> HIDE DEF T, f
  <2> QED BY <2>1, <2>2, <2>6, <2>8 DEF Part
<1>5. ASSUME NEW k \in K PROVE w[k] = by[k] * u[to[k]]
  <2>1. u[to[k]] \in Int /\ by[k] = 1 /\ w[k] = u[to[k]]
    BY <1>3
  <2> QED BY <2>1, OneTimes
<1>6. dy \in [K -> Int] /\ u \in [E -> Int]
  OBVIOUS
<1> HIDE DEF to, by, w, du, K, E
<1>7. Dual(K, dy, w, E, du, u)
  <2>1. Scattered(K, E, to, by, dy, u, w, du)
    BY <1>1, <1>3, <1>4, <1>5, <1>6 DEF f, Scattered
  <2> QED BY <2>1, Scatter
<1> QED BY <1>7 DEF K, E, w, du

\* Rows times rows of a matrix, which is frozen or an operand.
Multiplied(t, o, y, u) ==
  [k \in 1 .. Train!Count(t) |->
     Train!Sum([i \in 1 .. o.columns |-> u[Train!Element(o, Train!Row(k, t.columns), i)]
                                         * y.data[Train!Element(y, Train!Column(k, t.columns), i)]])]

LEMMA RowsFlow ==
  ASSUME NEW t, NEW o, NEW y, Filled(t), Filled(o), Filled(y), o = nodes[t.a],
         y.columns = o.columns, t.rows = o.rows, t.columns = y.rows,
         \/ t.op = "linear" /\ y = nodes[t.b]
         \/ t.op = "mapped" /\ y = Frozen[t.of],
         NEW dy \in [1 .. Train!Count(t) -> Int], NEW u \in [1 .. Train!Count(o) -> Int]
  PROVE  Dual(1 .. Train!Count(t), dy, Multiplied(t, o, y, u), 1 .. Train!Count(o), Back(t, "a", o, dy), u)
<1> DEFINE n == t.rows
           c == t.columns
           d == o.columns
           W == [x \in (1 .. c) \X (1 .. d) |-> y.data[Train!Element(y, x[1], x[2])]]
           w == Multiplied(t, o, y, u)
           du == Back(t, "a", o, dy)
<1>1. n \in Nat \ {0} /\ c \in Nat \ {0} /\ d \in Nat \ {0}
  BY DEF Filled
<1>2. Train!Count(t) = n * c /\ Train!Count(o) = n * d
  BY DEF Train!Count
<1>3. \A r, j : Train!Element(o, r, j) = Spot(d, r, j) /\ Train!Element(t, r, j) = Spot(c, r, j)
                /\ Train!Element(y, r, j) = Spot(d, r, j)
  BY DEF Train!Element, Spot
<1>4. W \in [(1 .. c) \X (1 .. d) -> Int]
  <2>1. \A r \in 1 .. c, j \in 1 .. d : Train!Element(y, r, j) \in 1 .. Train!Count(y)
    BY TensorLaid
  <2>2. y.data \in [1 .. Train!Count(y) -> Int]
    BY TensorLaid
  <2> QED BY <2>1, <2>2
<1>5. ASSUME NEW k \in 1 .. Train!Count(t)
      PROVE  w[k] = Part([i \in 1 .. d |-> u[Spot(d, Train!Row(k, c), i)] * W[<<Train!Column(k, c), i>>]], 1 .. d)
  <2> DEFINE f == [i \in 1 .. d |-> u[Train!Element(o, Train!Row(k, c), i)] * y.data[Train!Element(y, Train!Column(k, c), i)]]
             g == [i \in 1 .. d |-> u[Spot(d, Train!Row(k, c), i)] * W[<<Train!Column(k, c), i>>]]
  <2>1. w[k] = Train!Sum(f)
    BY DEF Multiplied
  <2>2. Train!Column(k, c) \in 1 .. c
    BY TensorLaid
  <2>3. \A i \in 1 .. d : W[<<Train!Column(k, c), i>>] = y.data[Train!Element(y, Train!Column(k, c), i)]
    BY <2>2
  <2> HIDE DEF W
  <2>4. \A i \in 1 .. d : u[Train!Element(o, Train!Row(k, c), i)] * y.data[Train!Element(y, Train!Column(k, c), i)]
                            = u[Spot(d, Train!Row(k, c), i)] * W[<<Train!Column(k, c), i>>]
    BY <1>3, <2>3
  <2>5. f = g /\ g = [i \in 1 .. d |-> g[i]]
    <3> HIDE DEF d, c
    <3> QED BY <2>4
  <2> HIDE DEF f, g, w
  <2>6. Train!Sum(g) = Part(g, 1 .. d)
    BY <2>5, PartSum
  <2> QED BY <2>1, <2>5, <2>6 DEF g
<1>6. ASSUME NEW e \in 1 .. Train!Count(o)
      PROVE  du[e] = Part([k \in 1 .. Train!Count(t) |-> dy[k] * W[<<Train!Column(k, c), Train!Column(e, d)>>]],
                          {Spot(c, Train!Row(e, d), j) : j \in 1 .. c})
  <2> DEFINE row == Train!Row(e, d)
             column == Train!Column(e, d)
             T == {Train!Element(t, row, j) : j \in 1 .. c}
             g == [k \in 1 .. Train!Count(t) |-> dy[k] * W[<<Train!Column(k, c), column>>]]
             v == [k \in T |-> y.data[Train!Element(y, Train!Column(k, c), column)]]
  <2>1. du[e] = Train!Adds(t, "a", e, dy)
    BY DEF Back
  <2>2. Train!Adds(t, "a", e, dy) = Train!Sum([k \in T |-> dy[k] * v[k]])
    <3>1. CASE t.op = "linear" /\ y = nodes[t.b]
      BY <3>1 DEF Train!Adds
    <3>2. CASE t.op = "mapped" /\ y = Frozen[t.of]
      <4>1. Train!Adds(t, "a", e, dy)
              = Train!Sum([k \in T |-> dy[k] * y.data[Train!Element(o, Train!Column(k, t.columns), column)]])
        BY <3>2 DEF Train!Adds
      <4>2. \A r, j : Train!Element(o, r, j) = Train!Element(y, r, j)
        BY <1>3
      <4> QED BY <4>1, <4>2
    <3> QED BY <3>1, <3>2
  <2>3. row \in 1 .. n /\ column \in 1 .. d
    BY TensorLaid
  <2>4. \A j \in 1 .. c : Train!Element(t, row, j) \in 1 .. Train!Count(t) /\ Train!Column(Train!Element(t, row, j), c) = j
    BY <2>3, TensorLaid
  <2>5. \A k \in T : k \in 1 .. Train!Count(t) /\ Train!Column(k, c) \in 1 .. c
    BY <2>4
  <2>6. \A k \in T : dy[k] * v[k] = g[k]
    BY <2>3, <2>5
  <2>7. T = {Spot(c, row, j) : j \in 1 .. c}
    BY <1>3
  <2>8. [k \in T |-> dy[k] * v[k]] = [k \in T |-> g[k]]
    BY <2>6
  <2> HIDE DEF T, g, v, du
  <2>9. du[e] = Part(g, T)
    BY <2>1, <2>2, <2>8 DEF Part
  <2> QED BY <2>7, <2>9 DEF g
<1>7. dy \in [1 .. n * c -> Int] /\ u \in [1 .. n * d -> Int]
  BY <1>2
<1> HIDE DEF n, c, d, W, w, du
<1>8. MixedRows(n, c, d, W, dy, w, du, u)
  BY <1>2, <1>4, <1>5, <1>6, <1>7 DEF MixedRows
<1>9. Dual(1 .. n * c, dy, w, 1 .. n * d, du, u)
  BY <1>1, <1>8, MixRows
<1> QED BY <1>2, <1>9 DEF w, du

LEMMA ColumnsFlow ==
  ASSUME NEW t, NEW o, NEW y, Filled(t), Filled(o), Filled(y), o = nodes[t.a], y = nodes[t.b],
         y.columns = o.columns, t.rows = o.rows, t.columns = y.rows, t.op = "linear",
         NEW dy \in [1 .. Train!Count(t) -> Int], NEW u \in [1 .. Train!Count(y) -> Int]
  PROVE  Dual(1 .. Train!Count(t), dy,
              [k \in 1 .. Train!Count(t) |->
                 Train!Sum([i \in 1 .. o.columns |-> o.data[Train!Element(o, Train!Row(k, t.columns), i)]
                                                     * u[Train!Element(y, Train!Column(k, t.columns), i)]])],
              1 .. Train!Count(y), Back(t, "b", y, dy), u)
<1> DEFINE n == t.rows
           c == t.columns
           d == o.columns
           X == [x \in (1 .. n) \X (1 .. d) |-> o.data[Train!Element(o, x[1], x[2])]]
           w == [k \in 1 .. Train!Count(t) |->
                   Train!Sum([i \in 1 .. d |-> o.data[Train!Element(o, Train!Row(k, c), i)]
                                               * u[Train!Element(y, Train!Column(k, c), i)]])]
           du == Back(t, "b", y, dy)
<1>1. n \in Nat \ {0} /\ c \in Nat \ {0} /\ d \in Nat \ {0}
  BY DEF Filled
<1>2. Train!Count(t) = n * c /\ Train!Count(y) = c * d
  BY DEF Train!Count
<1>3. \A r, j : Train!Element(o, r, j) = Spot(d, r, j) /\ Train!Element(t, r, j) = Spot(c, r, j)
                /\ Train!Element(y, r, j) = Spot(d, r, j)
  BY DEF Train!Element, Spot
<1>4. X \in [(1 .. n) \X (1 .. d) -> Int]
  <2>1. \A r \in 1 .. n, j \in 1 .. d : Train!Element(o, r, j) \in 1 .. Train!Count(o)
    BY TensorLaid
  <2>2. o.data \in [1 .. Train!Count(o) -> Int]
    BY TensorLaid
  <2> QED BY <2>1, <2>2
<1>5. ASSUME NEW k \in 1 .. Train!Count(t)
      PROVE  w[k] = Part([i \in 1 .. d |-> X[<<Train!Row(k, c), i>>] * u[Spot(d, Train!Column(k, c), i)]], 1 .. d)
  <2> DEFINE f == [i \in 1 .. d |-> o.data[Train!Element(o, Train!Row(k, c), i)] * u[Train!Element(y, Train!Column(k, c), i)]]
             g == [i \in 1 .. d |-> X[<<Train!Row(k, c), i>>] * u[Spot(d, Train!Column(k, c), i)]]
  <2>1. w[k] = Train!Sum(f)
    OBVIOUS
  <2>2. Train!Row(k, c) \in 1 .. n
    BY TensorLaid
  <2>3. \A i \in 1 .. d : X[<<Train!Row(k, c), i>>] = o.data[Train!Element(o, Train!Row(k, c), i)]
    BY <2>2
  <2> HIDE DEF X
  <2>4. \A i \in 1 .. d : o.data[Train!Element(o, Train!Row(k, c), i)] * u[Train!Element(y, Train!Column(k, c), i)]
                            = X[<<Train!Row(k, c), i>>] * u[Spot(d, Train!Column(k, c), i)]
    BY <1>3, <2>3
  <2>5. f = g /\ g = [i \in 1 .. d |-> g[i]]
    <3> HIDE DEF d, c
    <3> QED BY <2>4
  <2> HIDE DEF f, g, w
  <2>6. Train!Sum(g) = Part(g, 1 .. d)
    BY <2>5, PartSum
  <2> QED BY <2>1, <2>5, <2>6 DEF g
<1>6. ASSUME NEW e \in 1 .. Train!Count(y)
      PROVE  du[e] = Part([k \in 1 .. Train!Count(t) |-> dy[k] * X[<<Train!Row(k, c), Train!Column(e, d)>>]],
                          {Spot(c, m, Train!Row(e, d)) : m \in 1 .. n})
  <2> DEFINE row == Train!Row(e, d)
             column == Train!Column(e, d)
             T == {Train!Element(t, m, row) : m \in 1 .. n}
             g == [k \in 1 .. Train!Count(t) |-> dy[k] * X[<<Train!Row(k, c), column>>]]
             v == [k \in T |-> o.data[Train!Element(o, Train!Row(k, c), column)]]
  <2>1. du[e] = Train!Adds(t, "b", e, dy)
    BY DEF Back
  <2>2. Train!Adds(t, "b", e, dy) = Train!Sum([k \in T |-> dy[k] * v[k]])
    BY DEF Train!Adds
  <2>3. row \in 1 .. c /\ column \in 1 .. d
    BY TensorLaid
  <2>4. \A m \in 1 .. n : Train!Element(t, m, row) \in 1 .. Train!Count(t) /\ Train!Row(Train!Element(t, m, row), c) = m
    BY <2>3, TensorLaid
  <2>5. \A k \in T : k \in 1 .. Train!Count(t) /\ Train!Row(k, c) \in 1 .. n
    BY <2>4
  <2>6. \A k \in T : dy[k] * v[k] = g[k]
    BY <2>3, <2>5
  <2>7. T = {Spot(c, m, row) : m \in 1 .. n}
    BY <1>3
  <2>8. [k \in T |-> dy[k] * v[k]] = [k \in T |-> g[k]]
    BY <2>6
  <2> HIDE DEF T, g, v, du
  <2>9. du[e] = Part(g, T)
    BY <2>1, <2>2, <2>8 DEF Part
  <2> QED BY <2>7, <2>9 DEF g
<1>7. dy \in [1 .. n * c -> Int] /\ u \in [1 .. c * d -> Int]
  BY <1>2
<1> HIDE DEF n, c, d, X, w, du
<1>8. MixedColumns(n, c, d, X, dy, w, du, u)
  BY <1>2, <1>4, <1>5, <1>6, <1>7 DEF MixedColumns
<1>9. Dual(1 .. n * c, dy, w, 1 .. c * d, du, u)
  BY <1>1, <1>8, MixColumns
<1> QED BY <1>2, <1>9 DEF w, du, n, c, d

\* The derivative of t, ha and hb being those of its operands.
Change(t, a, b, ha, hb) ==
  IF t.op \in {"mul", "linear"}
  THEN [k \in 1 .. Train!Count(t) |-> Train!Value(t, a, ha, b, b.data)[k] + Train!Value(t, a, a.data, b, hb)[k]]
  ELSE Train!Value(t, a, ha, b, hb)

\* The operations with two operands.
Binaries == {"add", "mul", "linear"}

\* The sum of the products of n elements.
Inner(n, f, g) == Part([k \in 1 .. n |-> f[k] * g[k]], 1 .. n)

\* The sum of what the operands get, each times its derivative, is that for t.
Flows(t, a, b, ha, hb, dy) ==
  Inner(Train!Count(t), dy, Change(t, a, b, ha, hb))
    = Inner(Train!Count(a), Back(t, "a", a, dy), ha)
      + (IF t.op \in Binaries THEN Inner(Train!Count(b), Back(t, "b", b, dy), hb) ELSE 0)

\* Nothing but zeros.
Naught(n, f) == \A k \in 1 .. n : f[k] = 0

\* A derivative is an integer for each element, none if the operands have none.
Derives(t, a, b, ha, hb) ==
  /\ Change(t, a, b, ha, hb) \in [1 .. Train!Count(t) -> Int]
  /\ Naught(Train!Count(a), ha) /\ Naught(Train!Count(b), hb) => Naught(Train!Count(t), Change(t, a, b, ha, hb))

\* t is the result of an operation on a and b, which have the derivatives ha and hb.
Operation(t, a, b, ha, hb) ==
  /\ Filled(t) /\ Filled(a) /\ Filled(b) /\ Follows(t, a, b)
  /\ ha \in [1 .. Train!Count(a) -> Int] /\ hb \in [1 .. Train!Count(b) -> Int]

\* w is g and h, added.
Added(n, f, g, h, w) ==
  /\ n \in Nat /\ f \in [1 .. n -> Int] /\ g \in [1 .. n -> Int] /\ h \in [1 .. n -> Int]
  /\ \A k \in 1 .. n : w[k] = g[k] + h[k]

LEMMA InnerAdd ==
  ASSUME NEW n, NEW f, NEW g, NEW h, NEW w, Added(n, f, g, h, w)
  PROVE  Inner(n, f, w) = Inner(n, f, g) + Inner(n, f, h)
<1>0. /\ n \in Nat /\ f \in [1 .. n -> Int] /\ g \in [1 .. n -> Int] /\ h \in [1 .. n -> Int]
      /\ \A k \in 1 .. n : w[k] = g[k] + h[k]
  BY DEF Added
<1> USE <1>0
<1> DEFINE F == [k \in 1 .. n |-> f[k] * w[k]]
           G == [k \in 1 .. n |-> f[k] * g[k]]
           H == [k \in 1 .. n |-> f[k] * h[k]]
<1>1. ASSUME NEW k \in 1 .. n PROVE G[k] \in Int /\ H[k] \in Int /\ F[k] = G[k] + H[k]
  <2>1. f[k] \in Int /\ g[k] \in Int /\ h[k] \in Int /\ w[k] = g[k] + h[k]
    OBVIOUS
  <2>2. F[k] = f[k] * (g[k] + h[k]) /\ G[k] = f[k] * g[k] /\ H[k] = f[k] * h[k]
    BY <2>1
  <2> HIDE DEF F, G, H
  <2> QED BY <2>1, <2>2, Distributes
<1> HIDE DEF F, G, H
<1> DEFINE K == 1 .. n
<1>2. Part(F, K) = Part(G, K) + Part(H, K)
  <2>1. IsFiniteSet(K)
    BY FS_Interval
  <2>2. \A k \in K : G[k] \in Int /\ H[k] \in Int /\ F[k] = G[k] + H[k]
    BY <1>1
  <2> HIDE DEF K
  <2> QED BY <2>1, <2>2, PartAdd
<1> QED BY <1>2 DEF Inner, F, G, H

LEMMA InnerSame ==
  ASSUME NEW n \in Nat, NEW f, NEW g, NEW w, \A k \in 1 .. n : w[k] = g[k]
  PROVE  Inner(n, f, w) = Inner(n, f, g)
<1>1. [k \in 1 .. n |-> f[k] * w[k]] = [k \in 1 .. n |-> f[k] * g[k]]
  OBVIOUS
<1> QED BY <1>1 DEF Inner

LEMMA AddDerives ==
  ASSUME NEW t, NEW a, NEW b, NEW ha, NEW hb, Operation(t, a, b, ha, hb), t.op = "add"
  PROVE  /\ \A k \in 1 .. Train!Count(t) :
              Change(t, a, b, ha, hb)[k] = ha[Train!Broadcast(a, k, t.columns)] + hb[Train!Broadcast(b, k, t.columns)]
         /\ Derives(t, a, b, ha, hb)
<1> DEFINE w == [k \in 1 .. Train!Count(t) |-> ha[Train!Broadcast(a, k, t.columns)] + hb[Train!Broadcast(b, k, t.columns)]]
<1>1. Change(t, a, b, ha, hb) = w
  BY DEF Change, Train!Value
<1>2. \A k \in 1 .. Train!Count(t) : /\ Train!Broadcast(a, k, t.columns) \in 1 .. Train!Count(a)
                                     /\ Train!Broadcast(b, k, t.columns) \in 1 .. Train!Count(b)
  BY BothSpread, BroadcastInside DEF Operation
<1>3. ha \in [1 .. Train!Count(a) -> Int] /\ hb \in [1 .. Train!Count(b) -> Int]
  BY DEF Operation
<1>4. w \in [1 .. Train!Count(t) -> Int]
  BY <1>2, <1>3
<1>5. (\A k \in 1 .. Train!Count(a) : ha[k] = 0) /\ (\A k \in 1 .. Train!Count(b) : hb[k] = 0)
        => \A k \in 1 .. Train!Count(t) : w[k] = 0
  BY <1>2
<1> QED BY <1>1, <1>4, <1>5 DEF Derives, Naught

LEMMA AddFlow ==
  ASSUME NEW t, NEW a, NEW b, NEW ha, NEW hb, Operation(t, a, b, ha, hb), t.op = "add",
         a = nodes[t.a], b = nodes[t.b], NEW dy \in [1 .. Train!Count(t) -> Int]
  PROVE  Flows(t, a, b, ha, hb, dy)
<1> DEFINE n == Train!Count(t)
           v == [k \in 1 .. n |-> ha[Train!Broadcast(a, k, t.columns)]]
           w == [k \in 1 .. n |-> hb[Train!Broadcast(b, k, t.columns)]]
           c == Change(t, a, b, ha, hb)
<1>1. /\ Filled(t) /\ Filled(a) /\ Filled(b) /\ Spread(t, a) /\ Spread(t, b)
      /\ ha \in [1 .. Train!Count(a) -> Int] /\ hb \in [1 .. Train!Count(b) -> Int]
  BY BothSpread DEF Operation
<1>2. /\ Dual(1 .. n, dy, v, 1 .. Train!Count(a), Back(t, "a", a, dy), ha)
      /\ Dual(1 .. n, dy, w, 1 .. Train!Count(b), Back(t, "b", b, dy), hb)
  <2>1. t["a"] = t.a /\ t["b"] = t.b
    OBVIOUS
  <2> QED BY <1>1, <2>1, AddFlows
<1>3. v \in [1 .. n -> Int] /\ w \in [1 .. n -> Int] /\ n \in Nat
  BY <1>1, BroadcastInside, TensorLaid
<1>4. \A k \in 1 .. n : c[k] = v[k] + w[k]
  <2>1. \A k \in 1 .. n : c[k] = ha[Train!Broadcast(a, k, t.columns)] + hb[Train!Broadcast(b, k, t.columns)]
    BY AddDerives
  <2> HIDE DEF c
  <2> QED BY <2>1
<1> HIDE DEF n, v, w, c
<1>5. Inner(n, dy, c) = Inner(n, dy, v) + Inner(n, dy, w)
  <2>1. dy \in [1 .. n -> Int]
    BY DEF n
  <2>2. Added(n, dy, v, w, c)
    BY <1>3, <1>4, <2>1 DEF Added
  <2> QED BY <2>2, InnerAdd
<1>6. /\ Inner(n, dy, v) = Inner(Train!Count(a), Back(t, "a", a, dy), ha)
      /\ Inner(n, dy, w) = Inner(Train!Count(b), Back(t, "b", b, dy), hb)
  BY <1>2 DEF Dual, Inner
<1> QED BY <1>5, <1>6 DEF Flows, Binaries, n, c

LEMMA MulDerives ==
  ASSUME NEW t, NEW a, NEW b, NEW ha, NEW hb, Operation(t, a, b, ha, hb), t.op = "mul"
  PROVE  /\ \A k \in 1 .. Train!Count(t) :
              Change(t, a, b, ha, hb)[k]
                = b.data[Train!Broadcast(b, k, t.columns)] * ha[Train!Broadcast(a, k, t.columns)]
                  + a.data[Train!Broadcast(a, k, t.columns)] * hb[Train!Broadcast(b, k, t.columns)]
         /\ Derives(t, a, b, ha, hb)
<1> DEFINE n == Train!Count(t)
           v == [k \in 1 .. n |-> ha[Train!Broadcast(a, k, t.columns)] * b.data[Train!Broadcast(b, k, t.columns)]]
           v2 == [k \in 1 .. n |-> b.data[Train!Broadcast(b, k, t.columns)] * ha[Train!Broadcast(a, k, t.columns)]]
           w == [k \in 1 .. n |-> a.data[Train!Broadcast(a, k, t.columns)] * hb[Train!Broadcast(b, k, t.columns)]]
<1>1. Train!Value(t, a, ha, b, b.data) = v /\ Train!Value(t, a, a.data, b, hb) = w
  BY DEF Train!Value
<1>2. Change(t, a, b, ha, hb) = [k \in 1 .. n |-> v[k] + w[k]]
  BY <1>1 DEF Change
<1>3. \A k \in 1 .. n : /\ Train!Broadcast(a, k, t.columns) \in 1 .. Train!Count(a)
                        /\ Train!Broadcast(b, k, t.columns) \in 1 .. Train!Count(b)
  BY BothSpread, BroadcastInside DEF Operation
<1>4. /\ ha \in [1 .. Train!Count(a) -> Int] /\ hb \in [1 .. Train!Count(b) -> Int]
      /\ a.data \in [1 .. Train!Count(a) -> Int] /\ b.data \in [1 .. Train!Count(b) -> Int]
  BY TensorLaid DEF Operation
<1>5. ASSUME NEW k \in 1 .. n PROVE v[k] \in Int /\ w[k] \in Int /\ v[k] = v2[k]
  <2>1. /\ ha[Train!Broadcast(a, k, t.columns)] \in Int /\ b.data[Train!Broadcast(b, k, t.columns)] \in Int
        /\ hb[Train!Broadcast(b, k, t.columns)] \in Int /\ a.data[Train!Broadcast(a, k, t.columns)] \in Int
    BY <1>3, <1>4
  <2> QED BY <2>1, ProductLaws
<1>6. (\A k \in 1 .. Train!Count(a) : ha[k] = 0) /\ (\A k \in 1 .. Train!Count(b) : hb[k] = 0)
        => \A k \in 1 .. n : v[k] = 0 /\ w[k] = 0
  <2> SUFFICES ASSUME \A k \in 1 .. Train!Count(a) : ha[k] = 0, \A k \in 1 .. Train!Count(b) : hb[k] = 0,
                      NEW k \in 1 .. n
               PROVE  v[k] = 0 /\ w[k] = 0
    OBVIOUS
  <2>1. /\ ha[Train!Broadcast(a, k, t.columns)] = 0 /\ b.data[Train!Broadcast(b, k, t.columns)] \in Int
        /\ hb[Train!Broadcast(b, k, t.columns)] = 0 /\ a.data[Train!Broadcast(a, k, t.columns)] \in Int
    BY <1>3, <1>4
  <2> QED BY <2>1, OneTimes
<1> HIDE DEF v, w
<1>7. Change(t, a, b, ha, hb) \in [1 .. n -> Int]
  BY <1>2, <1>5
<1>8. Derives(t, a, b, ha, hb)
  BY <1>2, <1>6, <1>7 DEF Derives, Naught
<1>9. \A k \in 1 .. n : Change(t, a, b, ha, hb)[k] = v2[k] + w[k]
  BY <1>2, <1>5
<1> QED BY <1>8, <1>9 DEF v2, w

LEMMA MulFlow ==
  ASSUME NEW t, NEW a, NEW b, NEW ha, NEW hb, Operation(t, a, b, ha, hb), t.op = "mul",
         a = nodes[t.a], b = nodes[t.b], NEW dy \in [1 .. Train!Count(t) -> Int]
  PROVE  Flows(t, a, b, ha, hb, dy)
<1> DEFINE n == Train!Count(t)
           v == [k \in 1 .. n |-> b.data[Train!Broadcast(b, k, t.columns)] * ha[Train!Broadcast(a, k, t.columns)]]
           w == [k \in 1 .. n |-> a.data[Train!Broadcast(a, k, t.columns)] * hb[Train!Broadcast(b, k, t.columns)]]
           c == Change(t, a, b, ha, hb)
<1>1. /\ Filled(t) /\ Filled(a) /\ Filled(b) /\ Spread(t, a) /\ Spread(t, b)
      /\ ha \in [1 .. Train!Count(a) -> Int] /\ hb \in [1 .. Train!Count(b) -> Int]
  BY BothSpread DEF Operation
<1>2. /\ Dual(1 .. n, dy, v, 1 .. Train!Count(a), Back(t, "a", a, dy), ha)
      /\ Dual(1 .. n, dy, w, 1 .. Train!Count(b), Back(t, "b", b, dy), hb)
  <2>1. t["a"] = t.a /\ t["b"] = t.b /\ t[Other("a")] = t.b /\ t[Other("b")] = t.a
    BY DEF Other
  <2> QED BY <1>1, <2>1, MulFlows
<1>3. ASSUME NEW k \in 1 .. n PROVE v[k] \in Int /\ w[k] \in Int
  <2>1. /\ Train!Broadcast(a, k, t.columns) \in 1 .. Train!Count(a)
        /\ Train!Broadcast(b, k, t.columns) \in 1 .. Train!Count(b)
    BY <1>1, BroadcastInside
  <2>2. a.data \in [1 .. Train!Count(a) -> Int] /\ b.data \in [1 .. Train!Count(b) -> Int]
    BY <1>1, TensorLaid
  <2>3. /\ ha[Train!Broadcast(a, k, t.columns)] \in Int /\ b.data[Train!Broadcast(b, k, t.columns)] \in Int
        /\ hb[Train!Broadcast(b, k, t.columns)] \in Int /\ a.data[Train!Broadcast(a, k, t.columns)] \in Int
    BY <1>1, <2>1, <2>2
  <2> QED BY <2>3, ProductLaws
<1>7. v \in [1 .. n -> Int] /\ w \in [1 .. n -> Int] /\ n \in Nat
  <2>1. n \in Nat
    BY <1>1, TensorLaid
  <2> QED BY <1>3, <2>1
<1>4. \A k \in 1 .. n : c[k] = v[k] + w[k]
  <2>1. \A k \in 1 .. n : c[k] = b.data[Train!Broadcast(b, k, t.columns)] * ha[Train!Broadcast(a, k, t.columns)]
                                 + a.data[Train!Broadcast(a, k, t.columns)] * hb[Train!Broadcast(b, k, t.columns)]
    BY MulDerives
  <2> HIDE DEF c
  <2> QED BY <2>1
<1> HIDE DEF n, v, w, c
<1>5. Inner(n, dy, c) = Inner(n, dy, v) + Inner(n, dy, w)
  <2>1. dy \in [1 .. n -> Int]
    BY DEF n
  <2>2. Added(n, dy, v, w, c)
    BY <1>4, <1>7, <2>1 DEF Added
  <2> QED BY <2>2, InnerAdd
<1>6. /\ Inner(n, dy, v) = Inner(Train!Count(a), Back(t, "a", a, dy), ha)
      /\ Inner(n, dy, w) = Inner(Train!Count(b), Back(t, "b", b, dy), hb)
  BY <1>2 DEF Dual, Inner
<1> QED BY <1>5, <1>6 DEF Flows, Binaries, n, c

\* With one operand.
LEMMA OneFlow ==
  ASSUME NEW t, NEW a, NEW b, NEW ha, NEW hb, NEW dy, NEW v, t.op \notin Binaries, Filled(t),
         \A k \in 1 .. Train!Count(t) : Change(t, a, b, ha, hb)[k] = v[k],
         Dual(1 .. Train!Count(t), dy, v, 1 .. Train!Count(a), Back(t, "a", a, dy), ha),
         Inner(Train!Count(a), Back(t, "a", a, dy), ha) \in Int
  PROVE  Flows(t, a, b, ha, hb, dy)
<1> DEFINE n == Train!Count(t)
           c == Change(t, a, b, ha, hb)
<1>1. n \in Nat
  BY TensorLaid
<1>2. \A k \in 1 .. n : c[k] = v[k]
  OBVIOUS
<1>3. Dual(1 .. n, dy, v, 1 .. Train!Count(a), Back(t, "a", a, dy), ha)
  OBVIOUS
<1> HIDE DEF n, c
<1>4. Inner(n, dy, c) = Inner(n, dy, v)
  BY <1>1, <1>2, InnerSame
<1>5. Inner(n, dy, v) = Inner(Train!Count(a), Back(t, "a", a, dy), ha)
  BY <1>3 DEF Dual, Inner
<1> QED BY <1>4, <1>5 DEF Flows, n, c

\* What an operand gets are integers.
BackTyped(t, side, o, dy) == Back(t, side, o, dy) \in [1 .. Train!Count(o) -> Int]

LEMMA InnerType ==
  ASSUME NEW n \in Nat, NEW f \in [1 .. n -> Int], NEW g \in [1 .. n -> Int]
  PROVE  Inner(n, f, g) \in Int
<1> DEFINE F == [k \in 1 .. n |-> f[k] * g[k]]
           K == 1 .. n
<1>1. \A k \in K : F[k] \in Int
  BY ProductLaws
<1>2. IsFiniteSet(K)
  BY FS_Interval
<1> HIDE DEF F, K
<1>3. Part(F, K) \in Int
  BY <1>1, <1>2, PartType
<1> QED BY <1>3 DEF Inner, F, K

LEMMA ScaleFlow ==
  ASSUME NEW t, NEW a, NEW b, NEW ha, NEW hb, Operation(t, a, b, ha, hb), t.op \in {"scale", "reshape"},
         a = nodes[t.a], NEW dy \in [1 .. Train!Count(t) -> Int]
  PROVE  /\ Derives(t, a, b, ha, hb)
         /\ BackTyped(t, "a", a, dy)
         /\ Flows(t, a, b, ha, hb, dy)
<1> DEFINE n == Train!Count(t)
           c == IF t.op = "scale" THEN t.of ELSE 1
           v == [k \in 1 .. n |-> c * ha[k]]
<1>1. Filled(t) /\ Filled(a) /\ ha \in [1 .. Train!Count(a) -> Int]
  BY DEF Operation
<1>2. n = Train!Count(a) /\ c \in Int
  BY DEF Operation, Follows, Train!Count
<1>3. /\ (t.op = "scale" /\ t.of = c) \/ (t.op = "reshape" /\ c = 1)
      /\ t.op \notin {"mul", "linear"} /\ t.op \notin Binaries
  BY DEF Binaries
<1> HIDE DEF c
<1>4. Dual(1 .. n, dy, v, 1 .. Train!Count(a), Back(t, "a", a, dy), ha)
  BY <1>1, <1>2, <1>3, ScaleFlows
<1>5. Change(t, a, b, ha, hb) = v
  <2>1. Change(t, a, b, ha, hb) = Train!Value(t, a, ha, b, hb)
    BY <1>3 DEF Change
  <2>2. CASE t.op = "scale" /\ t.of = c
    BY <2>1, <2>2 DEF Train!Value
  <2>3. CASE t.op = "reshape" /\ c = 1
    <3>1. Train!Value(t, a, ha, b, hb) = [k \in 1 .. n |-> ha[k]]
      BY <2>3 DEF Train!Value
    <3>2. \A k \in 1 .. n : ha[k] = c * ha[k]
      BY <1>1, <1>2, <2>3, OneTimes
    <3> QED BY <2>1, <3>1, <3>2
  <2> QED BY <1>3, <2>2, <2>3
<1>6. v \in [1 .. n -> Int]
  <2>1. \A k \in 1 .. n : c * ha[k] \in Int
    BY <1>1, <1>2, ProductLaws
  <2> QED BY <2>1
<1>7. (\A k \in 1 .. Train!Count(a) : ha[k] = 0) => \A k \in 1 .. n : v[k] = 0
  BY <1>2, OneTimes
<1>8. Derives(t, a, b, ha, hb)
  BY <1>5, <1>6, <1>7 DEF Derives, Naught
<1>9. BackTyped(t, "a", a, dy)
  <2>1. ASSUME NEW e \in 1 .. Train!Count(a) PROVE Train!Adds(t, "a", e, dy) \in Int
    <3>1. dy[e] \in Int
      BY <1>2
    <3>2. CASE t.op = "scale" /\ t.of = c
      <4>1. Train!Adds(t, "a", e, dy) = dy[e] * c
        BY <3>2 DEF Train!Adds
      <4> QED BY <1>2, <3>1, <4>1, ProductLaws
    <3>3. CASE t.op = "reshape" /\ c = 1
      <4>1. Train!Adds(t, "a", e, dy) = dy[e]
        BY <3>3 DEF Train!Adds
      <4> QED BY <3>1, <4>1
    <3> QED BY <1>3, <3>2, <3>3
  <2> QED BY <2>1 DEF BackTyped, Back
<1>10. Inner(Train!Count(a), Back(t, "a", a, dy), ha) \in Int
  BY <1>1, <1>9, InnerType, TensorLaid DEF BackTyped
<1> HIDE DEF v
<1>11. Flows(t, a, b, ha, hb, dy)
  BY <1>1, <1>3, <1>4, <1>5, <1>10, OneFlow
<1> QED BY <1>8, <1>9, <1>11

LEMMA SliceFlow ==
  ASSUME NEW t, NEW a, NEW b, NEW ha, NEW hb, Operation(t, a, b, ha, hb), t.op = "slice",
         a = nodes[t.a], NEW dy \in [1 .. Train!Count(t) -> Int]
  PROVE  /\ Derives(t, a, b, ha, hb)
         /\ BackTyped(t, "a", a, dy)
         /\ Flows(t, a, b, ha, hb, dy)
<1> DEFINE n == Train!Count(t)
           spot(k) == Train!Element(a, Train!Row(k, t.columns), t.of + Train!Column(k, t.columns))
           v == [k \in 1 .. n |-> ha[spot(k)]]
<1>1. Filled(t) /\ Filled(a) /\ ha \in [1 .. Train!Count(a) -> Int]
  BY DEF Operation
<1>2. t.rows = a.rows /\ t.of \in Nat /\ t.of + t.columns <= a.columns /\ t.op \notin Binaries
  BY DEF Operation, Follows, Binaries
<1>3. t.columns \in Nat \ {0} /\ a.columns \in Nat \ {0}
  BY <1>1 DEF Filled
<1>4. Dual(1 .. n, dy, v, 1 .. Train!Count(a), Back(t, "a", a, dy), ha)
  BY <1>1, <1>2, SliceFlows
<1>5. Change(t, a, b, ha, hb) = v
  BY DEF Change, Train!Value
<1>6. ASSUME NEW k \in 1 .. n PROVE spot(k) \in 1 .. Train!Count(a)
  <2>1. Train!Row(k, t.columns) \in 1 .. a.rows /\ Train!Column(k, t.columns) \in 1 .. t.columns
    BY <1>1, <1>2, TensorLaid
  <2>2. t.of + Train!Column(k, t.columns) \in 1 .. a.columns
    BY <1>2, <1>3, <2>1
  <2> QED BY <1>1, <2>1, <2>2, TensorLaid
<1>7. v \in [1 .. n -> Int] /\ ((\A k \in 1 .. Train!Count(a) : ha[k] = 0) => \A k \in 1 .. n : v[k] = 0)
  BY <1>1, <1>6
<1>8. Derives(t, a, b, ha, hb)
  BY <1>5, <1>7 DEF Derives, Naught
<1>9. BackTyped(t, "a", a, dy)
  <2>1. ASSUME NEW e \in 1 .. Train!Count(a) PROVE Train!Adds(t, "a", e, dy) \in Int
    <3> DEFINE row == Train!Row(e, a.columns)
               column == Train!Column(e, a.columns)
    <3>1. Train!Adds(t, "a", e, dy) = IF column \in t.of + 1 .. t.of + t.columns
                                      THEN dy[Train!Element(t, row, column - t.of)] ELSE 0
      BY DEF Train!Adds
    <3>2. row \in 1 .. t.rows /\ column \in 1 .. a.columns
      BY <1>1, <1>2, TensorLaid
    <3>3. CASE column \in t.of + 1 .. t.of + t.columns
      <4>1. column - t.of \in 1 .. t.columns
        BY <1>2, <1>3, <3>2, <3>3
      <4>2. Train!Element(t, row, column - t.of) \in 1 .. n
        BY <1>1, <3>2, <4>1, TensorLaid
      <4> QED BY <3>1, <3>3, <4>2
    <3>4. CASE column \notin t.of + 1 .. t.of + t.columns
      BY <3>1, <3>4
    <3> QED BY <3>3, <3>4
  <2> QED BY <2>1 DEF BackTyped, Back
<1>10. Inner(Train!Count(a), Back(t, "a", a, dy), ha) \in Int
  BY <1>1, <1>9, InnerType, TensorLaid DEF BackTyped
<1> HIDE DEF v
<1>11. Flows(t, a, b, ha, hb, dy)
  BY <1>1, <1>2, <1>4, <1>5, <1>10, OneFlow
<1> QED BY <1>8, <1>9, <1>11

\* Sums of what a node gets, over a set of its elements.
LEMMA SumOver ==
  ASSUME NEW n \in Nat, NEW T \in SUBSET (1 .. n), NEW dy \in [1 .. n -> Int], NEW v \in [T -> Int]
  PROVE  Train!Sum([k \in T |-> dy[k] * v[k]]) \in Int
<1>1. IsFiniteSet(T)
  <2>1. IsFiniteSet(1 .. n)
    BY FS_Interval
  <2> QED BY <2>1, FS_Subset
<1>2. \A k \in T : dy[k] * v[k] \in Int
  BY ProductLaws
<1> DEFINE f == [k \in T |-> dy[k] * v[k]]
<1>3. f \in [T -> Int]
  BY <1>2
<1> HIDE DEF f
<1>4. Train!Sum(f) \in Int
  BY <1>1, <1>3, SumType
<1> QED BY <1>4 DEF f

LEMMA AddBack ==
  ASSUME NEW t, NEW side, NEW o, NEW y, Filled(t), Filled(o), Filled(y), Spread(t, y),
         o = nodes[t[side]], y = nodes[t[Other(side)]],
         t.op \in {"add", "mul"}, NEW dy \in [1 .. Train!Count(t) -> Int]
  PROVE  BackTyped(t, side, o, dy)
<1>1. ASSUME NEW e \in 1 .. Train!Count(o) PROVE Train!Adds(t, side, e, dy) \in Int
  <2> DEFINE T == {k \in 1 .. Train!Count(t) : Train!Broadcast(o, k, t.columns) = e}
             one == [k \in T |-> 1]
             v == [k \in T |-> y.data[Train!Broadcast(y, k, t.columns)]]
  <2>1. T \in SUBSET (1 .. Train!Count(t)) /\ Train!Count(t) \in Nat
    BY TensorLaid
  <2>2. one \in [T -> Int]
    OBVIOUS
  <2>3. v \in [T -> Int]
    <3>1. \A k \in T : Train!Broadcast(y, k, t.columns) \in 1 .. Train!Count(y)
      BY BroadcastInside
    <3>2. y.data \in [1 .. Train!Count(y) -> Int]
      BY TensorLaid
    <3> QED BY <3>1, <3>2
  <2>4. CASE t.op = "add"
    <3>1. Train!Adds(t, side, e, dy) = Train!Sum([k \in T |-> dy[k] * 1])
      BY <2>4 DEF Train!Adds
    <3>2. [k \in T |-> dy[k] * 1] = [k \in T |-> dy[k] * one[k]]
      OBVIOUS
    <3> HIDE DEF one, T
    <3>3. Train!Sum([k \in T |-> dy[k] * one[k]]) \in Int
      BY <2>1, <2>2, SumOver
    <3> QED BY <3>1, <3>2, <3>3
  <2>5. CASE t.op = "mul"
    <3>1. Train!Adds(t, side, e, dy) = Train!Sum([k \in T |-> dy[k] * y.data[Train!Broadcast(y, k, t.columns)]])
      BY <2>5 DEF Train!Adds, Other
    <3>2. [k \in T |-> dy[k] * y.data[Train!Broadcast(y, k, t.columns)]] = [k \in T |-> dy[k] * v[k]]
      OBVIOUS
    <3> HIDE DEF v, T
    <3>3. Train!Sum([k \in T |-> dy[k] * v[k]]) \in Int
      BY <2>1, <2>3, SumOver
    <3> QED BY <3>1, <3>2, <3>3
  <2> QED BY <2>4, <2>5
<1> QED BY <1>1 DEF BackTyped, Back

LEMMA EmbedFlow ==
  ASSUME NEW t, NEW a, NEW b, NEW ha, NEW hb, Operation(t, a, b, ha, hb), t.op = "embed",
         a = nodes[t.a], NEW dy \in [1 .. Train!Count(t) -> Int]
  PROVE  /\ Derives(t, a, b, ha, hb)
         /\ BackTyped(t, "a", a, dy)
         /\ Flows(t, a, b, ha, hb, dy)
<1> DEFINE n == Train!Count(t)
           spot(k) == Train!Element(a, t.of[Train!Row(k, t.columns)], Train!Column(k, t.columns))
           v == [k \in 1 .. n |-> ha[spot(k)]]
<1>1. Filled(t) /\ Filled(a) /\ ha \in [1 .. Train!Count(a) -> Int]
  BY DEF Operation
<1>2. t.columns = a.columns /\ t.of \in [1 .. t.rows -> 1 .. a.rows] /\ t.op \notin Binaries
  BY DEF Operation, Follows, Binaries
<1>3. n \in Nat
  BY <1>1, TensorLaid
<1>4. Dual(1 .. n, dy, v, 1 .. Train!Count(a), Back(t, "a", a, dy), ha)
  BY <1>1, <1>2, EmbedFlows
<1>5. Change(t, a, b, ha, hb) = v
  BY DEF Change, Train!Value
<1>6. ASSUME NEW k \in 1 .. n PROVE spot(k) \in 1 .. Train!Count(a)
  <2>1. Train!Row(k, t.columns) \in 1 .. t.rows /\ Train!Column(k, t.columns) \in 1 .. a.columns
    BY <1>1, <1>2, TensorLaid
  <2>2. t.of[Train!Row(k, t.columns)] \in 1 .. a.rows
    BY <1>2, <2>1
  <2> QED BY <1>1, <2>1, <2>2, TensorLaid
<1>7. v \in [1 .. n -> Int] /\ ((\A k \in 1 .. Train!Count(a) : ha[k] = 0) => \A k \in 1 .. n : v[k] = 0)
  BY <1>1, <1>6
<1>8. Derives(t, a, b, ha, hb)
  BY <1>5, <1>7 DEF Derives, Naught
<1>9. BackTyped(t, "a", a, dy)
  <2>1. ASSUME NEW e \in 1 .. Train!Count(a) PROVE Train!Adds(t, "a", e, dy) \in Int
    <3> DEFINE row == Train!Row(e, a.columns)
               column == Train!Column(e, a.columns)
               T == {Train!Element(t, m, column) : m \in {m \in 1 .. t.rows : t.of[m] = row}}
               one == [k \in T |-> 1]
    <3>1. Train!Adds(t, "a", e, dy) = Train!Sum([k \in T |-> dy[k] * 1])
      BY DEF Train!Adds
    <3>2. column \in 1 .. t.columns
      BY <1>1, <1>2, TensorLaid
    <3>3. \A m \in 1 .. t.rows : Train!Element(t, m, column) \in 1 .. n
      BY <1>1, <3>2, TensorLaid
    <3>4. T \in SUBSET (1 .. n) /\ one \in [T -> Int]
      BY <3>3
    <3>5. [k \in T |-> dy[k] * 1] = [k \in T |-> dy[k] * one[k]]
      OBVIOUS
    <3> HIDE DEF one, T, n
    <3>6. dy \in [1 .. n -> Int]
      BY DEF n
    <3>7. Train!Sum([k \in T |-> dy[k] * one[k]]) \in Int
      BY <1>3, <3>4, <3>6, SumOver
    <3> QED BY <3>1, <3>5, <3>7
  <2> QED BY <2>1 DEF BackTyped, Back
<1>10. Inner(Train!Count(a), Back(t, "a", a, dy), ha) \in Int
  BY <1>1, <1>9, InnerType, TensorLaid DEF BackTyped
<1> HIDE DEF v
<1>11. Flows(t, a, b, ha, hb, dy)
  BY <1>1, <1>2, <1>4, <1>5, <1>10, OneFlow
<1> QED BY <1>8, <1>9, <1>11

\* Matrix products are integers, and nothing for nothing.
LEMMA MultipliedType ==
  ASSUME NEW t, NEW o, NEW y, NEW u, Filled(t), Filled(o), Filled(y), t.rows = o.rows, t.columns = y.rows,
         y.columns = o.columns, u \in [1 .. Train!Count(o) -> Int]
  PROVE  /\ Multiplied(t, o, y, u) \in [1 .. Train!Count(t) -> Int]
         /\ Naught(Train!Count(o), u) => Naught(Train!Count(t), Multiplied(t, o, y, u))
<1> DEFINE d == o.columns
           f(k) == [i \in 1 .. d |-> u[Train!Element(o, Train!Row(k, t.columns), i)]
                                     * y.data[Train!Element(y, Train!Column(k, t.columns), i)]]
<1>1. d \in Nat \ {0} /\ IsFiniteSet(1 .. d)
  BY FS_Interval DEF Filled
<1>2. \A k \in 1 .. Train!Count(t) : Train!Row(k, t.columns) \in 1 .. o.rows /\ Train!Column(k, t.columns) \in 1 .. y.rows
  BY TensorLaid
<1>3. ASSUME NEW k \in 1 .. Train!Count(t), NEW i \in 1 .. d
      PROVE  /\ Train!Element(o, Train!Row(k, t.columns), i) \in 1 .. Train!Count(o)
             /\ u[Train!Element(o, Train!Row(k, t.columns), i)] \in Int
             /\ y.data[Train!Element(y, Train!Column(k, t.columns), i)] \in Int
  <2>1. /\ Train!Element(o, Train!Row(k, t.columns), i) \in 1 .. Train!Count(o)
        /\ Train!Element(y, Train!Column(k, t.columns), i) \in 1 .. Train!Count(y)
    BY <1>2, TensorLaid
  <2>2. y.data \in [1 .. Train!Count(y) -> Int]
    BY TensorLaid
  <2> QED BY <2>1, <2>2
<1>4. ASSUME NEW k \in 1 .. Train!Count(t) PROVE Multiplied(t, o, y, u)[k] = Train!Sum(f(k)) /\ f(k) \in [1 .. d -> Int]
  <2>1. \A i \in 1 .. d : f(k)[i] \in Int
    BY <1>3, ProductLaws
  <2>2. Multiplied(t, o, y, u)[k] = Train!Sum(f(k))
    BY DEF Multiplied
  <2> QED BY <2>1, <2>2
<1>5. ASSUME NEW k \in 1 .. Train!Count(t) PROVE Multiplied(t, o, y, u)[k] \in Int
  <2> DEFINE g == f(k)
  <2>1. g \in [1 .. d -> Int] /\ Multiplied(t, o, y, u)[k] = Train!Sum(g)
    BY <1>4
  <2> HIDE DEF g, d
  <2> QED BY <1>1, <2>1, SumType
<1>6. ASSUME \A k \in 1 .. Train!Count(o) : u[k] = 0, NEW k \in 1 .. Train!Count(t)
      PROVE  Multiplied(t, o, y, u)[k] = 0
  <2> DEFINE g == f(k)
             K == 1 .. d
  <2>1. \A i \in K : g[i] = 0
    BY <1>3, <1>6, OneTimes
  <2>2. g = [i \in K |-> g[i]] /\ Multiplied(t, o, y, u)[k] = Train!Sum(g)
    BY <1>4
  <2> HIDE DEF g, d
  <2>3. IsFiniteSet(K)
    BY <1>1
  <2> HIDE DEF K
  <2>4. Part(g, K) = 0
    BY <2>1, <2>3, PartZero
  <2>5. Train!Sum(g) = Part(g, K)
    BY <2>2, PartSum
  <2> QED BY <2>2, <2>4, <2>5
<1>7. Multiplied(t, o, y, u) = [k \in 1 .. Train!Count(t) |-> Multiplied(t, o, y, u)[k]]
  BY DEF Multiplied
<1>8. Multiplied(t, o, y, u) \in [1 .. Train!Count(t) -> Int]
  BY <1>5, <1>7
<1> QED BY <1>6, <1>8 DEF Naught

\* What the rows of the first operand get.
LEMMA RowsBack ==
  ASSUME NEW t, NEW o, NEW y, Filled(t), Filled(o), Filled(y), o = nodes[t.a],
         y.columns = o.columns, t.rows = o.rows, t.columns = y.rows,
         \/ t.op = "linear" /\ y = nodes[t.b]
         \/ t.op = "mapped" /\ y = Frozen[t.of],
         NEW dy \in [1 .. Train!Count(t) -> Int]
  PROVE  BackTyped(t, "a", o, dy)
<1>1. ASSUME NEW e \in 1 .. Train!Count(o) PROVE Train!Adds(t, "a", e, dy) \in Int
  <2> DEFINE row == Train!Row(e, o.columns)
             column == Train!Column(e, o.columns)
             T == {Train!Element(t, row, j) : j \in 1 .. t.columns}
             v == [k \in T |-> y.data[Train!Element(y, Train!Column(k, t.columns), column)]]
             n == Train!Count(t)
  <2>1. Train!Adds(t, "a", e, dy) = Train!Sum([k \in T |-> dy[k] * v[k]])
    <3>1. CASE t.op = "linear" /\ y = nodes[t.b]
      BY <3>1 DEF Train!Adds
    <3>2. CASE t.op = "mapped" /\ y = Frozen[t.of]
      <4>1. Train!Adds(t, "a", e, dy)
              = Train!Sum([k \in T |-> dy[k] * y.data[Train!Element(o, Train!Column(k, t.columns), column)]])
        BY <3>2 DEF Train!Adds
      <4>2. \A r, j : Train!Element(o, r, j) = Train!Element(y, r, j)
        BY DEF Train!Element
      <4> QED BY <4>1, <4>2
    <3> QED BY <3>1, <3>2
  <2>2. row \in 1 .. t.rows /\ column \in 1 .. y.columns
    BY TensorLaid
  <2>3. \A j \in 1 .. t.columns : /\ Train!Element(t, row, j) \in 1 .. n
                                  /\ Train!Column(Train!Element(t, row, j), t.columns) = j
    BY <2>2, TensorLaid
  <2>4. \A k \in T : Train!Column(k, t.columns) \in 1 .. y.rows
    BY <2>3
  <2>5. v \in [T -> Int]
    <3>1. \A k \in T : Train!Element(y, Train!Column(k, t.columns), column) \in 1 .. Train!Count(y)
      BY <2>2, <2>4, TensorLaid
    <3>2. y.data \in [1 .. Train!Count(y) -> Int]
      BY TensorLaid
    <3> QED BY <3>1, <3>2
  <2>6. T \in SUBSET (1 .. n) /\ n \in Nat /\ dy \in [1 .. n -> Int]
    BY <2>3, TensorLaid
  <2> HIDE DEF T, v, n
  <2>7. Train!Sum([k \in T |-> dy[k] * v[k]]) \in Int
    BY <2>5, <2>6, SumOver
  <2> QED BY <2>1, <2>7
<1> QED BY <1>1 DEF BackTyped, Back

\* What the rows of the second one get.
LEMMA ColumnsBack ==
  ASSUME NEW t, NEW o, NEW y, Filled(t), Filled(o), Filled(y), o = nodes[t.a], y = nodes[t.b],
         y.columns = o.columns, t.rows = o.rows, t.columns = y.rows, t.op = "linear",
         NEW dy \in [1 .. Train!Count(t) -> Int]
  PROVE  BackTyped(t, "b", y, dy)
<1>1. ASSUME NEW e \in 1 .. Train!Count(y) PROVE Train!Adds(t, "b", e, dy) \in Int
  <2> DEFINE row == Train!Row(e, y.columns)
             column == Train!Column(e, y.columns)
             T == {Train!Element(t, m, row) : m \in 1 .. t.rows}
             v == [k \in T |-> o.data[Train!Element(o, Train!Row(k, t.columns), column)]]
             n == Train!Count(t)
  <2>1. Train!Adds(t, "b", e, dy) = Train!Sum([k \in T |-> dy[k] * v[k]])
    BY DEF Train!Adds
  <2>2. row \in 1 .. t.columns /\ column \in 1 .. o.columns
    BY TensorLaid
  <2>3. \A m \in 1 .. t.rows : /\ Train!Element(t, m, row) \in 1 .. n
                               /\ Train!Row(Train!Element(t, m, row), t.columns) = m
    BY <2>2, TensorLaid
  <2>4. \A k \in T : Train!Row(k, t.columns) \in 1 .. o.rows
    BY <2>3
  <2>5. v \in [T -> Int]
    <3>1. \A k \in T : Train!Element(o, Train!Row(k, t.columns), column) \in 1 .. Train!Count(o)
      BY <2>2, <2>4, TensorLaid
    <3>2. o.data \in [1 .. Train!Count(o) -> Int]
      BY TensorLaid
    <3> QED BY <3>1, <3>2
  <2>6. T \in SUBSET (1 .. n) /\ n \in Nat /\ dy \in [1 .. n -> Int]
    BY <2>3, TensorLaid
  <2> HIDE DEF T, v, n
  <2>7. Train!Sum([k \in T |-> dy[k] * v[k]]) \in Int
    BY <2>5, <2>6, SumOver
  <2> QED BY <2>1, <2>7
<1> QED BY <1>1 DEF BackTyped, Back

LEMMA MappedFlow ==
  ASSUME NEW t, NEW a, NEW b, NEW ha, NEW hb, Operation(t, a, b, ha, hb), t.op = "mapped",
         a = nodes[t.a], NEW dy \in [1 .. Train!Count(t) -> Int]
  PROVE  /\ Derives(t, a, b, ha, hb)
         /\ BackTyped(t, "a", a, dy)
         /\ Flows(t, a, b, ha, hb, dy)
<1> DEFINE n == Train!Count(t)
           y == Frozen[t.of]
           v == Multiplied(t, a, y, ha)
<1>1. Filled(t) /\ Filled(a) /\ ha \in [1 .. Train!Count(a) -> Int]
  BY DEF Operation
<1>2. t.of \in DOMAIN Frozen /\ y.columns = a.columns /\ t.rows = a.rows /\ t.columns = y.rows
  BY DEF Operation, Follows
<1>3. Filled(y) /\ t.op \notin Binaries
  BY <1>2, TapeAssumption DEF TapeAssumption, Binaries
<1>4. Change(t, a, b, ha, hb) = v
  <2>1. Change(t, a, b, ha, hb) = Train!Value(t, a, ha, b, hb)
    BY DEF Change
  <2>2. Train!Value(t, a, ha, b, hb)
          = [k \in 1 .. n |->
               Train!Sum([i \in 1 .. a.columns |-> ha[Train!Element(a, Train!Row(k, t.columns), i)]
                                                   * y.data[Train!Element(a, Train!Column(k, t.columns), i)]])]
    BY DEF Train!Value
  <2>3. \A r, j : Train!Element(a, r, j) = Train!Element(y, r, j)
    BY <1>2 DEF Train!Element
  <2> HIDE DEF y
  <2> QED BY <2>1, <2>2, <2>3 DEF Multiplied
<1> HIDE DEF y
<1>5. v \in [1 .. n -> Int] /\ (Naught(Train!Count(a), ha) => Naught(n, v))
  <2>1. Filled(t) /\ Filled(a) /\ Filled(y) /\ t.rows = a.rows /\ t.columns = y.rows /\ y.columns = a.columns
    BY <1>1, <1>2, <1>3
  <2> QED BY <1>1, <2>1, MultipliedType
<1>6. t.op = "mapped" /\ y = Frozen[t.of]
  BY DEF y
<1>7. Dual(1 .. n, dy, v, 1 .. Train!Count(a), Back(t, "a", a, dy), ha)
  BY <1>1, <1>2, <1>3, <1>6, RowsFlow
<1>8. Derives(t, a, b, ha, hb)
  BY <1>4, <1>5 DEF Derives
<1>9. BackTyped(t, "a", a, dy)
  BY <1>1, <1>2, <1>3, <1>6, RowsBack
<1>10. Inner(Train!Count(a), Back(t, "a", a, dy), ha) \in Int
  BY <1>1, <1>9, InnerType, TensorLaid DEF BackTyped
<1> HIDE DEF v
<1>11. Flows(t, a, b, ha, hb, dy)
  BY <1>1, <1>3, <1>4, <1>7, <1>10, OneFlow
<1> QED BY <1>8, <1>9, <1>11

\* Rows of o times rows of u.
Times(t, o, y, u) ==
  [k \in 1 .. Train!Count(t) |->
     Train!Sum([i \in 1 .. o.columns |-> o.data[Train!Element(o, Train!Row(k, t.columns), i)]
                                         * u[Train!Element(y, Train!Column(k, t.columns), i)]])]

LEMMA TimesType ==
  ASSUME NEW t, NEW o, NEW y, NEW u, Filled(t), Filled(o), Filled(y), t.rows = o.rows, t.columns = y.rows,
         y.columns = o.columns, u \in [1 .. Train!Count(y) -> Int]
  PROVE  /\ Times(t, o, y, u) \in [1 .. Train!Count(t) -> Int]
         /\ Naught(Train!Count(y), u) => Naught(Train!Count(t), Times(t, o, y, u))
<1> DEFINE d == o.columns
           f(k) == [i \in 1 .. d |-> o.data[Train!Element(o, Train!Row(k, t.columns), i)]
                                     * u[Train!Element(y, Train!Column(k, t.columns), i)]]
<1>1. d \in Nat \ {0} /\ IsFiniteSet(1 .. d)
  BY FS_Interval DEF Filled
<1>2. \A k \in 1 .. Train!Count(t) : Train!Row(k, t.columns) \in 1 .. o.rows /\ Train!Column(k, t.columns) \in 1 .. y.rows
  BY TensorLaid
<1>3. ASSUME NEW k \in 1 .. Train!Count(t), NEW i \in 1 .. d
      PROVE  /\ Train!Element(y, Train!Column(k, t.columns), i) \in 1 .. Train!Count(y)
             /\ o.data[Train!Element(o, Train!Row(k, t.columns), i)] \in Int
             /\ u[Train!Element(y, Train!Column(k, t.columns), i)] \in Int
  <2>1. /\ Train!Element(o, Train!Row(k, t.columns), i) \in 1 .. Train!Count(o)
        /\ Train!Element(y, Train!Column(k, t.columns), i) \in 1 .. Train!Count(y)
    BY <1>2, TensorLaid
  <2>2. o.data \in [1 .. Train!Count(o) -> Int]
    BY TensorLaid
  <2> QED BY <2>1, <2>2
<1>4. ASSUME NEW k \in 1 .. Train!Count(t) PROVE Times(t, o, y, u)[k] = Train!Sum(f(k)) /\ f(k) \in [1 .. d -> Int]
  <2>1. \A i \in 1 .. d : f(k)[i] \in Int
    BY <1>3, ProductLaws
  <2>2. Times(t, o, y, u)[k] = Train!Sum(f(k))
    BY DEF Times
  <2> QED BY <2>1, <2>2
<1>5. ASSUME NEW k \in 1 .. Train!Count(t) PROVE Times(t, o, y, u)[k] \in Int
  <2> DEFINE g == f(k)
  <2>1. g \in [1 .. d -> Int] /\ Times(t, o, y, u)[k] = Train!Sum(g)
    BY <1>4
  <2> HIDE DEF g, d
  <2> QED BY <1>1, <2>1, SumType
<1>6. ASSUME \A k \in 1 .. Train!Count(y) : u[k] = 0, NEW k \in 1 .. Train!Count(t)
      PROVE  Times(t, o, y, u)[k] = 0
  <2> DEFINE g == f(k)
             K == 1 .. d
  <2>1. \A i \in K : g[i] = 0
    BY <1>3, <1>6, OneTimes
  <2>2. g = [i \in K |-> g[i]] /\ Times(t, o, y, u)[k] = Train!Sum(g)
    BY <1>4
  <2> HIDE DEF g, d
  <2>3. IsFiniteSet(K)
    BY <1>1
  <2> HIDE DEF K
  <2>4. Part(g, K) = 0
    BY <2>1, <2>3, PartZero
  <2>5. Train!Sum(g) = Part(g, K)
    BY <2>2, PartSum
  <2> QED BY <2>2, <2>4, <2>5
<1>7. Times(t, o, y, u) = [k \in 1 .. Train!Count(t) |-> Times(t, o, y, u)[k]]
  BY DEF Times
<1>8. Times(t, o, y, u) \in [1 .. Train!Count(t) -> Int]
  BY <1>5, <1>7
<1> QED BY <1>6, <1>8 DEF Naught

LEMMA LinearDerives ==
  ASSUME NEW t, NEW a, NEW b, NEW ha, NEW hb, Operation(t, a, b, ha, hb), t.op = "linear"
  PROVE  /\ \A k \in 1 .. Train!Count(t) :
              Change(t, a, b, ha, hb)[k] = Multiplied(t, a, b, ha)[k] + Times(t, a, b, hb)[k]
         /\ Multiplied(t, a, b, ha) \in [1 .. Train!Count(t) -> Int]
         /\ Times(t, a, b, hb) \in [1 .. Train!Count(t) -> Int]
         /\ Derives(t, a, b, ha, hb)
<1> DEFINE n == Train!Count(t)
           v == Multiplied(t, a, b, ha)
           w == Times(t, a, b, hb)
<1>1. /\ Filled(t) /\ Filled(a) /\ Filled(b) /\ a.columns = b.columns /\ t.rows = a.rows /\ t.columns = b.rows
      /\ ha \in [1 .. Train!Count(a) -> Int] /\ hb \in [1 .. Train!Count(b) -> Int]
  BY DEF Operation, Follows
<1>2. Train!Value(t, a, ha, b, b.data) = v /\ Train!Value(t, a, a.data, b, hb) = w
  BY DEF Train!Value, Multiplied, Times
<1>3. Change(t, a, b, ha, hb) = [k \in 1 .. n |-> v[k] + w[k]]
  BY <1>2 DEF Change
<1>4. /\ v \in [1 .. n -> Int] /\ (Naught(Train!Count(a), ha) => Naught(n, v))
      /\ w \in [1 .. n -> Int] /\ (Naught(Train!Count(b), hb) => Naught(n, w))
  BY <1>1, MultipliedType, TimesType
<1> HIDE DEF v, w
<1>5. Derives(t, a, b, ha, hb)
  BY <1>3, <1>4 DEF Derives, Naught
<1>6. \A k \in 1 .. n : Change(t, a, b, ha, hb)[k] = v[k] + w[k]
  BY <1>3
<1> QED BY <1>4, <1>5, <1>6 DEF v, w

LEMMA LinearFlow ==
  ASSUME NEW t, NEW a, NEW b, NEW ha, NEW hb, Operation(t, a, b, ha, hb), t.op = "linear",
         a = nodes[t.a], b = nodes[t.b], NEW dy \in [1 .. Train!Count(t) -> Int]
  PROVE  Flows(t, a, b, ha, hb, dy)
<1> DEFINE n == Train!Count(t)
           v == Multiplied(t, a, b, ha)
           w == Times(t, a, b, hb)
           c == Change(t, a, b, ha, hb)
<1>1. /\ Filled(t) /\ Filled(a) /\ Filled(b) /\ b.columns = a.columns /\ t.rows = a.rows /\ t.columns = b.rows
      /\ ha \in [1 .. Train!Count(a) -> Int] /\ hb \in [1 .. Train!Count(b) -> Int]
  BY DEF Operation, Follows
<1>2. Dual(1 .. n, dy, v, 1 .. Train!Count(a), Back(t, "a", a, dy), ha)
  BY <1>1, RowsFlow
<1>3. Dual(1 .. n, dy, w, 1 .. Train!Count(b), Back(t, "b", b, dy), hb)
  BY <1>1, ColumnsFlow DEF Times
<1>4. v \in [1 .. n -> Int] /\ w \in [1 .. n -> Int] /\ \A k \in 1 .. n : c[k] = v[k] + w[k]
  BY LinearDerives
<1>5. n \in Nat /\ dy \in [1 .. n -> Int]
  BY <1>1, TensorLaid
<1> HIDE DEF n, v, w, c
<1>6. Inner(n, dy, c) = Inner(n, dy, v) + Inner(n, dy, w)
  <2>1. Added(n, dy, v, w, c)
    BY <1>4, <1>5 DEF Added
  <2> QED BY <2>1, InnerAdd
<1>7. /\ Inner(n, dy, v) = Inner(Train!Count(a), Back(t, "a", a, dy), ha)
      /\ Inner(n, dy, w) = Inner(Train!Count(b), Back(t, "b", b, dy), hb)
  BY <1>2, <1>3 DEF Dual, Inner
<1> QED BY <1>6, <1>7 DEF Flows, Binaries, n, c

LEMMA EveryFlow ==
  ASSUME NEW t, NEW a, NEW b, NEW ha, NEW hb, Operation(t, a, b, ha, hb), a = nodes[t.a], b = nodes[t.b],
         NEW dy \in [1 .. Train!Count(t) -> Int]
  PROVE  /\ Derives(t, a, b, ha, hb)
         /\ Flows(t, a, b, ha, hb, dy)
         /\ BackTyped(t, "a", a, dy)
         /\ t.op \in Binaries => BackTyped(t, "b", b, dy)
<1>1. Filled(t) /\ Filled(a) /\ Filled(b) /\ Follows(t, a, b)
  BY DEF Operation
<1>2. t["a"] = t.a /\ t["b"] = t.b /\ t[Other("a")] = t.b /\ t[Other("b")] = t.a
  BY DEF Other
<1>3. t.op \in {"add", "mul", "scale", "reshape", "slice", "embed", "linear", "mapped"}
  BY <1>1 DEF Follows
<1>4. CASE t.op \in {"add", "mul"}
  <2>1. Spread(t, a) /\ Spread(t, b)
    BY <1>1, <1>4, BothSpread
  <2>2. BackTyped(t, "a", a, dy) /\ BackTyped(t, "b", b, dy)
    BY <1>1, <1>2, <1>4, <2>1, AddBack
  <2>3. Derives(t, a, b, ha, hb) /\ Flows(t, a, b, ha, hb, dy)
    BY <1>4, AddDerives, AddFlow, MulDerives, MulFlow
  <2> QED BY <2>2, <2>3
<1>5. CASE t.op = "linear"
  <2>1. b.columns = a.columns /\ t.rows = a.rows /\ t.columns = b.rows
    BY <1>1, <1>5 DEF Follows
  <2>2. BackTyped(t, "a", a, dy)
    BY <1>1, <1>5, <2>1, RowsBack
  <2>3. BackTyped(t, "b", b, dy)
    BY <1>1, <1>5, <2>1, ColumnsBack
  <2>4. Derives(t, a, b, ha, hb) /\ Flows(t, a, b, ha, hb, dy)
    BY <1>5, LinearDerives, LinearFlow
  <2> QED BY <2>2, <2>3, <2>4
<1>6. CASE t.op \in {"scale", "reshape", "slice", "embed", "mapped"}
  <2>1. t.op \notin Binaries
    BY <1>6 DEF Binaries
  <2>2. CASE t.op \in {"scale", "reshape"}
    BY <2>1, <2>2, ScaleFlow
  <2>3. CASE t.op = "slice"
    BY <2>1, <2>3, SliceFlow
  <2>4. CASE t.op = "embed"
    BY <2>1, <2>4, EmbedFlow
  <2>5. CASE t.op = "mapped"
    BY <2>1, <2>5, MappedFlow
  <2> QED BY <1>6, <2>2, <2>3, <2>4, <2>5
<1> QED BY <1>3, <1>4, <1>5, <1>6

-----------------------------------------------------------------------------
(* The graph of the tape and the derivatives of its nodes.                 *)

\* Node i of a graph, for evaluation or not.
Node(ns, ev, i) ==
  LET t == ns[i]
  IN  /\ Filled(t) /\ t.learns \in BOOLEAN /\ (ev => ~t.learns)
      /\ \/ t.op = "input" /\ ~t.learns
         \/ /\ t.op = "leaf" /\ t.of \in DOMAIN Parameters /\ (ev \/ t.learns)
            /\ t.rows = Parameters[t.of].rows /\ t.columns = Parameters[t.of].columns
         \/ /\ t.a \in 1 .. i - 1 /\ t.b \in 1 .. i - 1 /\ Follows(t, ns[t.a], ns[t.b])
            /\ (ns[t.a].learns \/ ns[t.b].learns => ev \/ t.learns)

\* A graph: what a node refers to comes before it.
Graph(ns, ev) == /\ ev \in BOOLEAN /\ \E S : ns \in Seq(S)
                 /\ \A i \in 1 .. Len(ns) : Node(ns, ev, i)

\* The derivative of node i for element e of parameter p, from those of its operands.
Rule(ns, p, e, h, i) ==
  LET t == ns[i]
  IN  IF t.op \in {"input", "leaf"}
      THEN [k \in 1 .. Train!Count(t) |-> IF t.op = "leaf" /\ t.of = p /\ k = e THEN 1 ELSE 0]
      ELSE Change(t, ns[t.a], ns[t.b], h[t.a], h[t.b])

\* The derivatives of all nodes.
Tangents(ns, p, e, h) == h = [i \in 1 .. Len(ns) |-> Rule(ns, p, e, h, i)]

LEMMA FollowsOps ==
  ASSUME NEW t, NEW a, NEW b, Follows(t, a, b)
  PROVE  t.op \in {"add", "mul", "scale", "reshape", "slice", "embed", "linear", "mapped"}
  BY DEF Follows

LEMMA GraphLen == ASSUME NEW ns, NEW ev, Graph(ns, ev) PROVE Len(ns) \in Nat
<1>1. PICK S : ns \in Seq(S)
  BY DEF Graph
<1> QED BY <1>1

\* An operation comes after its operands.
LEMMA OperandsBefore ==
  ASSUME NEW ns, NEW ev, Graph(ns, ev), NEW i \in 1 .. Len(ns), ns[i].op \notin {"input", "leaf"}
  PROVE  /\ ns[i].a \in 1 .. i - 1 /\ ns[i].b \in 1 .. i - 1
         /\ ns[i].a \in 1 .. Len(ns) /\ ns[i].b \in 1 .. Len(ns)
         /\ Follows(ns[i], ns[ns[i].a], ns[ns[i].b])
         /\ (ns[ns[i].a].learns \/ ns[ns[i].b].learns => ev \/ ns[i].learns)
<1>1. Node(ns, ev, i)
  BY DEF Graph
<1>2. /\ ns[i].a \in 1 .. i - 1 /\ ns[i].b \in 1 .. i - 1 /\ Follows(ns[i], ns[ns[i].a], ns[ns[i].b])
      /\ (ns[ns[i].a].learns \/ ns[ns[i].b].learns => ev \/ ns[i].learns)
  BY <1>1 DEF Node
<1>3. Len(ns) \in Nat
  BY GraphLen
<1>4. ns[i].a \in 1 .. Len(ns) /\ ns[i].b \in 1 .. Len(ns)
  BY <1>2, <1>3
<1> QED BY <1>2, <1>4

LEMMA NodeFilled ==
  ASSUME NEW ns, NEW ev, Graph(ns, ev), NEW i \in 1 .. Len(ns)
  PROVE  /\ Filled(ns[i]) /\ ns[i].learns \in BOOLEAN /\ (ev => ~ns[i].learns)
         /\ (ns[i].op = "input" => ~ns[i].learns)
         /\ (ns[i].op = "leaf" => /\ ns[i].of \in DOMAIN Parameters /\ (ev \/ ns[i].learns)
                                  /\ ns[i].rows = Parameters[ns[i].of].rows
                                  /\ ns[i].columns = Parameters[ns[i].of].columns)
<1>1. Node(ns, ev, i)
  BY DEF Graph
<1>2. \A t, a, b : Follows(t, a, b) => t.op # "input" /\ t.op # "leaf"
  BY FollowsOps
<1> QED BY <1>1, <1>2 DEF Node

\* What does not learn has no derivative.
Derivative(ns, ev, h, i) ==
  /\ h[i] \in [1 .. Train!Count(ns[i]) -> Int]
  /\ ~ev /\ ~ns[i].learns => Naught(Train!Count(ns[i]), h[i])

\* All derivatives are integers, and nothing for what does not learn.
LEMMA TangentsTyped ==
  ASSUME NEW ev, Graph(nodes, ev), NEW p, NEW e, NEW h, Tangents(nodes, p, e, h)
  PROVE  \A i \in 1 .. Len(nodes) : Derivative(nodes, ev, h, i)
<1> DEFINE Bad == {i \in 1 .. Len(nodes) : ~Derivative(nodes, ev, h, i)}
<1>1. SUFFICES ASSUME Bad # {} PROVE FALSE
  OBVIOUS
<1>2. PICK n \in Bad : \A m \in Bad : n <= m
  <2>1. Bad \subseteq Nat
    BY GraphLen
  <2> HIDE DEF Bad
  <2> QED BY <1>1, <2>1, LeastElement
<1>3. n \in 1 .. Len(nodes) /\ Len(nodes) \in Nat /\ ~Derivative(nodes, ev, h, n)
  BY GraphLen
<1>4. h[n] = Rule(nodes, p, e, h, n)
  BY <1>3 DEF Tangents
<1>5. CASE nodes[n].op \in {"input", "leaf"}
  <2> DEFINE t == nodes[n]
             f == [k \in 1 .. Train!Count(t) |-> IF t.op = "leaf" /\ t.of = p /\ k = e THEN 1 ELSE 0]
  <2>1. h[n] = f
    BY <1>4, <1>5 DEF Rule
  <2>2. f \in [1 .. Train!Count(t) -> Int]
    OBVIOUS
  <2>3. ASSUME ~ev, ~t.learns PROVE Naught(Train!Count(t), f)
    <3>1. t.op # "leaf"
      BY <1>3, <2>3, NodeFilled
    <3> QED BY <3>1 DEF Naught
  <2> HIDE DEF f
  <2> QED BY <1>3, <2>1, <2>2, <2>3 DEF Derivative
<1>6. CASE nodes[n].op \notin {"input", "leaf"}
  <2> DEFINE t == nodes[n]
             a == nodes[t.a]
             b == nodes[t.b]
  <2>1. /\ t.a \in 1 .. n - 1 /\ t.b \in 1 .. n - 1 /\ t.a \in 1 .. Len(nodes) /\ t.b \in 1 .. Len(nodes)
        /\ Follows(t, a, b) /\ (a.learns \/ b.learns => ev \/ t.learns)
    BY <1>3, <1>6, OperandsBefore
  <2>2. t.a \notin Bad /\ t.b \notin Bad
    <3>1. ~(n <= t.a) /\ ~(n <= t.b)
      BY <1>3, <2>1
    <3> QED BY <1>2, <3>1
  <2>3. Derivative(nodes, ev, h, t.a) /\ Derivative(nodes, ev, h, t.b)
    BY <2>1, <2>2
  <2>4. /\ Filled(t) /\ Filled(a) /\ Filled(b) /\ a.learns \in BOOLEAN /\ b.learns \in BOOLEAN
    BY <1>3, <2>1, NodeFilled
  <2>5. Operation(t, a, b, h[t.a], h[t.b])
    BY <2>1, <2>3, <2>4 DEF Operation, Derivative
  <2>6. h[n] = Change(t, a, b, h[t.a], h[t.b])
    BY <1>4, <1>6 DEF Rule
  <2>7. Derives(t, a, b, h[t.a], h[t.b])
    <3>1. t.data \in [1 .. Train!Count(t) -> Int]
      BY <2>4, TensorLaid
    <3> QED BY <2>5, <3>1, EveryFlow
  <2>8. ASSUME ~ev, ~t.learns
        PROVE  Naught(Train!Count(a), h[t.a]) /\ Naught(Train!Count(b), h[t.b])
    <3>1. ~a.learns /\ ~b.learns
      BY <2>1, <2>8
    <3> QED BY <2>3, <2>8, <3>1 DEF Derivative
  <2> HIDE DEF a, b
  <2> QED BY <1>3, <2>6, <2>7, <2>8 DEF Derives, Derivative
<1> QED BY <1>5, <1>6

LEMMA RuleLocal ==
  ASSUME NEW ns, NEW ev, Graph(ns, ev), NEW p, NEW e, NEW g, NEW h, NEW i \in 1 .. Len(ns),
         \A j \in 1 .. i - 1 : g[j] = h[j]
  PROVE  Rule(ns, p, e, g, i) = Rule(ns, p, e, h, i)
<1>1. CASE ns[i].op \in {"input", "leaf"}
  BY <1>1 DEF Rule
<1>2. CASE ns[i].op \notin {"input", "leaf"}
  <2>1. g[ns[i].a] = h[ns[i].a] /\ g[ns[i].b] = h[ns[i].b]
    BY <1>2, OperandsBefore
  <2> QED BY <1>2, <2>1 DEF Rule
<1> QED BY <1>1, <1>2

\* The recursion has a solution: the operands of a node come before it.
LEMMA TangentsExist ==
  ASSUME NEW ns, NEW ev, Graph(ns, ev), NEW p, NEW e
  PROVE  \E h : Tangents(ns, p, e, h)
<1> DEFINE Upto(m, h) == h = [i \in 1 .. m |-> Rule(ns, p, e, h, i)]
           Bad == {m \in 0 .. Len(ns) : ~ \E h : Upto(m, h)}
<1>1. Len(ns) \in Nat
  BY GraphLen
<1>2. ASSUME Bad # {} PROVE FALSE
  <2>1. PICK n \in Bad : \A m \in Bad : n <= m
    <3>1. Bad \subseteq Nat
      OBVIOUS
    <3> HIDE DEF Bad
    <3> QED BY <1>2, <3>1, LeastElement
  <2>2. n \in 0 .. Len(ns) /\ ~ \E h : Upto(n, h)
    OBVIOUS
  <2>3. CASE n = 0
    <3> DEFINE h == [i \in 1 .. 0 |-> 0]
    <3>1. h = [i \in 1 .. 0 |-> Rule(ns, p, e, h, i)]
      OBVIOUS
    <3> HIDE DEF h
    <3>2. Upto(0, h)
      BY <3>1
    <3> QED BY <2>2, <2>3, <3>2
  <2>4. CASE n # 0
    <3>1. n - 1 \in 0 .. Len(ns) /\ ~(n <= n - 1) /\ n \in 1 .. Len(ns)
      BY <1>1, <2>2, <2>4
    <3>2. n - 1 \notin Bad
      BY <2>1, <3>1
    <3>3. PICK h : Upto(n - 1, h)
      BY <3>1, <3>2
    <3> DEFINE g == [i \in 1 .. n |-> IF i = n THEN Rule(ns, p, e, h, n) ELSE h[i]]
    <3>4. \A i \in 1 .. n - 1 : g[i] = h[i] /\ h[i] = Rule(ns, p, e, h, i)
      <4>1. \A i \in 1 .. n - 1 : h[i] = Rule(ns, p, e, h, i)
        BY <3>3
      <4>2. \A i \in 1 .. n - 1 : i \in 1 .. n /\ i # n
        BY <3>1
      <4> QED BY <4>1, <4>2
    <3>5. g[n] = Rule(ns, p, e, h, n) /\ g = [i \in 1 .. n |-> g[i]]
      BY <3>1
    <3> HIDE DEF g
    <3>6. ASSUME NEW i \in 1 .. n PROVE g[i] = Rule(ns, p, e, g, i)
      <4>1. i \in 1 .. Len(ns) /\ \A j \in 1 .. i - 1 : j \in 1 .. n - 1
        BY <1>1, <3>1
      <4>2. \A j \in 1 .. i - 1 : g[j] = h[j]
        BY <3>4, <4>1
      <4>3. Rule(ns, p, e, g, i) = Rule(ns, p, e, h, i)
        BY <4>1, <4>2, RuleLocal
      <4>4. i = n \/ i \in 1 .. n - 1
        BY <3>1
      <4> QED BY <3>4, <3>5, <4>3, <4>4
    <3>7. g = [i \in 1 .. n |-> Rule(ns, p, e, g, i)]
      BY <3>5, <3>6
    <3>8. Upto(n, g)
      BY <3>7
    <3> QED BY <2>2, <3>8
  <2> QED BY <2>3, <2>4
<1>3. Len(ns) \in 0 .. Len(ns) /\ Len(ns) \notin Bad
  BY <1>1, <1>2
<1>4. PICK h : Upto(Len(ns), h)
  BY <1>3
<1> QED BY <1>4 DEF Tangents

\* What Tangent says is a solution.
LEMMA TangentIs ==
  ASSUME NEW ev, Graph(nodes, ev), NEW p, NEW e
  PROVE  \E h : Tangents(nodes, p, e, h) /\ Train!Tangent(p, e) = h[loss][1]
<1> DEFINE Solution == CHOOSE h : h = [i \in 1 .. Len(nodes) |-> Rule(nodes, p, e, h, i)]
<1>1. \E h : h = [i \in 1 .. Len(nodes) |-> Rule(nodes, p, e, h, i)]
  BY TangentsExist DEF Tangents
<1>2. Solution = [i \in 1 .. Len(nodes) |-> Rule(nodes, p, e, Solution, i)]
  BY <1>1
<1>3. Train!Tangent(p, e) = Solution[loss][1]
  BY DEF Train!Tangent, Rule, Change
<1>4. Tangents(nodes, p, e, Solution)
  BY <1>2 DEF Tangents
<1> QED BY <1>3, <1>4

-----------------------------------------------------------------------------
(* The walk.                                                               *)

\* The cell of a node's gradient, and those that a graph has.
CellOf(ns, i) == IF ns[i].op = "leaf" THEN <<"parameter", ns[i].of>> ELSE <<"node", i>>

\* The node has a gradient of its own.
Owned(ns, i) == ns[i].learns /\ ns[i].op # "leaf"

\* There is a gradient for each parameter and for each node that owns one.
Gradients(ns, g) ==
  /\ DOMAIN g = ({"parameter"} \X DOMAIN Parameters) \cup {<<"node", i>> : i \in {j \in 1 .. Len(ns) : Owned(ns, j)}}
  /\ \A p \in DOMAIN Parameters : g[<<"parameter", p>>] \in [1 .. Train!Count(Parameters[p]) -> Int]
  /\ \A i \in 1 .. Len(ns) : Owned(ns, i) => g[<<"node", i>>] \in [1 .. Train!Count(ns[i]) -> Int]

\* What is still to come of node j, and of the nodes up to n.
Pull(ns, h, g, j) == IF Owned(ns, j) THEN Inner(Train!Count(ns[j]), g[<<"node", j>>], h[j]) ELSE 0
Pending(ns, h, g, n) == Part([j \in 1 .. n |-> Pull(ns, h, g, j)], 1 .. n)
\* What element e of parameter p has, and what is still to come to it.
Worth(ns, p, e, h, g, n) == g[<<"parameter", p>>][e] + Pending(ns, h, g, n)

\* f is g, but for one cell, to which more is added.
Raised(g, f, cell, n, more) ==
  /\ DOMAIN f = DOMAIN g /\ \A c \in DOMAIN g : c # cell => f[c] = g[c]
  /\ f[cell] = [x \in 1 .. n |-> g[cell][x] + more[x]]

LEMMA InnerSwap ==
  ASSUME NEW n \in Nat, NEW f \in [1 .. n -> Int], NEW g \in [1 .. n -> Int]
  PROVE  Inner(n, f, g) = Inner(n, g, f)
<1>1. \A k \in 1 .. n : f[k] * g[k] = g[k] * f[k]
  BY ProductLaws
<1>2. [k \in 1 .. n |-> f[k] * g[k]] = [k \in 1 .. n |-> g[k] * f[k]]
  BY <1>1
<1> QED BY <1>2 DEF Inner

LEMMA InnerMore ==
  ASSUME NEW n, NEW f, NEW g, NEW h, NEW w, Added(n, f, g, h, w), w \in [1 .. n -> Int]
  PROVE  Inner(n, w, f) = Inner(n, g, f) + Inner(n, h, f)
<1>0. n \in Nat /\ f \in [1 .. n -> Int] /\ g \in [1 .. n -> Int] /\ h \in [1 .. n -> Int]
  BY DEF Added
<1> USE <1>0
<1>1. Inner(n, f, w) = Inner(n, f, g) + Inner(n, f, h)
  BY InnerAdd
<1>2. Inner(n, f, w) = Inner(n, w, f) /\ Inner(n, f, g) = Inner(n, g, f) /\ Inner(n, f, h) = Inner(n, h, f)
  BY InnerSwap
<1> QED BY <1>1, <1>2

LEMMA InnerNaught ==
  ASSUME NEW n \in Nat, NEW f \in [1 .. n -> Int], NEW g, Naught(n, g)
  PROVE  Inner(n, f, g) = 0 /\ Inner(n, g, f) = 0
<1> DEFINE K == 1 .. n
           v == [k \in K |-> f[k] * g[k]]
           w == [k \in K |-> g[k] * f[k]]
<1>1. \A k \in K : v[k] = 0 /\ w[k] = 0
  BY OneTimes DEF Naught
<1>2. IsFiniteSet(K)
  BY FS_Interval
<1> HIDE DEF K, v, w
<1>3. Part(v, K) = 0 /\ Part(w, K) = 0
  BY <1>1, <1>2, PartZero
<1> QED BY <1>3 DEF Inner, K, v, w

LEMMA CellTyped ==
  ASSUME NEW ns, NEW ev, Graph(ns, ev), NEW g, Gradients(ns, g), NEW i \in 1 .. Len(ns), ns[i].learns
  PROVE  CellOf(ns, i) \in DOMAIN g /\ g[CellOf(ns, i)] \in [1 .. Train!Count(ns[i]) -> Int]
<1>1. CASE ns[i].op = "leaf"
  <2>1. /\ ns[i].of \in DOMAIN Parameters /\ ns[i].rows = Parameters[ns[i].of].rows
        /\ ns[i].columns = Parameters[ns[i].of].columns
    BY <1>1, NodeFilled
  <2>2. Train!Count(ns[i]) = Train!Count(Parameters[ns[i].of])
    BY <2>1 DEF Train!Count
  <2> QED BY <1>1, <2>1, <2>2 DEF CellOf, Gradients
<1>2. CASE ns[i].op # "leaf"
  BY <1>2 DEF CellOf, Gradients, Owned
<1> QED BY <1>1, <1>2

LEMMA PullType ==
  ASSUME NEW ns, NEW ev, Graph(ns, ev), NEW g, Gradients(ns, g), NEW h, NEW i \in 1 .. Len(ns),
         Derivative(ns, ev, h, i)
  PROVE  Pull(ns, h, g, i) \in Int
<1>1. CASE Owned(ns, i)
  <2>1. Train!Count(ns[i]) \in Nat
    BY NodeFilled, TensorLaid
  <2>2. g[<<"node", i>>] \in [1 .. Train!Count(ns[i]) -> Int] /\ h[i] \in [1 .. Train!Count(ns[i]) -> Int]
    BY <1>1 DEF Gradients, Derivative
  <2> QED BY <1>1, <2>1, <2>2, InnerType DEF Pull
<1>2. CASE ~Owned(ns, i)
  BY <1>2 DEF Pull
<1> QED BY <1>1, <1>2

\* Changed gradients are gradients.
LEMMA RaisedTyped ==
  ASSUME NEW ns, NEW ev, Graph(ns, ev), NEW g, Gradients(ns, g), NEW f, NEW o \in 1 .. Len(ns), ns[o].learns,
         NEW more \in [1 .. Train!Count(ns[o]) -> Int], Raised(g, f, CellOf(ns, o), Train!Count(ns[o]), more)
  PROVE  Gradients(ns, f)
<1> DEFINE cell == CellOf(ns, o)
           n == Train!Count(ns[o])
<1>1. g[cell] \in [1 .. n -> Int] /\ cell \in DOMAIN g
  BY CellTyped
<1>2. /\ DOMAIN f = DOMAIN g /\ \A c \in DOMAIN g : c # cell => f[c] = g[c]
      /\ f[cell] = [x \in 1 .. n |-> g[cell][x] + more[x]]
  BY DEF Raised
<1>3. f[cell] \in [1 .. n -> Int]
  BY <1>1, <1>2
<1> HIDE DEF cell, n
<1>4. ASSUME NEW c \in DOMAIN g PROVE f[c] = g[c] \/ (f[c] \in [1 .. n -> Int] /\ g[c] \in [1 .. n -> Int])
  BY <1>1, <1>2, <1>3
<1>5. ASSUME NEW c \in DOMAIN g, NEW m, g[c] \in [1 .. m -> Int] PROVE f[c] \in [1 .. m -> Int]
  <2>1. CASE f[c] = g[c]
    BY <1>5, <2>1
  <2>2. CASE f[c] \in [1 .. n -> Int] /\ g[c] \in [1 .. n -> Int]
    <3>1. 1 .. m = 1 .. n
      BY <1>5, <2>2
    <3> QED BY <2>2, <3>1
  <2> QED BY <1>4, <2>1, <2>2
<1>6. ASSUME NEW p \in DOMAIN Parameters PROVE f[<<"parameter", p>>] \in [1 .. Train!Count(Parameters[p]) -> Int]
  <2>1. <<"parameter", p>> \in DOMAIN g /\ g[<<"parameter", p>>] \in [1 .. Train!Count(Parameters[p]) -> Int]
    BY DEF Gradients
  <2> QED BY <1>5, <2>1
<1>7. ASSUME NEW i \in 1 .. Len(ns), Owned(ns, i) PROVE f[<<"node", i>>] \in [1 .. Train!Count(ns[i]) -> Int]
  <2>1. <<"node", i>> \in DOMAIN g /\ g[<<"node", i>>] \in [1 .. Train!Count(ns[i]) -> Int]
    BY <1>7 DEF Gradients
  <2> QED BY <1>5, <2>1
<1> QED BY <1>2, <1>6, <1>7 DEF Gradients

\* h are the derivatives of a graph for element e of parameter p.
Deriving(ns, ev, p, e, h) ==
  /\ Graph(ns, ev) /\ p \in DOMAIN Parameters /\ e \in 1 .. Train!Count(Parameters[p])
  /\ Tangents(ns, p, e, h) /\ \A i \in 1 .. Len(ns) : Derivative(ns, ev, h, i)

\* Element k.
Entry(f, k) == f[k]

\* For what is added to the gradient of a leaf: the derivative of the leaf is one
\* for the element itself.
LEMMA LeafInner ==
  ASSUME NEW ns, NEW ev, NEW p, NEW e, NEW h, Deriving(ns, ev, p, e, h),
         NEW o \in 1 .. Len(ns), ns[o].op = "leaf", NEW more \in [1 .. Train!Count(ns[o]) -> Int]
  PROVE  /\ ns[o].of = p => Inner(Train!Count(ns[o]), more, h[o]) = Entry(more, e)
         /\ ns[o].of # p => Inner(Train!Count(ns[o]), more, h[o]) = 0
<1> DEFINE n == Train!Count(ns[o])
           K == 1 .. n
           v == [k \in K |-> more[k] * h[o][k]]
<1>5. /\ Graph(ns, ev) /\ p \in DOMAIN Parameters /\ e \in 1 .. Train!Count(Parameters[p])
      /\ Tangents(ns, p, e, h)
  BY DEF Deriving
<1>1. Filled(ns[o]) /\ n \in Nat /\ IsFiniteSet(K)
  <2>1. Filled(ns[o])
    BY <1>5, NodeFilled
  <2> QED BY <2>1, TensorLaid
<1>2. h[o] = [k \in K |-> IF ns[o].of = p /\ k = e THEN 1 ELSE 0]
  <2>1. h[o] = Rule(ns, p, e, h, o)
    BY <1>5 DEF Tangents
  <2> QED BY <2>1 DEF Rule
<1>3. CASE ns[o].of = p
  <2>1. ns[o].rows = Parameters[p].rows /\ ns[o].columns = Parameters[p].columns
    BY <1>3, <1>5, NodeFilled
  <2>2. e \in K
    BY <1>5, <2>1 DEF Train!Count
  <2>3. \A k \in K : v[k] = IF k = e THEN more[k] ELSE 0
    BY <1>2, <1>3, OneTimes
  <2>4. more[e] \in Int
    BY <2>2
  <2> HIDE DEF K, v
  <2>5. Part(v, K) = v[e]
    BY <1>1, <2>2, <2>3, <2>4, PartSingle
  <2>6. Part(v, K) = more[e]
    BY <2>2, <2>3, <2>5
  <2> QED BY <1>3, <2>6 DEF Inner, Entry, K, v
<1>4. CASE ns[o].of # p
  <2>1. Naught(n, h[o])
    BY <1>2, <1>4 DEF Naught
  <2> QED BY <1>1, <1>4, <2>1, InnerNaught
<1> QED BY <1>3, <1>4

\* What is still to come of all nodes but o.
Rest(ns, h, g, n, o) == Part([j \in 1 .. n |-> Pull(ns, h, g, j)], (1 .. n) \ {o})

LEMMA PendingFrom ==
  ASSUME NEW ns, NEW h, NEW g, NEW n \in Nat, NEW o \in 1 .. n, \A j \in 1 .. n : Pull(ns, h, g, j) \in Int
  PROVE  /\ Pending(ns, h, g, n) = Pull(ns, h, g, o) + Rest(ns, h, g, n, o)
         /\ Rest(ns, h, g, n, o) \in Int /\ Pending(ns, h, g, n) \in Int
<1> DEFINE K == 1 .. n
           v == [j \in K |-> Pull(ns, h, g, j)]
<1>1. \A j \in K : v[j] \in Int /\ v[j] = Pull(ns, h, g, j)
  OBVIOUS
<1>2. IsFiniteSet(K) /\ o \in K
  BY FS_Interval
<1> HIDE DEF K, v
<1>3. Part(v, K) = v[o] + Part(v, K \ {o})
  BY <1>1, <1>2, PartFrom
<1>4. IsFiniteSet(K \ {o})
  BY <1>2, FS_Subset
<1>5. Part(v, K \ {o}) \in Int
  BY <1>1, <1>4, PartType
<1>6. v[o] \in Int
  BY <1>1, <1>2
<1>7. Part(v, K) \in Int
  BY <1>3, <1>5, <1>6
<1> QED BY <1>1, <1>2, <1>3, <1>5, <1>7 DEF Pending, Rest, v, K

\* f is g, but that node o got more; n of the nodes are still to come.
Raising(ns, ev, p, e, h, g, f, n, o, more) ==
  /\ Deriving(ns, ev, p, e, h) /\ Gradients(ns, g) /\ n \in 0 .. Len(ns) /\ o \in 1 .. n
  /\ ns[o].learns /\ more \in [1 .. Train!Count(ns[o]) -> Int]
  /\ Raised(g, f, CellOf(ns, o), Train!Count(ns[o]), more)

LEMMA RaisedWorth ==
  ASSUME NEW ns, NEW ev, NEW p, NEW e, NEW h, NEW g, NEW f, NEW n, NEW o, NEW more,
         Raising(ns, ev, p, e, h, g, f, n, o, more)
  PROVE  Worth(ns, p, e, h, f, n) = Worth(ns, p, e, h, g, n) + Inner(Train!Count(ns[o]), more, h[o])
<1> DEFINE cell == CellOf(ns, o)
           c == Train!Count(ns[o])
           P(x) == <<"parameter", x>>
           N(j) == <<"node", j>>
<1>0. /\ Deriving(ns, ev, p, e, h) /\ Gradients(ns, g) /\ n \in 0 .. Len(ns) /\ o \in 1 .. n
      /\ ns[o].learns /\ more \in [1 .. Train!Count(ns[o]) -> Int]
      /\ Raised(g, f, CellOf(ns, o), Train!Count(ns[o]), more)
  BY DEF Raising
<1> USE <1>0
<1>9. /\ Graph(ns, ev) /\ p \in DOMAIN Parameters /\ e \in 1 .. Train!Count(Parameters[p])
      /\ Tangents(ns, p, e, h) /\ \A i \in 1 .. Len(ns) : Derivative(ns, ev, h, i)
  BY DEF Deriving
<1>1. Len(ns) \in Nat /\ n \in Nat /\ o \in 1 .. Len(ns) /\ \A j \in 1 .. n : j \in 1 .. Len(ns)
  BY <1>9, GraphLen
<1>2. Gradients(ns, f)
  BY <1>1, <1>9, RaisedTyped
<1>3. /\ \A d \in DOMAIN g : d # cell => f[d] = g[d]
      /\ f[cell] = [x \in 1 .. c |-> g[cell][x] + more[x]]
  BY DEF Raised
<1>4. \A j \in 1 .. n : Pull(ns, h, g, j) \in Int /\ Pull(ns, h, f, j) \in Int
  BY <1>1, <1>2, <1>9, PullType
<1>5. c \in Nat /\ h[o] \in [1 .. c -> Int] /\ g[cell] \in [1 .. c -> Int]
  <2>1. Filled(ns[o])
    BY <1>1, <1>9, NodeFilled
  <2>2. c \in Nat
    BY <2>1, TensorLaid
  <2>3. g[cell] \in [1 .. c -> Int]
    BY <1>1, <1>9, CellTyped
  <2> QED BY <1>1, <1>9, <2>2, <2>3 DEF Derivative
<1>6. P(p) \in DOMAIN g /\ g[P(p)][e] \in Int
  BY <1>9 DEF Gradients
<1>7. CASE ns[o].op = "leaf"
  <2>1. cell = P(ns[o].of)
    BY <1>7 DEF CellOf
  <2>2. ASSUME NEW j \in 1 .. n PROVE Pull(ns, h, f, j) = Pull(ns, h, g, j)
    <3>1. CASE Owned(ns, j)
      <4>1. N(j) \in DOMAIN g /\ N(j) # cell
        BY <1>1, <2>1, <3>1 DEF Gradients
      <4>2. f[N(j)] = g[N(j)]
        BY <1>3, <4>1
      <4> QED BY <4>2 DEF Pull
    <3>2. CASE ~Owned(ns, j)
      BY <3>2 DEF Pull
    <3> QED BY <3>1, <3>2
  <2>3. [j \in 1 .. n |-> Pull(ns, h, f, j)] = [j \in 1 .. n |-> Pull(ns, h, g, j)]
    BY <2>2
  <2>4. Pending(ns, h, f, n) = Pending(ns, h, g, n)
    BY <2>3 DEF Pending
  <2>5. Pending(ns, h, g, n) \in Int
    BY <1>1, <1>4, PendingFrom
  <2>6. /\ ns[o].of = p => Inner(c, more, h[o]) = Entry(more, e)
        /\ ns[o].of # p => Inner(c, more, h[o]) = 0
    <3>1. o \in 1 .. Len(ns) /\ more \in [1 .. Train!Count(ns[o]) -> Int]
      BY <1>1
    <3> QED BY <1>7, <3>1, LeafInner
  <2>7. CASE ns[o].of = p
    <3>1. e \in 1 .. c
      <4>1. ns[o].rows = Parameters[p].rows /\ ns[o].columns = Parameters[p].columns
        BY <1>1, <1>7, <1>9, <2>7, NodeFilled
      <4> QED BY <1>9, <4>1 DEF Train!Count
    <3>2. f[P(p)][e] = g[P(p)][e] + more[e] /\ more[e] \in Int
      BY <1>3, <2>1, <2>7, <3>1
    <3>3. Inner(c, more, h[o]) = more[e]
      BY <2>6, <2>7 DEF Entry
    <3> HIDE DEF c
    <3> QED BY <1>6, <2>4, <2>5, <3>2, <3>3 DEF Worth, c
  <2>8. CASE ns[o].of # p
    <3>1. P(p) # cell
      BY <2>1, <2>8
    <3>2. f[P(p)] = g[P(p)] /\ Inner(c, more, h[o]) = 0
      BY <1>3, <1>6, <2>6, <2>8, <3>1
    <3>3. Worth(ns, p, e, h, g, n) \in Int
      BY <1>6, <2>5 DEF Worth
    <3>4. Worth(ns, p, e, h, f, n) = Worth(ns, p, e, h, g, n)
      BY <2>4, <3>2 DEF Worth
    <3> QED BY <3>2, <3>3, <3>4
  <2> QED BY <2>7, <2>8
<1>8. CASE ns[o].op # "leaf"
  <2>1. cell = N(o) /\ Owned(ns, o)
    BY <1>8 DEF CellOf, Owned
  <2>2. f[P(p)] = g[P(p)]
    BY <1>3, <1>6, <2>1
  <2> DEFINE F == [j \in 1 .. n |-> Pull(ns, h, f, j)]
             G == [j \in 1 .. n |-> Pull(ns, h, g, j)]
             rest == (1 .. n) \ {o}
  <2>3. ASSUME NEW j \in rest PROVE F[j] = G[j]
    <3>1. CASE Owned(ns, j)
      <4>1. N(j) \in DOMAIN g /\ N(j) # cell
        BY <1>1, <2>1, <3>1 DEF Gradients
      <4>2. f[N(j)] = g[N(j)]
        BY <1>3, <4>1
      <4>3. Pull(ns, h, f, j) = Pull(ns, h, g, j)
        BY <4>2 DEF Pull
      <4> QED BY <4>3
    <3>2. CASE ~Owned(ns, j)
      BY <3>2 DEF Pull
    <3> QED BY <3>1, <3>2
  <2>4. Pull(ns, h, f, o) = Pull(ns, h, g, o) + Inner(c, more, h[o])
    <3>1. f[N(o)] \in [1 .. c -> Int] /\ \A x \in 1 .. c : f[N(o)][x] = g[N(o)][x] + more[x]
      <4>1. \A x \in 1 .. c : f[cell][x] = g[cell][x] + more[x]
        BY <1>3
      <4>2. f[N(o)] \in [1 .. c -> Int]
        BY <1>1, <1>2, <2>1 DEF Gradients
      <4> QED BY <2>1, <4>1, <4>2
    <3>2. Inner(c, f[N(o)], h[o]) = Inner(c, g[N(o)], h[o]) + Inner(c, more, h[o])
      <4>1. g[N(o)] \in [1 .. c -> Int] /\ more \in [1 .. c -> Int]
        BY <1>5, <2>1
      <4>2. c \in Nat /\ h[o] \in [1 .. c -> Int]
        BY <1>5
      <4> HIDE DEF c
      <4>3. Added(c, h[o], g[N(o)], more, f[N(o)])
        BY <3>1, <4>1, <4>2 DEF Added
      <4> QED BY <3>1, <4>3, InnerMore
    <3> QED BY <2>1, <3>2 DEF Pull
  <2>5. /\ Pending(ns, h, f, n) = Pull(ns, h, f, o) + Rest(ns, h, f, n, o)
        /\ Pending(ns, h, g, n) = Pull(ns, h, g, o) + Rest(ns, h, g, n, o) /\ Rest(ns, h, g, n, o) \in Int
    BY <1>1, <1>4, PendingFrom
  <2> HIDE DEF F, G, rest
  <2>6. Rest(ns, h, f, n, o) = Rest(ns, h, g, n, o)
    <3>1. Part(F, rest) = Part(G, rest)
      BY <2>3, PartSame
    <3> QED BY <3>1 DEF Rest, F, G, rest
  <2>7. Inner(c, more, h[o]) \in Int /\ Pull(ns, h, g, o) \in Int
    <3>1. more \in [1 .. c -> Int]
      OBVIOUS
    <3> HIDE DEF c
    <3> QED BY <1>4, <1>5, <3>1, InnerType
  <2> HIDE DEF c
  <2>8. Pending(ns, h, f, n) = Pending(ns, h, g, n) + Inner(c, more, h[o]) /\ Pending(ns, h, g, n) \in Int
    BY <2>4, <2>5, <2>6, <2>7
  <2> QED BY <1>6, <2>2, <2>7, <2>8 DEF Worth, c
<1> QED BY <1>7, <1>8

LEMMA PendingStep ==
  ASSUME NEW ns, NEW h, NEW g, NEW n \in Nat \ {0}, \A j \in 1 .. n : Pull(ns, h, g, j) \in Int
  PROVE  /\ Pending(ns, h, g, n) = Pending(ns, h, g, n - 1) + Pull(ns, h, g, n)
         /\ Pending(ns, h, g, n - 1) \in Int
<1> DEFINE F == [j \in 1 .. n |-> Pull(ns, h, g, j)]
           G == [j \in 1 .. n - 1 |-> Pull(ns, h, g, j)]
           K == 1 .. n - 1
<1>1. Pending(ns, h, g, n) = Pull(ns, h, g, n) + Rest(ns, h, g, n, n) /\ Rest(ns, h, g, n, n) \in Int
  <2>1. n \in 1 .. n /\ n \in Nat
    OBVIOUS
  <2> QED BY <2>1, PendingFrom
<1>2. (1 .. n) \ {n} = K
  OBVIOUS
<1>3. \A j \in K : F[j] = G[j]
  OBVIOUS
<1>4. Rest(ns, h, g, n, n) = Part(F, K) /\ Pending(ns, h, g, n - 1) = Part(G, K)
  BY <1>2 DEF Rest, Pending
<1> HIDE DEF F, G, K
<1>5. Part(F, K) = Part(G, K)
  BY <1>3, PartSame
<1>6. Pull(ns, h, g, n) \in Int
  OBVIOUS
<1> QED BY <1>1, <1>4, <1>5, <1>6

\* f and g have the same gradients.
Same(ns, g, f) == Gradients(ns, g) /\ DOMAIN f = DOMAIN g /\ \A c \in DOMAIN g : f[c] = g[c]

LEMMA WorthSame ==
  ASSUME NEW ns, NEW g, NEW f, Same(ns, g, f), NEW p \in DOMAIN Parameters, NEW e, NEW h,
         NEW n, n \in 0 .. Len(ns), Len(ns) \in Nat
  PROVE  Gradients(ns, f) /\ Worth(ns, p, e, h, f, n) = Worth(ns, p, e, h, g, n)
<1>0. Gradients(ns, g) /\ DOMAIN f = DOMAIN g /\ \A c \in DOMAIN g : f[c] = g[c]
  BY DEF Same
<1> USE <1>0
<1>1. \A q \in DOMAIN Parameters : <<"parameter", q>> \in DOMAIN g /\ f[<<"parameter", q>>] = g[<<"parameter", q>>]
  BY DEF Gradients
<1>2. \A i \in 1 .. Len(ns) : Owned(ns, i) => <<"node", i>> \in DOMAIN g /\ f[<<"node", i>>] = g[<<"node", i>>]
  BY DEF Gradients
<1>3. Gradients(ns, f)
  BY <1>1, <1>2 DEF Gradients
<1>4. Worth(ns, p, e, h, f, n) = Worth(ns, p, e, h, g, n)
  <2>1. ASSUME NEW j \in 1 .. n PROVE Pull(ns, h, f, j) = Pull(ns, h, g, j)
    <3>1. j \in 1 .. Len(ns)
      OBVIOUS
    <3> QED BY <1>2, <3>1 DEF Pull
  <2>2. [j \in 1 .. n |-> Pull(ns, h, f, j)] = [j \in 1 .. n |-> Pull(ns, h, g, j)]
    BY <2>1
  <2> QED BY <1>1, <2>2 DEF Worth, Pending
<1> QED BY <1>3, <1>4

\* What is added for the operands, of two at most.
LEMMA PairSum ==
  ASSUME NEW T \in SUBSET {"a", "b"}, NEW f, \A x \in T : f[x] \in Int
  PROVE  Train!Sum([x \in T |-> f[x]])
           = (IF "a" \in T THEN f["a"] ELSE 0) + (IF "b" \in T THEN f["b"] ELSE 0)
<1>1. Train!Sum([x \in T |-> f[x]]) = Part(f, T)
  BY DEF Part
<1>2. IsFiniteSet({"a"}) /\ IsFiniteSet({"b"}) /\ "a" # "b"
  BY FS_Singleton
<1>3. Part(f, {}) = 0
  BY PartNone
<1>4. CASE T = {}
  BY <1>1, <1>3, <1>4
<1>5. CASE T = {"a"}
  <2>1. Part(f, {"a"}) = f["a"]
    <3>1. "a" \in {"a"} /\ f["a"] \in Int
      BY <1>5
    <3> QED BY <1>2, <3>1, PartSingle
  <2>2. "a" \in T /\ "b" \notin T /\ f["a"] \in Int
    BY <1>2, <1>5
  <2> QED BY <1>1, <1>5, <2>1, <2>2
<1>6. CASE T = {"b"}
  <2>1. Part(f, {"b"}) = f["b"]
    <3>1. "b" \in {"b"} /\ f["b"] \in Int
      BY <1>6
    <3> QED BY <1>2, <3>1, PartSingle
  <2>2. "b" \in T /\ "a" \notin T /\ f["b"] \in Int
    BY <1>2, <1>6
  <2> QED BY <1>1, <1>6, <2>1, <2>2
<1>7. CASE T = {"a", "b"}
  <2>1. f["a"] \in Int /\ f["b"] \in Int /\ {"b"} \cup {"a"} = T /\ "a" \notin {"b"}
    BY <1>2, <1>7
  <2>2. Part(f, {"b"} \cup {"a"}) = f["a"] + Part(f, {"b"})
    <3>1. \A y \in {"b"} \cup {"a"} : f[y] \in Int
      BY <2>1
    <3> QED BY <1>2, <2>1, <3>1, PartGrows
  <2>3. Part(f, {"b"}) = f["b"]
    <3>1. "b" \in {"b"} /\ \A y \in {"b"} \ {"b"} : f[y] = 0
      OBVIOUS
    <3> QED BY <1>2, <2>1, <3>1, PartSingle
  <2>4. "a" \in T /\ "b" \in T
    BY <1>7
  <2> QED BY <1>1, <2>1, <2>2, <2>3, <2>4
<1>8. T = {} \/ T = {"a"} \/ T = {"b"} \/ T = {"a", "b"}
  OBVIOUS
<1> QED BY <1>4, <1>5, <1>6, <1>7, <1>8

\* The operands that get something.
LEMMA SidesAre ==
  ASSUME NEW t
  PROVE  /\ t.op \in {"input", "leaf"} => Train!Sides(t) = {}
         /\ t.op \notin {"input", "leaf"} =>
              /\ Train!Sides(t) \subseteq {"a", "b"}
              /\ ("a" \in Train!Sides(t) <=> nodes[t.a].learns)
              /\ ("b" \in Train!Sides(t) <=> t.op \in Binaries /\ nodes[t.b].learns)
<1>1. t["a"] = t.a /\ t["b"] = t.b /\ "a" # "b"
  OBVIOUS
<1>2. ASSUME t.op \in {"input", "leaf"} PROVE Train!Sides(t) = {}
  BY <1>2 DEF Train!Sides
<1>3. ASSUME t.op \notin {"input", "leaf"}
      PROVE  /\ Train!Sides(t) \subseteq {"a", "b"}
             /\ ("a" \in Train!Sides(t) <=> nodes[t.a].learns)
             /\ ("b" \in Train!Sides(t) <=> t.op \in Binaries /\ nodes[t.b].learns)
  BY <1>1, <1>3 DEF Train!Sides, Binaries
<1> QED BY <1>2, <1>3

\* A step of the walk adds to one cell after the other.
Plus(g, cell, more) == [c \in DOMAIN g |-> IF c = cell THEN [x \in DOMAIN g[c] |-> g[c][x] + more[x]] ELSE g[c]]

\* The gradients after the first operand of t got its part, and after the second.
First(t, dy) == IF nodes[t.a].learns
                THEN Plus(gradient, CellOf(nodes, t.a), Back(t, "a", nodes[t.a], dy)) ELSE gradient

Second(t, dy) == IF t.op \in Binaries /\ nodes[t.b].learns
                 THEN Plus(First(t, dy), CellOf(nodes, t.b), Back(t, "b", nodes[t.b], dy)) ELSE First(t, dy)

LEMMA PlusRaises ==
  ASSUME NEW ns, NEW ev, Graph(ns, ev), NEW g, Gradients(ns, g), NEW o \in 1 .. Len(ns), ns[o].learns,
         NEW more
  PROVE  Raised(g, Plus(g, CellOf(ns, o), more), CellOf(ns, o), Train!Count(ns[o]), more)
<1> DEFINE cell == CellOf(ns, o)
           n == Train!Count(ns[o])
<1>1. cell \in DOMAIN g /\ g[cell] \in [1 .. n -> Int]
  BY CellTyped
<1> HIDE DEF cell, n
<1>2. DOMAIN g[cell] = 1 .. n
  BY <1>1
<1> QED BY <1>1, <1>2 DEF Raised, Plus, cell, n

\* Every cell holds integers.
LEMMA CellsTyped ==
  ASSUME NEW ns, NEW g, Gradients(ns, g), NEW c \in DOMAIN g
  PROVE  g[c] = [x \in DOMAIN g[c] |-> g[c][x]] /\ \A x \in DOMAIN g[c] : g[c][x] \in Int
<1>1. CASE c \in {"parameter"} \X DOMAIN Parameters
  <2>1. PICK p \in DOMAIN Parameters : c = <<"parameter", p>>
    BY <1>1
  <2>2. g[c] \in [1 .. Train!Count(Parameters[p]) -> Int]
    BY <2>1 DEF Gradients
  <2> QED BY <2>2
<1>2. CASE c \in {<<"node", i>> : i \in {j \in 1 .. Len(ns) : Owned(ns, j)}}
  <2>1. PICK i \in 1 .. Len(ns) : Owned(ns, i) /\ c = <<"node", i>>
    BY <1>2
  <2>2. g[c] \in [1 .. Train!Count(ns[i]) -> Int]
    BY <2>1 DEF Gradients
  <2> QED BY <2>2
<1> QED BY <1>1, <1>2 DEF Gradients

\* The sides of t that add to cell c.
SidesOf(t, c) == {side \in Train!Sides(t) : Train!Cell(t[side]) = c}

LEMMA SidesOfAre ==
  ASSUME NEW t, t.op \notin {"input", "leaf"}, NEW c
  PROVE  /\ SidesOf(t, c) \in SUBSET {"a", "b"}
         /\ ("a" \in SidesOf(t, c) <=> nodes[t.a].learns /\ CellOf(nodes, t.a) = c)
         /\ ("b" \in SidesOf(t, c) <=> t.op \in Binaries /\ nodes[t.b].learns /\ CellOf(nodes, t.b) = c)
<1>1. /\ Train!Sides(t) \subseteq {"a", "b"}
      /\ ("a" \in Train!Sides(t) <=> nodes[t.a].learns)
      /\ ("b" \in Train!Sides(t) <=> t.op \in Binaries /\ nodes[t.b].learns)
  BY SidesAre
<1>2. Train!Cell(t["a"]) = CellOf(nodes, t.a) /\ Train!Cell(t["b"]) = CellOf(nodes, t.b)
  BY DEF Train!Cell, CellOf
<1>3. SidesOf(t, c) \in SUBSET {"a", "b"}
  BY <1>1 DEF SidesOf
<1>4. "a" \in SidesOf(t, c) <=> nodes[t.a].learns /\ CellOf(nodes, t.a) = c
  BY <1>1, <1>2 DEF SidesOf
<1>5. "b" \in SidesOf(t, c) <=> t.op \in Binaries /\ nodes[t.b].learns /\ CellOf(nodes, t.b) = c
  BY <1>1, <1>2 DEF SidesOf
<1> QED BY <1>3, <1>4, <1>5

\* What an element gets of both sides.
LEMMA ElementGets ==
  ASSUME NEW t, t.op \notin {"input", "leaf"}, NEW dy, NEW c, NEW e,
         nodes[t.a].learns /\ CellOf(nodes, t.a) = c => Train!Adds(t, "a", e, dy) \in Int,
         t.op \in Binaries /\ nodes[t.b].learns /\ CellOf(nodes, t.b) = c => Train!Adds(t, "b", e, dy) \in Int
  PROVE  Train!Sum([side \in SidesOf(t, c) |-> Train!Adds(t, side, e, dy)])
           = (IF nodes[t.a].learns /\ CellOf(nodes, t.a) = c THEN Train!Adds(t, "a", e, dy) ELSE 0)
             + (IF t.op \in Binaries /\ nodes[t.b].learns /\ CellOf(nodes, t.b) = c
                THEN Train!Adds(t, "b", e, dy) ELSE 0)
<1> DEFINE T == SidesOf(t, c)
           f == [side \in {"a", "b"} |-> Train!Adds(t, side, e, dy)]
<1>1. /\ T \in SUBSET {"a", "b"}
      /\ ("a" \in T <=> nodes[t.a].learns /\ CellOf(nodes, t.a) = c)
      /\ ("b" \in T <=> t.op \in Binaries /\ nodes[t.b].learns /\ CellOf(nodes, t.b) = c)
  BY SidesOfAre
<1>2. f["a"] = Train!Adds(t, "a", e, dy) /\ f["b"] = Train!Adds(t, "b", e, dy)
  OBVIOUS
<1>3. \A side \in T : side = "a" \/ side = "b"
  BY <1>1
<1>4. \A side \in T : f[side] = Train!Adds(t, side, e, dy)
  BY <1>2, <1>3
<1>5. [side \in T |-> Train!Adds(t, side, e, dy)] = [side \in T |-> f[side]]
  BY <1>4
<1> HIDE DEF T, f
<1>6. \A x \in T : f[x] \in Int
  BY <1>1, <1>2, <1>3
<1>7. Train!Sum([x \in T |-> f[x]]) = (IF "a" \in T THEN f["a"] ELSE 0) + (IF "b" \in T THEN f["b"] ELSE 0)
  BY <1>1, <1>6, PairSum
<1> QED BY <1>1, <1>2, <1>5, <1>7 DEF T

LEMMA AccumulateAs ==
  ASSUME NEW ev, Graph(nodes, ev), Gradients(nodes, gradient), NEW t, NEW dy,
         t.op \notin {"input", "leaf"}, t.a \in 1 .. Len(nodes), t.b \in 1 .. Len(nodes),
         BackTyped(t, "a", nodes[t.a], dy), t.op \in Binaries => BackTyped(t, "b", nodes[t.b], dy),
         NEW c \in DOMAIN gradient
  PROVE  Train!Accumulate(t, dy)[c] = Second(t, dy)[c]
<1> DEFINE A == nodes[t.a].learns /\ CellOf(nodes, t.a) = c
           B == t.op \in Binaries /\ nodes[t.b].learns /\ CellOf(nodes, t.b) = c
           D == DOMAIN gradient[c]
           x(e) == IF A THEN Train!Adds(t, "a", e, dy) ELSE 0
           y(e) == IF B THEN Train!Adds(t, "b", e, dy) ELSE 0
<1>1. /\ gradient[c] = [e \in D |-> gradient[c][e]]
      /\ \A e \in D : gradient[c][e] \in Int
  BY CellsTyped
<1>2. ASSUME A PROVE \A e \in D : /\ Train!Adds(t, "a", e, dy) \in Int
                                  /\ Back(t, "a", nodes[t.a], dy)[e] = Train!Adds(t, "a", e, dy)
  <2>1. D = 1 .. Train!Count(nodes[t.a])
    BY <1>2, CellTyped
  <2> QED BY <2>1 DEF BackTyped, Back
<1>3. ASSUME B PROVE \A e \in D : /\ Train!Adds(t, "b", e, dy) \in Int
                                  /\ Back(t, "b", nodes[t.b], dy)[e] = Train!Adds(t, "b", e, dy)
  <2>1. D = 1 .. Train!Count(nodes[t.b])
    BY <1>3, CellTyped
  <2> QED BY <1>3, <2>1 DEF BackTyped, Back
<1>4. Train!Accumulate(t, dy)[c] = [e \in D |-> gradient[c][e] + (x(e) + y(e))]
  <2>1. ASSUME NEW e \in D
        PROVE  Train!Sum([side \in SidesOf(t, c) |-> Train!Adds(t, side, e, dy)]) = x(e) + y(e)
    <3>1. A => Train!Adds(t, "a", e, dy) \in Int
      BY <1>2
    <3>2. B => Train!Adds(t, "b", e, dy) \in Int
      BY <1>3
    <3> HIDE DEF D
    <3> QED BY <3>1, <3>2, ElementGets
  <2>2. Train!Accumulate(t, dy)[c]
          = [e \in D |-> gradient[c][e] + Train!Sum([side \in SidesOf(t, c) |-> Train!Adds(t, side, e, dy)])]
    BY DEF Train!Accumulate, SidesOf
  <2> HIDE DEF x, y
  <2> QED BY <2>1, <2>2
<1>5. First(t, dy)[c] = [e \in D |-> gradient[c][e] + x(e)] /\ c \in DOMAIN First(t, dy)
  <2>1. DOMAIN First(t, dy) = DOMAIN gradient
    BY DEF First, Plus
  <2>2. CASE A
    <3>1. First(t, dy)[c] = [e \in D |-> gradient[c][e] + Back(t, "a", nodes[t.a], dy)[e]]
      BY <2>2 DEF First, Plus
    <3> HIDE DEF D
    <3> QED BY <1>2, <2>1, <2>2, <3>1
  <2>3. CASE ~A
    <3>1. First(t, dy)[c] = gradient[c]
      BY <2>3 DEF First, Plus
    <3>2. \A e \in D : gradient[c][e] + x(e) = gradient[c][e]
      BY <1>1, <2>3
    <3> QED BY <1>1, <2>1, <3>1, <3>2
  <2> QED BY <2>2, <2>3
<1>6. ASSUME NEW e \in D PROVE x(e) \in Int /\ y(e) \in Int
  BY <1>2, <1>3
<1>7. Second(t, dy)[c] = [e \in D |-> (gradient[c][e] + x(e)) + y(e)]
  <2>1. DOMAIN First(t, dy)[c] = D
    BY <1>5
  <2>2. CASE B
    <3>1. Second(t, dy)[c] = [e \in DOMAIN First(t, dy)[c] |-> First(t, dy)[c][e] + Back(t, "b", nodes[t.b], dy)[e]]
      BY <1>5, <2>2 DEF Second, Plus
    <3>2. \A e \in D : Back(t, "b", nodes[t.b], dy)[e] = y(e) /\ First(t, dy)[c][e] = gradient[c][e] + x(e)
      BY <1>3, <1>5, <2>2
    <3> HIDE DEF D, x, y
    <3> QED BY <2>1, <3>1, <3>2
  <2>3. CASE ~B
    <3>1. Second(t, dy)[c] = First(t, dy)[c]
      BY <1>5, <2>3 DEF Second, Plus
    <3>2. \A e \in D : (gradient[c][e] + x(e)) + y(e) = gradient[c][e] + x(e)
      BY <1>1, <1>6, <2>3
    <3> HIDE DEF D, x, y
    <3> QED BY <1>5, <3>1, <3>2
  <2> QED BY <2>2, <2>3
<1>8. \A e \in D : gradient[c][e] + (x(e) + y(e)) = (gradient[c][e] + x(e)) + y(e)
  <2> HIDE DEF x, y, D
  <2> QED BY <1>1, <1>6
<1> HIDE DEF x, y, D
<1> QED BY <1>4, <1>7, <1>8

LEMMA WorthType ==
  ASSUME NEW ns, NEW ev, NEW p, NEW e, NEW h, Deriving(ns, ev, p, e, h), NEW g, Gradients(ns, g),
         NEW n \in 0 .. Len(ns)
  PROVE  Worth(ns, p, e, h, g, n) \in Int
<1>1. /\ Graph(ns, ev) /\ p \in DOMAIN Parameters /\ e \in 1 .. Train!Count(Parameters[p])
      /\ \A i \in 1 .. Len(ns) : Derivative(ns, ev, h, i)
  BY DEF Deriving
<1>2. g[<<"parameter", p>>][e] \in Int
  BY <1>1 DEF Gradients
<1>3. n \in Nat /\ \A j \in 1 .. n : j \in 1 .. Len(ns)
  BY <1>1, GraphLen
<1>4. \A j \in 1 .. n : Pull(ns, h, g, j) \in Int
  BY <1>1, <1>3, PullType
<1> DEFINE F == [j \in 1 .. n |-> Pull(ns, h, g, j)]
           K == 1 .. n
<1>5. \A j \in K : F[j] \in Int
  BY <1>4
<1>6. IsFiniteSet(K)
  BY FS_Interval
<1> HIDE DEF F, K
<1>7. Part(F, K) \in Int
  BY <1>5, <1>6, PartType
<1> QED BY <1>2, <1>7 DEF Worth, Pending, F, K

\* What node o gets, if it has a gradient; if it has none, its derivative is nothing.
Got(ns, g, o, more) == IF ns[o].learns THEN Plus(g, CellOf(ns, o), more) ELSE g

\* Node o gets more; n of the nodes are still to come.
Getting(ns, ev, p, e, h, g, n, o, more) ==
  /\ Deriving(ns, ev, p, e, h) /\ Gradients(ns, g) /\ n \in 0 .. Len(ns) /\ o \in 1 .. n
  /\ more \in [1 .. Train!Count(ns[o]) -> Int]

LEMMA GotWorth ==
  ASSUME NEW ns, NEW ev, ~ev, NEW p, NEW e, NEW h, NEW g, NEW n, NEW o, NEW more, Getting(ns, ev, p, e, h, g, n, o, more)
  PROVE  /\ Gradients(ns, Got(ns, g, o, more)) /\ DOMAIN Got(ns, g, o, more) = DOMAIN g
         /\ Worth(ns, p, e, h, Got(ns, g, o, more), n)
              = Worth(ns, p, e, h, g, n) + Inner(Train!Count(ns[o]), more, h[o])
<1> DEFINE f == Got(ns, g, o, more)
           c == Train!Count(ns[o])
<1>0. /\ Deriving(ns, ev, p, e, h) /\ Gradients(ns, g) /\ n \in 0 .. Len(ns) /\ o \in 1 .. n
      /\ more \in [1 .. Train!Count(ns[o]) -> Int]
  BY DEF Getting
<1> USE <1>0
<1>1. Graph(ns, ev) /\ \A i \in 1 .. Len(ns) : Derivative(ns, ev, h, i)
  BY DEF Deriving
<1>2. o \in 1 .. Len(ns)
  BY <1>1, GraphLen
<1>3. CASE ns[o].learns
  <2>1. f = Plus(g, CellOf(ns, o), more)
    BY <1>3 DEF Got
  <2>2. Raised(g, f, CellOf(ns, o), c, more)
    BY <1>1, <1>2, <1>3, <2>1, PlusRaises
  <2> HIDE DEF f
  <2>3. Gradients(ns, f)
    BY <1>1, <1>2, <1>3, <2>2, RaisedTyped
  <2>4. Worth(ns, p, e, h, f, n) = Worth(ns, p, e, h, g, n) + Inner(c, more, h[o])
    <3>1. Raising(ns, ev, p, e, h, g, f, n, o, more)
      BY <1>3, <2>2 DEF Raising
    <3> QED BY <3>1, RaisedWorth
  <2>5. DOMAIN f = DOMAIN g
    BY <2>2 DEF Raised
  <2> QED BY <2>3, <2>4, <2>5 DEF f
<1>4. CASE ~ns[o].learns
  <2>1. f = g
    BY <1>4 DEF Got
  <2>2. Naught(c, h[o])
    BY <1>1, <1>2, <1>4 DEF Derivative
  <2>3. Filled(ns[o])
    BY <1>1, <1>2, NodeFilled
  <2>4. c \in Nat
    BY <2>3, TensorLaid
  <2>5. Inner(c, more, h[o]) = 0
    <3>1. more \in [1 .. c -> Int]
      OBVIOUS
    <3> HIDE DEF c
    <3> QED BY <2>2, <2>4, <3>1, InnerNaught
  <2>6. Worth(ns, p, e, h, g, n) \in Int
    BY WorthType
  <2> HIDE DEF f, c
  <2>7. Worth(ns, p, e, h, f, n) = Worth(ns, p, e, h, g, n) + Inner(c, more, h[o])
    BY <2>1, <2>5, <2>6
  <2> QED BY <2>1, <2>7 DEF f, c
<1> QED BY <1>3, <1>4

\* The gradients while a node's operands are added to.
LEMMA VisitWorth ==
  ASSUME NEW ev, ~ev, NEW p, NEW e, NEW h, Deriving(nodes, ev, p, e, h), Gradients(nodes, gradient),
         NEW i \in 1 .. Len(nodes), nodes[i].op \notin {"input", "leaf"}, nodes[i].learns
  PROVE  LET dy == gradient[CellOf(nodes, i)]
         IN  /\ Gradients(nodes, Train!Accumulate(nodes[i], dy))
             /\ Worth(nodes, p, e, h, Train!Accumulate(nodes[i], dy), i - 1) = Worth(nodes, p, e, h, gradient, i)
<1> DEFINE t == nodes[i]
           a == nodes[t.a]
           b == nodes[t.b]
           dy == gradient[CellOf(nodes, i)]
           G == Train!Accumulate(t, dy)
           ma == Back(t, "a", a, dy)
           mb == Back(t, "b", b, dy)
           ca == Train!Count(a)
           cb == Train!Count(b)
           c == Train!Count(t)
           n == i - 1
           W(g) == Worth(nodes, p, e, h, g, n)
<1>1. /\ Graph(nodes, ev) /\ Tangents(nodes, p, e, h) /\ p \in DOMAIN Parameters
      /\ \A j \in 1 .. Len(nodes) : Derivative(nodes, ev, h, j)
  BY DEF Deriving
<1>2. /\ t.a \in 1 .. n /\ t.b \in 1 .. n /\ t.a \in 1 .. Len(nodes) /\ t.b \in 1 .. Len(nodes)
      /\ Follows(t, a, b) /\ Len(nodes) \in Nat /\ n \in 0 .. Len(nodes) /\ i \in 0 .. Len(nodes)
      /\ i \in Nat \ {0}
  <2>1. Len(nodes) \in Nat
    BY <1>1, GraphLen
  <2>2. /\ t.a \in 1 .. n /\ t.b \in 1 .. n /\ t.a \in 1 .. Len(nodes) /\ t.b \in 1 .. Len(nodes)
        /\ Follows(t, a, b)
    BY <1>1, OperandsBefore
  <2>3. n \in 0 .. Len(nodes) /\ i \in 0 .. Len(nodes) /\ i \in Nat \ {0}
    BY <2>1
  <2> QED BY <2>1, <2>2, <2>3
<1>3. Filled(t) /\ Filled(a) /\ Filled(b)
  BY <1>1, <1>2, NodeFilled
<1>4. Operation(t, a, b, h[t.a], h[t.b])
  BY <1>1, <1>2, <1>3 DEF Operation, Derivative
<1>5. h[i] = Change(t, a, b, h[t.a], h[t.b])
  <2>1. h[i] = Rule(nodes, p, e, h, i)
    BY <1>1 DEF Tangents
  <2> QED BY <2>1 DEF Rule
<1>6. CellOf(nodes, i) = <<"node", i>> /\ Owned(nodes, i) /\ dy \in [1 .. c -> Int]
  BY DEF CellOf, Owned, Gradients
<1>7. /\ Flows(t, a, b, h[t.a], h[t.b], dy) /\ BackTyped(t, "a", a, dy)
      /\ (t.op \in Binaries => BackTyped(t, "b", b, dy))
  BY <1>4, <1>6, EveryFlow
<1>8. /\ First(t, dy) = Got(nodes, gradient, t.a, ma)
      /\ (t.op \in Binaries => Second(t, dy) = Got(nodes, First(t, dy), t.b, mb))
      /\ (t.op \notin Binaries => Second(t, dy) = First(t, dy))
  BY DEF First, Second, Got
<1>9. \A d \in DOMAIN gradient : G[d] = Second(t, dy)[d]
  <2>1. t.a \in 1 .. Len(nodes) /\ t.b \in 1 .. Len(nodes) /\ t.op \notin {"input", "leaf"}
    BY <1>2
  <2>2. Graph(nodes, ev)
    BY <1>1
  <2>3. BackTyped(t, "a", nodes[t.a], dy) /\ (t.op \in Binaries => BackTyped(t, "b", nodes[t.b], dy))
    BY <1>7
  <2> HIDE DEF dy, t
  <2> QED BY <2>1, <2>2, <2>3, AccumulateAs
<1>10. DOMAIN G = DOMAIN gradient
  BY DEF Train!Accumulate
<1>11. /\ Worth(nodes, p, e, h, gradient, i) = W(gradient) + Inner(c, dy, h[i])
       /\ W(gradient) \in Int
  <2>1. \A j \in 1 .. i : j \in 1 .. Len(nodes)
    BY <1>2
  <2>2. \A j \in 1 .. i : Pull(nodes, h, gradient, j) \in Int
    BY <1>1, <2>1, PullType
  <2>3. /\ Pending(nodes, h, gradient, i) = Pending(nodes, h, gradient, n) + Pull(nodes, h, gradient, i)
        /\ Pending(nodes, h, gradient, n) \in Int
    BY <1>2, <2>2, PendingStep
  <2>4. Pull(nodes, h, gradient, i) = Inner(c, dy, h[i]) /\ Pull(nodes, h, gradient, i) \in Int
    BY <1>2, <1>6, <2>2 DEF Pull
  <2>5. gradient[<<"parameter", p>>][e] \in Int
    BY <1>1 DEF Deriving, Gradients
  <2>6. W(gradient) \in Int
    BY <1>2, WorthType
  <2> HIDE DEF c, dy
  <2>7. Worth(nodes, p, e, h, gradient, i) = W(gradient) + Inner(c, dy, h[i])
    BY <2>3, <2>4, <2>5 DEF Worth
  <2> QED BY <2>6, <2>7
<1>12. /\ Gradients(nodes, First(t, dy)) /\ DOMAIN First(t, dy) = DOMAIN gradient
       /\ W(First(t, dy)) = W(gradient) + Inner(ca, ma, h[t.a])
  <2>1. ma \in [1 .. ca -> Int]
    BY <1>7 DEF BackTyped
  <2>2. n \in 0 .. Len(nodes) /\ t.a \in 1 .. n
    BY <1>2
  <2> HIDE DEF ma, n
  <2>3. /\ Gradients(nodes, Got(nodes, gradient, t.a, ma)) /\ DOMAIN Got(nodes, gradient, t.a, ma) = DOMAIN gradient
        /\ Worth(nodes, p, e, h, Got(nodes, gradient, t.a, ma), n)
             = Worth(nodes, p, e, h, gradient, n) + Inner(Train!Count(nodes[t.a]), ma, h[t.a])
    <3>1. Getting(nodes, ev, p, e, h, gradient, n, t.a, ma)
      BY <2>1, <2>2 DEF Getting
    <3> QED BY <3>1, GotWorth
  <2> QED BY <1>8, <2>3
<1>13. /\ Gradients(nodes, Second(t, dy)) /\ DOMAIN Second(t, dy) = DOMAIN gradient
       /\ W(Second(t, dy)) = W(First(t, dy)) + (IF t.op \in Binaries THEN Inner(cb, mb, h[t.b]) ELSE 0)
  <2>1. CASE t.op \in Binaries
    <3>1. mb \in [1 .. cb -> Int]
      BY <1>7, <2>1 DEF BackTyped
    <3>2. n \in 0 .. Len(nodes) /\ t.b \in 1 .. n
      BY <1>2
    <3> HIDE DEF mb, n
    <3> DEFINE g == First(t, dy)
    <3>3. Gradients(nodes, g) /\ DOMAIN g = DOMAIN gradient /\ Second(t, dy) = Got(nodes, g, t.b, mb)
      BY <1>8, <1>12, <2>1
    <3> HIDE DEF g
    <3>4. /\ Gradients(nodes, Got(nodes, g, t.b, mb)) /\ DOMAIN Got(nodes, g, t.b, mb) = DOMAIN g
          /\ Worth(nodes, p, e, h, Got(nodes, g, t.b, mb), n)
               = Worth(nodes, p, e, h, g, n) + Inner(Train!Count(nodes[t.b]), mb, h[t.b])
      <4>1. Getting(nodes, ev, p, e, h, g, n, t.b, mb)
        BY <3>1, <3>2, <3>3 DEF Getting
      <4> QED BY <4>1, GotWorth
    <3> QED BY <2>1, <3>3, <3>4 DEF g
  <2>2. CASE t.op \notin Binaries
    <3>1. W(First(t, dy)) \in Int
      BY <1>2, <1>12, WorthType
    <3> QED BY <1>8, <1>12, <2>2, <3>1
  <2> QED BY <2>1, <2>2
<1>14. Inner(c, dy, h[i]) = Inner(ca, ma, h[t.a]) + (IF t.op \in Binaries THEN Inner(cb, mb, h[t.b]) ELSE 0)
  BY <1>5, <1>7 DEF Flows
<1>15. Gradients(nodes, G) /\ W(G) = W(Second(t, dy))
  <2> HIDE DEF G, dy
  <2>1. /\ DOMAIN G = DOMAIN Second(t, dy) /\ \A d \in DOMAIN Second(t, dy) : G[d] = Second(t, dy)[d]
    BY <1>9, <1>10, <1>13
  <2>2. p \in DOMAIN Parameters /\ n \in 0 .. Len(nodes) /\ Len(nodes) \in Nat
    BY <1>1, <1>2
  <2> DEFINE g == Second(t, dy)
  <2>3. DOMAIN G = DOMAIN g /\ (\A d \in DOMAIN g : G[d] = g[d]) /\ Gradients(nodes, g)
    BY <1>13, <2>1
  <2> HIDE DEF g
  <2>4. Gradients(nodes, G) /\ Worth(nodes, p, e, h, G, n) = Worth(nodes, p, e, h, g, n)
    <3>1. Same(nodes, g, G)
      BY <2>3 DEF Same
    <3> QED BY <2>2, <3>1, WorthSame
  <2> QED BY <2>4 DEF g
<1>16. Inner(ca, ma, h[t.a]) \in Int /\ (t.op \in Binaries => Inner(cb, mb, h[t.b]) \in Int)
  <2>1. ma \in [1 .. ca -> Int] /\ (t.op \in Binaries => mb \in [1 .. cb -> Int])
    BY <1>7 DEF BackTyped
  <2>2. ca \in Nat /\ cb \in Nat
    BY <1>3, TensorLaid
  <2>3. h[t.a] \in [1 .. ca -> Int] /\ h[t.b] \in [1 .. cb -> Int]
    BY <1>1, <1>2 DEF Derivative
  <2> HIDE DEF ma, mb, ca, cb
  <2> QED BY <2>1, <2>2, <2>3, InnerType
<1> HIDE DEF W, ca, cb, c, ma, mb, G, dy, n
<1>17. W(G) = Worth(nodes, p, e, h, gradient, i)
  BY <1>11, <1>12, <1>13, <1>14, <1>15, <1>16
<1> QED BY <1>15, <1>17 DEF W, G, dy, n

LEMMA GotTyped ==
  ASSUME NEW ns, NEW ev, Graph(ns, ev), NEW g, Gradients(ns, g), NEW o \in 1 .. Len(ns),
         NEW more \in [1 .. Train!Count(ns[o]) -> Int]
  PROVE  Gradients(ns, Got(ns, g, o, more)) /\ DOMAIN Got(ns, g, o, more) = DOMAIN g
<1> DEFINE f == Got(ns, g, o, more)
<1>1. CASE ns[o].learns
  <2>1. f = Plus(g, CellOf(ns, o), more)
    BY <1>1 DEF Got
  <2>2. Raised(g, f, CellOf(ns, o), Train!Count(ns[o]), more)
    BY <1>1, <2>1, PlusRaises
  <2> HIDE DEF f
  <2>3. Gradients(ns, f)
    BY <1>1, <2>2, RaisedTyped
  <2> QED BY <2>2, <2>3 DEF Raised, f
<1>2. CASE ~ns[o].learns
  BY <1>2 DEF Got
<1> QED BY <1>1, <1>2

\* A leaf has no operands, and its derivative is not to come.
LEMMA LeafVisit ==
  ASSUME Gradients(nodes, gradient), NEW t, t.op \in {"input", "leaf"}, NEW dy
  PROVE  Same(nodes, gradient, Train!Accumulate(t, dy))
<1> DEFINE G == Train!Accumulate(t, dy)
<1>1. DOMAIN G = DOMAIN gradient
  BY DEF Train!Accumulate
<1>2. ASSUME NEW c \in DOMAIN gradient PROVE G[c] = gradient[c]
  <2>1. SidesOf(t, c) = {}
    BY SidesAre DEF SidesOf
  <2>2. \A e : [side \in {} |-> Train!Adds(t, side, e, dy)] = [side \in {} |-> 0]
    OBVIOUS
  <2>3. Train!Sum([side \in {} |-> 0]) = 0
    <3> DEFINE z == [side \in {} |-> 0]
    <3>1. z = [x \in {} |-> z[x]]
      OBVIOUS
    <3> HIDE DEF z
    <3>2. Train!Sum(z) = Part(z, {})
      BY <3>1 DEF Part
    <3>3. Part(z, {}) = 0
      BY PartNone
    <3> QED BY <3>2, <3>3 DEF z
  <2>4. G[c] = [e \in DOMAIN gradient[c] |->
                  gradient[c][e] + Train!Sum([side \in SidesOf(t, c) |-> Train!Adds(t, side, e, dy)])]
    BY DEF Train!Accumulate, SidesOf
  <2>5. \A e : Train!Sum([side \in SidesOf(t, c) |-> Train!Adds(t, side, e, dy)]) = 0
    BY <2>1, <2>2, <2>3
  <2>6. gradient[c] = [e \in DOMAIN gradient[c] |-> gradient[c][e]] /\ \A e \in DOMAIN gradient[c] : gradient[c][e] \in Int
    BY CellsTyped
  <2> HIDE DEF G
  <2> QED BY <2>4, <2>5, <2>6
<1> QED BY <1>1, <1>2 DEF Same

\* What is added are integers.
LEMMA AccumulateTyped ==
  ASSUME NEW ev, Graph(nodes, ev), Gradients(nodes, gradient), NEW i \in 1 .. Len(nodes), nodes[i].learns
  PROVE  Gradients(nodes, Train!Accumulate(nodes[i], gradient[CellOf(nodes, i)]))
<1> DEFINE t == nodes[i]
           a == nodes[t.a]
           b == nodes[t.b]
           dy == gradient[CellOf(nodes, i)]
           G == Train!Accumulate(t, dy)
           ma == Back(t, "a", a, dy)
           mb == Back(t, "b", b, dy)
<1>1. CASE t.op \in {"input", "leaf"}
  <2>1. Same(nodes, gradient, G)
    BY <1>1, LeafVisit
  <2>2. DOMAIN G = DOMAIN gradient /\ \A c \in DOMAIN gradient : G[c] = gradient[c]
    BY <2>1 DEF Same
  <2>3. \A p \in DOMAIN Parameters : <<"parameter", p>> \in DOMAIN gradient
    BY DEF Gradients
  <2>4. \A j \in 1 .. Len(nodes) : Owned(nodes, j) => <<"node", j>> \in DOMAIN gradient
    BY DEF Gradients
  <2> HIDE DEF G
  <2> QED BY <2>2, <2>3, <2>4 DEF Gradients, G
<1>2. CASE t.op \notin {"input", "leaf"}
  <2> DEFINE ha == [k \in 1 .. Train!Count(a) |-> 0]
             hb == [k \in 1 .. Train!Count(b) |-> 0]
  <2>1. t.a \in 1 .. Len(nodes) /\ t.b \in 1 .. Len(nodes) /\ Follows(t, a, b)
    BY <1>2, OperandsBefore
  <2>2. Filled(t) /\ Filled(a) /\ Filled(b)
    BY <2>1, NodeFilled
  <2>3. Operation(t, a, b, ha, hb)
    BY <2>1, <2>2 DEF Operation
  <2>4. dy \in [1 .. Train!Count(t) -> Int]
    BY CellTyped
  <2>5. BackTyped(t, "a", a, dy) /\ (t.op \in Binaries => BackTyped(t, "b", b, dy))
    <3> HIDE DEF ha, hb, dy
    <3> QED BY <2>3, <2>4, EveryFlow
  <2>6. /\ First(t, dy) = Got(nodes, gradient, t.a, ma)
        /\ (t.op \in Binaries => Second(t, dy) = Got(nodes, First(t, dy), t.b, mb))
        /\ (t.op \notin Binaries => Second(t, dy) = First(t, dy))
    BY DEF First, Second, Got
  <2>7. \A d \in DOMAIN gradient : G[d] = Second(t, dy)[d]
    <3> HIDE DEF dy, t
    <3> QED BY <1>2, <2>1, <2>5, AccumulateAs
  <2>8. DOMAIN G = DOMAIN gradient
    BY DEF Train!Accumulate
  <2>9. ma \in [1 .. Train!Count(a) -> Int] /\ (t.op \in Binaries => mb \in [1 .. Train!Count(b) -> Int])
    BY <2>5 DEF BackTyped
  <2> HIDE DEF ma, mb, G, dy
  <2>10. Gradients(nodes, First(t, dy)) /\ DOMAIN First(t, dy) = DOMAIN gradient
    BY <2>1, <2>6, <2>9, GotTyped
  <2>11. Gradients(nodes, Second(t, dy)) /\ DOMAIN Second(t, dy) = DOMAIN gradient
    BY <2>1, <2>6, <2>9, <2>10, GotTyped
  <2> DEFINE g == Second(t, dy)
  <2> HIDE DEF g
  <2>12. DOMAIN G = DOMAIN g /\ (\A d \in DOMAIN g : G[d] = g[d]) /\ Gradients(nodes, g)
    BY <2>7, <2>8, <2>11 DEF g
  <2>13. \A p \in DOMAIN Parameters : <<"parameter", p>> \in DOMAIN g
    BY <2>12 DEF Gradients
  <2>14. \A j \in 1 .. Len(nodes) : Owned(nodes, j) => <<"node", j>> \in DOMAIN g
    BY <2>12 DEF Gradients
  <2>15. Gradients(nodes, G)
    BY <2>12, <2>13, <2>14 DEF Gradients
  <2> QED BY <2>15 DEF G, dy
<1> QED BY <1>1, <1>2

\* A visit leaves what the gradients are worth.
LEMMA VisitKeeps ==
  ASSUME NEW ev, NEW p, NEW e, NEW h, Deriving(nodes, ev, p, e, h), Gradients(nodes, gradient),
         NEW i \in 1 .. Len(nodes)
  PROVE  /\ nodes[i].learns =>
              Worth(nodes, p, e, h, Train!Accumulate(nodes[i], gradient[CellOf(nodes, i)]), i - 1)
                = Worth(nodes, p, e, h, gradient, i)
         /\ ~nodes[i].learns => Worth(nodes, p, e, h, gradient, i - 1) = Worth(nodes, p, e, h, gradient, i)
<1> DEFINE G == Train!Accumulate(nodes[i], gradient[CellOf(nodes, i)])
<1>1. /\ Graph(nodes, ev) /\ p \in DOMAIN Parameters /\ e \in 1 .. Train!Count(Parameters[p])
      /\ \A j \in 1 .. Len(nodes) : Derivative(nodes, ev, h, j)
  BY DEF Deriving
<1>2. Len(nodes) \in Nat /\ i - 1 \in 0 .. Len(nodes) /\ i \in Nat \ {0} /\ \A j \in 1 .. i : j \in 1 .. Len(nodes)
  BY <1>1, GraphLen
<1>3. ASSUME ~Owned(nodes, i)
      PROVE  Worth(nodes, p, e, h, gradient, i - 1) = Worth(nodes, p, e, h, gradient, i)
  <2>1. \A j \in 1 .. i : Pull(nodes, h, gradient, j) \in Int
    BY <1>1, <1>2, PullType
  <2>2. /\ Pending(nodes, h, gradient, i) = Pending(nodes, h, gradient, i - 1) + Pull(nodes, h, gradient, i)
        /\ Pending(nodes, h, gradient, i - 1) \in Int
    BY <1>2, <2>1, PendingStep
  <2>3. Pull(nodes, h, gradient, i) = 0
    BY <1>3 DEF Pull
  <2> QED BY <2>2, <2>3 DEF Worth
<1>4. CASE ~nodes[i].learns
  BY <1>3, <1>4 DEF Owned
<1>5. CASE nodes[i].learns /\ nodes[i].op \in {"input", "leaf"}
  <2>1. nodes[i].op = "leaf"
    BY <1>1, <1>5, NodeFilled
  <2>2. Same(nodes, gradient, G)
    BY <1>5, LeafVisit
  <2> HIDE DEF G
  <2>3. Worth(nodes, p, e, h, G, i - 1) = Worth(nodes, p, e, h, gradient, i - 1)
    BY <1>1, <1>2, <2>2, WorthSame
  <2>4. Worth(nodes, p, e, h, gradient, i - 1) = Worth(nodes, p, e, h, gradient, i)
    BY <1>3, <2>1 DEF Owned
  <2> QED BY <1>5, <2>3, <2>4 DEF G
<1>6. CASE nodes[i].learns /\ nodes[i].op \notin {"input", "leaf"}
  <2>1. ~ev
    BY <1>1, <1>6, NodeFilled
  <2> QED BY <1>6, <2>1, VisitWorth
<1> QED BY <1>4, <1>5, <1>6

\* Nothing has come to the nodes of a graph that is being built.
Fresh(ns, g) == \A i \in 1 .. Len(ns) : Owned(ns, i) => Naught(Train!Count(ns[i]), g[<<"node", i>>])

LEMMA FreshWorth ==
  ASSUME NEW ns, NEW ev, NEW p, NEW e, NEW h, Deriving(ns, ev, p, e, h), NEW g, Gradients(ns, g), Fresh(ns, g)
  PROVE  Worth(ns, p, e, h, g, Len(ns)) = g[<<"parameter", p>>][e] /\ g[<<"parameter", p>>][e] \in Int
<1> DEFINE K == 1 .. Len(ns)
           F == [j \in K |-> Pull(ns, h, g, j)]
<1>1. /\ Graph(ns, ev) /\ p \in DOMAIN Parameters /\ e \in 1 .. Train!Count(Parameters[p])
      /\ \A j \in 1 .. Len(ns) : Derivative(ns, ev, h, j)
  BY DEF Deriving
<1>2. g[<<"parameter", p>>][e] \in Int
  BY <1>1 DEF Gradients
<1>3. ASSUME NEW j \in K PROVE F[j] = 0
  <2>1. CASE Owned(ns, j)
    <3>1. Filled(ns[j])
      BY <1>1, NodeFilled
    <3> DEFINE n == Train!Count(ns[j])
    <3>2. n \in Nat
      BY <3>1, TensorLaid
    <3>3. Naught(n, g[<<"node", j>>]) /\ h[j] \in [1 .. n -> Int]
      BY <1>1, <2>1 DEF Fresh, Derivative
    <3> HIDE DEF n
    <3>4. Inner(n, g[<<"node", j>>], h[j]) = 0
      BY <3>2, <3>3, InnerNaught
    <3> QED BY <2>1, <3>4 DEF Pull, n
  <2>2. CASE ~Owned(ns, j)
    BY <2>2 DEF Pull
  <2> QED BY <2>1, <2>2
<1>4. IsFiniteSet(K)
  BY <1>1, GraphLen, FS_Interval
<1> HIDE DEF K, F
<1>5. Part(F, K) = 0
  BY <1>3, <1>4, PartZero
<1>6. Pending(ns, h, g, Len(ns)) = 0
  BY <1>5 DEF Pending, F, K
<1> QED BY <1>2, <1>6 DEF Worth

\* backward starts with one in the loss.
Began(g, cell) == [g EXCEPT ![cell][1] = @ + 1]

LEMMA BeganRaises ==
  ASSUME NEW ns, NEW ev, Graph(ns, ev), NEW g, Gradients(ns, g), NEW i \in 1 .. Len(ns),
         ns[i].learns, Train!Count(ns[i]) = 1
  PROVE  Raised(g, Began(g, CellOf(ns, i)), CellOf(ns, i), Train!Count(ns[i]), [x \in 1 .. 1 |-> 1])
<1> DEFINE cell == CellOf(ns, i)
<1>1. cell \in DOMAIN g /\ g[cell] \in [1 .. 1 -> Int]
  <2>1. cell \in DOMAIN g /\ g[cell] \in [1 .. Train!Count(ns[i]) -> Int]
    BY CellTyped
  <2> QED BY <2>1
<1> HIDE DEF cell
<1>2. /\ DOMAIN Began(g, cell) = DOMAIN g /\ \A c \in DOMAIN g : c # cell => Began(g, cell)[c] = g[c]
      /\ Began(g, cell)[cell] = [g[cell] EXCEPT ![1] = @ + 1]
  BY <1>1 DEF Began
<1>3. [g[cell] EXCEPT ![1] = @ + 1] = [x \in 1 .. 1 |-> g[cell][x] + 1]
  <2>1. \A x \in 1 .. 1 : x = 1
    OBVIOUS
  <2>2. DOMAIN g[cell] = 1 .. 1
    BY <1>1
  <2> QED BY <2>1, <2>2
<1>4. \A x \in 1 .. 1 : [y \in 1 .. 1 |-> 1][x] = 1
  OBVIOUS
<1>5. [x \in 1 .. 1 |-> g[cell][x] + 1] = [x \in 1 .. 1 |-> g[cell][x] + [y \in 1 .. 1 |-> 1][x]]
  BY <1>4
<1> QED BY <1>2, <1>3, <1>5 DEF Raised, cell

LEMMA BeganWorth ==
  ASSUME NEW ns, NEW ev, NEW p, NEW e, NEW h, Deriving(ns, ev, p, e, h), NEW g, Gradients(ns, g), Fresh(ns, g),
         NEW i \in 1 .. Len(ns), ns[i].learns, Train!Count(ns[i]) = 1
  PROVE  Worth(ns, p, e, h, Began(g, CellOf(ns, i)), Len(ns)) = g[<<"parameter", p>>][e] + h[i][1]
<1> DEFINE f == Began(g, CellOf(ns, i))
           more == [x \in 1 .. 1 |-> 1]
<1>1. Graph(ns, ev) /\ \A j \in 1 .. Len(ns) : Derivative(ns, ev, h, j)
  BY DEF Deriving
<1>2. Raised(g, f, CellOf(ns, i), Train!Count(ns[i]), more)
  BY <1>1, BeganRaises
<1>3. more \in [1 .. Train!Count(ns[i]) -> Int] /\ Len(ns) \in 0 .. Len(ns)
  BY <1>1, GraphLen
<1> HIDE DEF f, more
<1>4. Raising(ns, ev, p, e, h, g, f, Len(ns), i, more)
  BY <1>2, <1>3 DEF Raising
<1>5. Worth(ns, p, e, h, f, Len(ns)) = Worth(ns, p, e, h, g, Len(ns)) + Inner(Train!Count(ns[i]), more, h[i])
  BY <1>4, RaisedWorth
<1>6. Worth(ns, p, e, h, g, Len(ns)) = g[<<"parameter", p>>][e]
  BY FreshWorth
<1>7. Inner(Train!Count(ns[i]), more, h[i]) = h[i][1]
  <2> DEFINE K == 1 .. 1
             v == [k \in K |-> more[k] * h[i][k]]
  <2>1. h[i] \in [K -> Int]
    BY <1>1 DEF Derivative
  <2>2. v[1] = h[i][1] /\ h[i][1] \in Int
    <3>1. h[i][1] \in Int /\ more[1] = 1
      BY <2>1 DEF more
    <3>2. v[1] = 1 * h[i][1]
      BY <3>1
    <3> QED BY <3>1, <3>2, OneTimes
  <2>3. IsFiniteSet(K) /\ 1 \in K /\ \A k \in K : k = 1
    <3>1. K = {1}
      OBVIOUS
    <3> QED BY <3>1, FS_Singleton
  <2> HIDE DEF K, v
  <2>4. Part(v, K) = v[1]
    <3>1. \A k \in K \ {1} : v[k] = 0
      BY <2>3
    <3>2. v[1] \in Int
      BY <2>2
    <3> QED BY <2>3, <3>1, <3>2, PartSingle
  <2> QED BY <2>2, <2>4 DEF Inner, K, v
<1> QED BY <1>5, <1>6, <1>7 DEF f

\* What the walk has still to add, added to what a gradient has, is what it had and
\* the derivative of the loss.
Due(p, e, h) == Worth(nodes, p, e, h, gradient, at) = before[<<"parameter", p>>][e] + h[loss][1]

\* A number for each element of each parameter.
ParameterTyped(f) == \A p \in DOMAIN Parameters : f[<<"parameter", p>>] \in [1 .. Train!Count(Parameters[p]) -> Int]

(* Nodes refer to earlier ones and have the shapes their operation gives   *)
(* them; what has a gradient holds as many integers as it has elements.    *)
(* While a graph is built nothing has come to its nodes, and the gradients *)
(* of the parameters are those it began with.  During the walk, what a     *)
(* gradient has and what the nodes that were not visited will add to it    *)
(* make up what it had and the derivative of the loss.                     *)
TapeInv ==
  /\ phase \in {"none", "build", "walk", "walked"} /\ error \in BOOLEAN
  /\ Graph(nodes, evaluation) /\ Gradients(nodes, gradient) /\ ParameterTyped(before)
  /\ \A p \in DOMAIN Parameters : values[p] \in [1 .. Train!Count(Parameters[p]) -> Int]
  /\ phase = "none" => nodes = <<>> /\ ~evaluation
  /\ evaluation => phase = "build"
  /\ phase = "build" => Fresh(nodes, gradient)
  /\ phase = "build" => \A p \in DOMAIN Parameters : gradient[<<"parameter", p>>] = before[<<"parameter", p>>]
  /\ phase \in {"walk", "walked"} => loss \in 1 .. Len(nodes) /\ at \in 0 .. Len(nodes)
  /\ phase = "walk" => at # 0
  /\ phase = "walked" => at = 0
  /\ phase \in {"walk", "walked"} /\ ~error =>
       \A p, e, h : Deriving(nodes, evaluation, p, e, h) => Due(p, e, h)
  /\ \A p \in DOMAIN Parameters : applied[p] = steps

LEMMA EmptyGraph ==
  /\ Graph(<<>>, FALSE)
  /\ \A g : (/\ DOMAIN g = {"parameter"} \X DOMAIN Parameters
             /\ \A p \in DOMAIN Parameters : g[<<"parameter", p>>] \in [1 .. Train!Count(Parameters[p]) -> Int])
            => Gradients(<<>>, g)
<1>1. Len(<<>>) = 0 /\ <<>> \in Seq({})
  OBVIOUS
<1>2. 1 .. Len(<<>>) = {}
  BY <1>1
<1>3. Graph(<<>>, FALSE)
  BY <1>1, <1>2 DEF Graph
<1>4. {<<"node", i>> : i \in {j \in 1 .. Len(<<>>) : Owned(<<>>, j)}} = {}
  BY <1>2
<1>5. \A i \in 1 .. Len(<<>>) : FALSE
  BY <1>2
<1>6. ASSUME NEW g, DOMAIN g = {"parameter"} \X DOMAIN Parameters,
             \A p \in DOMAIN Parameters : g[<<"parameter", p>>] \in [1 .. Train!Count(Parameters[p]) -> Int]
      PROVE  Gradients(<<>>, g)
  BY <1>4, <1>5, <1>6 DEF Gradients
<1> QED BY <1>3, <1>6

LEMMA ZerosTyped ==
  ASSUME NEW n PROVE Train!Zeros(n) \in [1 .. n -> Int] /\ \A k \in 1 .. n : Train!Zeros(n)[k] = 0
  BY DEF Train!Zeros

LEMMA TapeInitInv == Train!Init => TapeInv
<1> SUFFICES ASSUME Train!Init PROVE TapeInv
  OBVIOUS
<1>1. /\ phase = "none" /\ evaluation = FALSE /\ nodes = <<>> /\ error = FALSE /\ before = gradient
      /\ gradient = [cell \in {"parameter"} \X DOMAIN Parameters |-> Train!Zeros(Train!Count(Parameters[cell[2]]))]
      /\ values = [p \in DOMAIN Parameters |-> Parameters[p].data]
      /\ steps = 0 /\ applied = [p \in DOMAIN Parameters |-> 0]
  BY DEF Train!Init, Train!Names
<1>2. ParameterTyped(gradient)
  <2>1. ASSUME NEW p \in DOMAIN Parameters
        PROVE  gradient[<<"parameter", p>>] = Train!Zeros(Train!Count(Parameters[p]))
    BY <1>1
  <2> QED BY <2>1, ZerosTyped DEF ParameterTyped
<1>3. Gradients(<<>>, gradient)
  BY <1>1, <1>2, EmptyGraph DEF ParameterTyped
<1>4. \A p \in DOMAIN Parameters : values[p] \in [1 .. Train!Count(Parameters[p]) -> Int]
  BY <1>1, TapeAssumption DEF Filled, Train!Count
<1>5. \A p \in DOMAIN Parameters : applied[p] = steps
  BY <1>1
<1>6. Graph(nodes, evaluation)
  BY <1>1, EmptyGraph
<1> QED BY <1>1, <1>2, <1>3, <1>4, <1>5, <1>6 DEF TapeInv

\* What an action that leaves the graph and the parameters' gradients must show.
LEMMA TapeStutters ==
  ASSUME TapeInv, UNCHANGED <<phase, evaluation, nodes, gradient, before, values, steps, applied, loss, at>>,
         error' \in BOOLEAN, error => error'
  PROVE  TapeInv'
<1>1. \A p, e, h : Due(p, e, h)' <=> Due(p, e, h)
  BY DEF Due
<1>2. ParameterTyped(before)' <=> ParameterTyped(before)
  BY DEF ParameterTyped
<1>3. error' = FALSE => error = FALSE
  BY DEF TapeInv
<1> QED BY <1>1, <1>2, <1>3 DEF TapeInv

LEMMA RefuseKeeps == ASSUME TapeInv, Train!Refuse PROVE TapeInv'
<1>1. /\ UNCHANGED <<phase, evaluation, nodes, gradient, before, values, steps, applied, loss, at>>
      /\ error' = TRUE
  BY DEF Train!Refuse, Train!learnt
<1> QED BY <1>1, TapeStutters

LEMMA NewGraphKeeps == ASSUME TapeInv, NEW e \in BOOLEAN, Train!NewGraph(e) PROVE TapeInv'
<1>1. /\ phase = "none" /\ phase' = "build" /\ evaluation' = e /\ before' = gradient
      /\ UNCHANGED <<nodes, error, gradient, values, steps, applied>>
  BY DEF Train!NewGraph, Train!learnt
<1>2. nodes = <<>> /\ nodes' = <<>> /\ Gradients(<<>>, gradient)
  BY <1>1 DEF TapeInv
<1>3. 1 .. Len(nodes) = {}
  BY <1>2
<1>4. Graph(nodes, e)
  <2>1. nodes \in Seq({})
    BY <1>2
  <2>2. e \in BOOLEAN /\ \A i \in 1 .. Len(nodes) : FALSE
    BY <1>3
  <2> QED BY <2>1, <2>2 DEF Graph
<1>5. Fresh(nodes, gradient)
  BY <1>3 DEF Fresh
<1>6. ParameterTyped(before')
  BY <1>1, <1>2 DEF ParameterTyped, Gradients
<1>7. (Graph(nodes, evaluation) /\ Gradients(nodes, gradient) /\ Fresh(nodes, gradient) /\ ParameterTyped(before))'
  BY <1>1, <1>2, <1>4, <1>5, <1>6
<1>8. error' \in BOOLEAN /\ phase' = "build" /\ evaluation' \in BOOLEAN
  BY <1>1 DEF TapeInv
<1>9. /\ \A p \in DOMAIN Parameters : values'[p] \in [1 .. Train!Count(Parameters[p]) -> Int]
      /\ \A p \in DOMAIN Parameters : applied'[p] = steps'
      /\ \A p \in DOMAIN Parameters : gradient'[<<"parameter", p>>] = before'[<<"parameter", p>>]
  BY <1>1 DEF TapeInv
<1> QED BY <1>7, <1>8, <1>9 DEF TapeInv

LEMMA FreeGraphKeeps == ASSUME TapeInv, Train!FreeGraph PROVE TapeInv'
<1>1. /\ phase' = "none" /\ nodes' = <<>> /\ error' = FALSE /\ evaluation' = FALSE
      /\ gradient' = [cell \in {"parameter"} \X DOMAIN Parameters |-> gradient[cell]]
      /\ UNCHANGED <<before, values, steps, applied>>
  BY DEF Train!FreeGraph, Train!learnt, Train!Names
<1>2. \A p \in DOMAIN Parameters : gradient'[<<"parameter", p>>] \in [1 .. Train!Count(Parameters[p]) -> Int]
  BY <1>1 DEF TapeInv, Gradients
<1>3. Gradients(nodes', gradient') /\ Graph(nodes', evaluation')
  BY <1>1, <1>2, EmptyGraph
<1>4. (Graph(nodes, evaluation) /\ Gradients(nodes, gradient) /\ ParameterTyped(before))'
  BY <1>1, <1>3 DEF TapeInv, ParameterTyped
<1>5. /\ \A p \in DOMAIN Parameters : values'[p] \in [1 .. Train!Count(Parameters[p]) -> Int]
      /\ \A p \in DOMAIN Parameters : applied'[p] = steps'
  BY <1>1 DEF TapeInv
<1> QED BY <1>1, <1>4, <1>5 DEF TapeInv

LEMMA ZeroGradKeeps == ASSUME TapeInv, NEW q \in DOMAIN Parameters, Train!ZeroGrad(q) PROVE TapeInv'
<1>1. /\ phase = "none" /\ UNCHANGED <<phase, evaluation, nodes, error, before, values, steps, applied>>
      /\ gradient' = [gradient EXCEPT ![<<"parameter", q>>] = Train!Zeros(Train!Count(Parameters[q]))]
  BY DEF Train!ZeroGrad, Train!learnt, Train!graph
<1>2. nodes = <<>> /\ Gradients(<<>>, gradient)
  BY <1>1 DEF TapeInv
<1>3. 1 .. Len(<<>>) = {}
  OBVIOUS
<1>4. ASSUME NEW p \in DOMAIN Parameters
      PROVE  gradient'[<<"parameter", p>>] \in [1 .. Train!Count(Parameters[p]) -> Int]
  <2>1. <<"parameter", p>> \in DOMAIN gradient /\ gradient[<<"parameter", p>>] \in [1 .. Train!Count(Parameters[p]) -> Int]
    BY <1>2 DEF Gradients
  <2>2. CASE p = q
    <3>1. gradient'[<<"parameter", p>>] = Train!Zeros(Train!Count(Parameters[p]))
      BY <1>1, <2>1, <2>2
    <3> QED BY <3>1, ZerosTyped
  <2>3. CASE p # q
    BY <1>1, <2>1, <2>3
  <2> QED BY <2>2, <2>3
<1>5. Gradients(<<>>, gradient')
  <2>1. DOMAIN gradient' = DOMAIN gradient
    BY <1>1
  <2>2. \A i \in 1 .. Len(<<>>) : FALSE
    BY <1>3
  <2> QED BY <1>2, <1>4, <2>1, <2>2 DEF Gradients
<1>6. (Graph(nodes, evaluation) /\ Gradients(nodes, gradient) /\ ParameterTyped(before))'
  BY <1>1, <1>2, <1>5 DEF TapeInv, ParameterTyped
<1>7. /\ \A p \in DOMAIN Parameters : values'[p] \in [1 .. Train!Count(Parameters[p]) -> Int]
      /\ \A p \in DOMAIN Parameters : applied'[p] = steps'
      /\ error' \in BOOLEAN /\ phase' = "none" /\ ~evaluation' /\ nodes' = <<>>
  BY <1>1 DEF TapeInv
<1> QED BY <1>6, <1>7 DEF TapeInv

LEMMA StepKeeps == ASSUME TapeInv, Train!Step PROVE TapeInv'
<1>1. /\ phase = "none" /\ UNCHANGED <<phase, evaluation, nodes, error, gradient, before>>
      /\ values' = [p \in DOMAIN Parameters |-> IF p \in Train!Reached THEN Train!Next0(p) ELSE values[p]]
      /\ applied' = [p \in DOMAIN Parameters |-> IF p \in Train!Reached THEN applied[p] + 1 ELSE applied[p]]
      /\ steps' = IF Train!Reached = DOMAIN Parameters THEN steps + 1 ELSE steps
  BY DEF Train!Step, Train!graph, Train!Names
<1>2. Train!Reached = DOMAIN Parameters \/ Train!Reached = {}
  BY DEF Train!Reached, Train!Names
<1>3. ASSUME NEW p \in DOMAIN Parameters PROVE applied'[p] = steps'
  <2>1. applied[p] = steps
    BY DEF TapeInv
  <2>2. CASE Train!Reached = DOMAIN Parameters
    BY <1>1, <2>1, <2>2
  <2>3. CASE Train!Reached = {}
    BY <1>1, <2>1, <2>3
  <2> QED BY <1>2, <2>2, <2>3
<1>4. ASSUME NEW p \in DOMAIN Parameters PROVE values'[p] \in [1 .. Train!Count(Parameters[p]) -> Int]
  <2> DEFINE n == Train!Count(Parameters[p])
  <2>1. values[p] \in [1 .. n -> Int] /\ gradient[<<"parameter", p>>] \in [1 .. n -> Int]
    BY DEF TapeInv, Gradients
  <2> HIDE DEF n
  <2>2. Train!Next0(p) \in [1 .. n -> Int]
    <3> DEFINE v == values[p]
               g == gradient[<<"parameter", p>>]
    <3>1. Train!Next0(p) = [e \in DOMAIN v |-> v[e] - g[e]]
      BY DEF Train!Next0
    <3>2. v \in [1 .. n -> Int] /\ g \in [1 .. n -> Int]
      BY <2>1
    <3> HIDE DEF v, g
    <3>3. DOMAIN v = 1 .. n /\ \A e \in 1 .. n : v[e] - g[e] \in Int
      BY <3>2
    <3> QED BY <3>1, <3>3
  <2>3. values'[p] = Train!Next0(p) \/ values'[p] = values[p]
    BY <1>1
  <2>4. values'[p] \in [1 .. n -> Int]
    BY <2>1, <2>2, <2>3
  <2> QED BY <2>4 DEF n
<1>5. (Graph(nodes, evaluation) /\ Gradients(nodes, gradient) /\ ParameterTyped(before))'
  BY <1>1 DEF TapeInv, ParameterTyped
<1>6. error' \in BOOLEAN /\ phase' = "none" /\ ~evaluation' /\ nodes' = <<>>
  BY <1>1 DEF TapeInv
<1> QED BY <1>3, <1>4, <1>5, <1>6 DEF TapeInv

LEMMA VisitInv == ASSUME TapeInv, Train!Visit PROVE TapeInv'
<1> DEFINE t == nodes[at]
           G == Train!Accumulate(t, gradient[Train!Cell(at)])
<1>1. /\ phase = "walk" /\ ~error /\ at' = at - 1 /\ phase' = (IF at = 1 THEN "walked" ELSE "walk")
      /\ UNCHANGED <<evaluation, nodes, loss, before, values, steps, applied>>
      /\ \/ ~t.learns /\ UNCHANGED <<gradient, error>>
         \/ error' = TRUE /\ UNCHANGED gradient
         \/ t.learns /\ gradient' = G /\ UNCHANGED error
  BY DEF Train!Visit, Train!learnt
<1>2. /\ Graph(nodes, evaluation) /\ Gradients(nodes, gradient) /\ ParameterTyped(before) /\ error = FALSE
      /\ loss \in 1 .. Len(nodes) /\ at \in 0 .. Len(nodes) /\ at # 0 /\ ~evaluation
      /\ \A p, e, h : Deriving(nodes, evaluation, p, e, h) => Due(p, e, h)
      /\ Len(nodes) \in Nat
  BY <1>1, GraphLen DEF TapeInv
<1>3. /\ at \in 1 .. Len(nodes) /\ at' \in 0 .. Len(nodes) /\ phase' \in {"walk", "walked"}
      /\ (phase' = "walk" => at' # 0) /\ (phase' = "walked" => at' = 0)
  BY <1>1, <1>2
<1>4. G = Train!Accumulate(t, gradient[CellOf(nodes, at)])
  BY DEF Train!Cell, CellOf
<1> HIDE DEF G
<1>5. Gradients(nodes, gradient')
  <2>1. CASE gradient' = gradient
    BY <1>2, <2>1
  <2>2. CASE t.learns /\ gradient' = G
    BY <1>2, <1>3, <1>4, <2>2, AccumulateTyped
  <2> QED BY <1>1, <2>1, <2>2
<1>6. ASSUME NEW p, NEW e, NEW h, Deriving(nodes, evaluation, p, e, h), ~error'
      PROVE  Due(p, e, h)'
  <2>1. Worth(nodes, p, e, h, gradient, at) = before[<<"parameter", p>>][e] + h[loss][1]
    BY <1>2, <1>6 DEF Due
  <2>2. Worth(nodes, p, e, h, gradient', at - 1) = Worth(nodes, p, e, h, gradient, at)
    <3>1. CASE ~t.learns /\ gradient' = gradient
      BY <1>2, <1>3, <1>6, <3>1, VisitKeeps
    <3>2. CASE t.learns /\ gradient' = G
      BY <1>2, <1>3, <1>4, <1>6, <3>2, VisitKeeps
    <3> QED BY <1>1, <1>6, <3>1, <3>2
  <2> QED BY <1>1, <2>1, <2>2 DEF Due
<1>7. (Graph(nodes, evaluation) /\ Gradients(nodes, gradient) /\ ParameterTyped(before))'
  BY <1>1, <1>2, <1>5 DEF ParameterTyped
<1>8. \A p, e, h : Deriving(nodes, evaluation, p, e, h)' <=> Deriving(nodes, evaluation, p, e, h)
  BY <1>1
<1>9. /\ \A p \in DOMAIN Parameters : values'[p] \in [1 .. Train!Count(Parameters[p]) -> Int]
      /\ \A p \in DOMAIN Parameters : applied'[p] = steps'
      /\ error' \in BOOLEAN /\ ~evaluation' /\ loss' \in 1 .. Len(nodes') /\ at' \in 0 .. Len(nodes')
  BY <1>1, <1>2, <1>3 DEF TapeInv
<1>10. ~error' => \A p, e, h : Deriving(nodes, evaluation, p, e, h)' => Due(p, e, h)'
  BY <1>6, <1>8
<1> QED BY <1>3, <1>7, <1>9, <1>10 DEF TapeInv

LEMMA BackwardKeeps ==
  ASSUME TapeInv, phase = "build", ~error, NEW i \in 1 .. Len(nodes), Train!Backward(i)
  PROVE  TapeInv'
<1>1. CASE Train!Refuse
  BY <1>1, RefuseKeeps
<1>2. CASE ~Train!Refuse
  <2> DEFINE G == Began(gradient, CellOf(nodes, i))
  <2>1. /\ Train!Count(nodes[i]) = 1 /\ nodes[i].learns
        /\ phase' = "walk" /\ loss' = i /\ at' = Len(nodes) /\ gradient' = G
        /\ UNCHANGED <<evaluation, nodes, error, before, values, steps, applied>>
    BY <1>2 DEF Train!Backward, Train!learnt, Train!Cell, CellOf, Began
  <2>2. /\ Graph(nodes, evaluation) /\ Gradients(nodes, gradient) /\ ParameterTyped(before) /\ Fresh(nodes, gradient)
        /\ \A p \in DOMAIN Parameters : gradient[<<"parameter", p>>] = before[<<"parameter", p>>]
    BY DEF TapeInv
  <2>3. ~evaluation
    BY <2>1, <2>2, NodeFilled
  <2>4. Len(nodes) \in Nat \ {0}
    BY <2>2, GraphLen
  <2> HIDE DEF G
  <2>5. Gradients(nodes, G)
    <3>1. Raised(gradient, G, CellOf(nodes, i), Train!Count(nodes[i]), [x \in 1 .. 1 |-> 1])
      BY <2>1, <2>2, BeganRaises DEF G
    <3> DEFINE more == [x \in 1 .. 1 |-> 1]
    <3>2. more \in [1 .. Train!Count(nodes[i]) -> Int]
      BY <2>1
    <3>3. Raised(gradient, G, CellOf(nodes, i), Train!Count(nodes[i]), more)
      BY <3>1
    <3> HIDE DEF more
    <3> QED BY <2>1, <2>2, <3>2, <3>3, RaisedTyped
  <2>6. ASSUME NEW p, NEW e, NEW h, Deriving(nodes, evaluation, p, e, h)
        PROVE  Due(p, e, h)'
    <3>1. Worth(nodes, p, e, h, G, Len(nodes)) = gradient[<<"parameter", p>>][e] + h[i][1]
      BY <2>1, <2>2, <2>6, BeganWorth DEF G
    <3>2. gradient[<<"parameter", p>>] = before[<<"parameter", p>>]
      BY <2>2, <2>6 DEF Deriving
    <3> QED BY <2>1, <3>1, <3>2 DEF Due
  <2>7. (Graph(nodes, evaluation) /\ Gradients(nodes, gradient) /\ ParameterTyped(before))'
    BY <2>1, <2>2, <2>5 DEF ParameterTyped
  <2>8. \A p, e, h : Deriving(nodes, evaluation, p, e, h)' <=> Deriving(nodes, evaluation, p, e, h)
    BY <2>1
  <2>9. /\ \A p \in DOMAIN Parameters : values'[p] \in [1 .. Train!Count(Parameters[p]) -> Int]
        /\ \A p \in DOMAIN Parameters : applied'[p] = steps'
        /\ error' \in BOOLEAN /\ ~evaluation' /\ loss' \in 1 .. Len(nodes') /\ at' \in 0 .. Len(nodes')
        /\ at' # 0 /\ phase' = "walk"
    BY <2>1, <2>3, <2>4 DEF TapeInv
  <2>10. \A p, e, h : Deriving(nodes, evaluation, p, e, h)' => Due(p, e, h)'
    BY <2>6, <2>8
  <2> QED BY <2>7, <2>9, <2>10 DEF TapeInv
<1> QED BY <1>1, <1>2

\* The node that an operation records.
Recorded(op, a, b, rows, columns, of, learns, data) ==
  [op |-> op, a |-> a, b |-> b, rows |-> rows, columns |-> columns, of |-> of,
   learns |-> learns /\ ~evaluation, data |-> data]

LEMMA NodeLocal ==
  ASSUME NEW ns, NEW ms, NEW ev, NEW i \in Nat \ {0}, \A j \in 1 .. i : ms[j] = ns[j], Node(ns, ev, i)
  PROVE  Node(ms, ev, i)
<1>1. ms[i] = ns[i]
  OBVIOUS
<1>2. \A j \in 1 .. i - 1 : ms[j] = ns[j]
  OBVIOUS
<1> QED BY <1>1, <1>2 DEF Node

\* A node that nothing has come to is added to a graph.
Grown(ns, ev, g, t, f) ==
  /\ Graph(ns, ev) /\ Gradients(ns, g) /\ Fresh(ns, g) /\ Node(Append(ns, t), ev, Len(ns) + 1)
  /\ IF ~t.learns \/ t.op = "leaf" THEN f = g
     ELSE f = [cell \in DOMAIN g \cup {<<"node", Len(ns) + 1>>} |->
                 IF cell = <<"node", Len(ns) + 1>> THEN Train!Zeros(Train!Count(t)) ELSE g[cell]]

LEMMA GrownGraph ==
  ASSUME NEW ns, NEW ev, NEW g, NEW t, NEW f, Grown(ns, ev, g, t, f)
  PROVE  /\ Graph(Append(ns, t), ev) /\ Gradients(Append(ns, t), f) /\ Fresh(Append(ns, t), f)
         /\ \A p \in DOMAIN Parameters : f[<<"parameter", p>>] = g[<<"parameter", p>>]
<1> DEFINE ms == Append(ns, t)
           n == Len(ns)
           own == <<"node", n + 1>>
           N(i) == <<"node", i>>
           P(p) == <<"parameter", p>>
<1>1. Graph(ns, ev) /\ Gradients(ns, g) /\ Fresh(ns, g) /\ Node(ms, ev, n + 1)
  BY DEF Grown
<1>2. PICK S : ns \in Seq(S)
  BY <1>1 DEF Graph
<1>3. n \in Nat /\ Len(ms) = n + 1 /\ ms[n + 1] = t /\ \A i \in 1 .. n : ms[i] = ns[i]
  BY <1>2
<1>4. ms \in Seq(S \cup {t})
  <2>1. ns \in Seq(S \cup {t}) /\ t \in S \cup {t}
    BY <1>2
  <2> QED BY <2>1
<1> HIDE DEF ms
<1>5. \A i \in 1 .. Len(ms) : i \in 1 .. n \/ i = n + 1
  BY <1>3
<1>6. Graph(ms, ev)
  <2>1. ASSUME NEW i \in 1 .. n PROVE Node(ms, ev, i)
    <3>1. i \in Nat \ {0} /\ \A j \in 1 .. i : ms[j] = ns[j]
      BY <1>3
    <3>2. Node(ns, ev, i)
      BY <1>1 DEF Graph
    <3> QED BY <3>1, <3>2, NodeLocal
  <2>2. \A i \in 1 .. Len(ms) : Node(ms, ev, i)
    BY <1>1, <1>5, <2>1
  <2>3. ev \in BOOLEAN
    BY <1>1 DEF Graph
  <2> QED BY <1>4, <2>2, <2>3 DEF Graph
<1>7. \A i \in 1 .. n : (Owned(ms, i) <=> Owned(ns, i)) /\ i \in 1 .. Len(ms)
  BY <1>3 DEF Owned
<1>8. Owned(ms, n + 1) <=> ~(~t.learns \/ t.op = "leaf")
  BY <1>3 DEF Owned
<1>9. n + 1 \in 1 .. Len(ms)
  BY <1>3
<1> DEFINE A == {N(i) : i \in {j \in 1 .. n : Owned(ns, j)}}
           B == {N(i) : i \in {j \in 1 .. Len(ms) : Owned(ms, j)}}
<1>10. ASSUME ~Owned(ms, n + 1) PROVE B = A
  <2>1. {j \in 1 .. Len(ms) : Owned(ms, j)} = {j \in 1 .. n : Owned(ns, j)}
    BY <1>5, <1>7, <1>10
  <2> QED BY <2>1
<1>11. ASSUME Owned(ms, n + 1) PROVE B = A \cup {own}
  <2>1. {j \in 1 .. Len(ms) : Owned(ms, j)} = {j \in 1 .. n : Owned(ns, j)} \cup {n + 1}
    BY <1>5, <1>7, <1>9, <1>11
  <2> QED BY <2>1
<1>12. DOMAIN g = ({"parameter"} \X DOMAIN Parameters) \cup A
  BY <1>1 DEF Gradients
<1>13. own \notin DOMAIN g
  <2>1. own \notin A
    BY <1>3
  <2> QED BY <1>12, <2>1
<1> HIDE DEF A, B
<1>14. DOMAIN f = ({"parameter"} \X DOMAIN Parameters) \cup B
  <2>1. CASE Owned(ms, n + 1)
    <3>1. DOMAIN f = DOMAIN g \cup {own}
      BY <1>8, <2>1 DEF Grown
    <3> QED BY <1>11, <1>12, <2>1, <3>1
  <2>2. CASE ~Owned(ms, n + 1)
    <3>1. f = g
      BY <1>8, <2>2 DEF Grown
    <3> QED BY <1>10, <1>12, <2>2, <3>1
  <2> QED BY <2>1, <2>2
<1>15. \A c \in DOMAIN g : f[c] = g[c]
  <2>1. CASE Owned(ms, n + 1)
    <3>1. f = [cell \in DOMAIN g \cup {own} |-> IF cell = own THEN Train!Zeros(Train!Count(t)) ELSE g[cell]]
      BY <1>8, <2>1 DEF Grown
    <3> HIDE DEF own
    <3> QED BY <1>13, <3>1
  <2>2. CASE ~Owned(ms, n + 1)
    BY <1>8, <2>2 DEF Grown
  <2> QED BY <2>1, <2>2
<1>16. ASSUME Owned(ms, n + 1)
       PROVE  f[own] \in [1 .. Train!Count(t) -> Int] /\ Naught(Train!Count(t), f[own])
  <2>1. f = [cell \in DOMAIN g \cup {own} |-> IF cell = own THEN Train!Zeros(Train!Count(t)) ELSE g[cell]]
    BY <1>8, <1>16 DEF Grown
  <2> HIDE DEF own
  <2>2. f[own] = Train!Zeros(Train!Count(t))
    BY <2>1
  <2> QED BY <2>2, ZerosTyped DEF Naught
<1>17. ASSUME NEW p \in DOMAIN Parameters
       PROVE  f[P(p)] = g[P(p)] /\ f[P(p)] \in [1 .. Train!Count(Parameters[p]) -> Int]
  <2>1. P(p) \in DOMAIN g /\ g[P(p)] \in [1 .. Train!Count(Parameters[p]) -> Int]
    BY <1>1 DEF Gradients
  <2> QED BY <1>15, <2>1
<1>18. ASSUME NEW i \in 1 .. Len(ms), Owned(ms, i)
       PROVE  f[N(i)] \in [1 .. Train!Count(ms[i]) -> Int] /\ Naught(Train!Count(ms[i]), f[N(i)])
  <2>1. CASE i \in 1 .. n
    <3>1. Owned(ns, i) /\ ms[i] = ns[i]
      BY <1>3, <1>7, <1>18, <2>1
    <3>2. /\ N(i) \in DOMAIN g /\ g[N(i)] \in [1 .. Train!Count(ns[i]) -> Int]
          /\ Naught(Train!Count(ns[i]), g[N(i)])
      BY <1>1, <2>1, <3>1 DEF Gradients, Fresh
    <3>3. f[N(i)] = g[N(i)]
      BY <1>15, <3>2
    <3> QED BY <3>1, <3>2, <3>3
  <2>2. CASE i = n + 1
    BY <1>3, <1>16, <1>18, <2>2
  <2> QED BY <1>5, <2>1, <2>2
<1>19. Gradients(ms, f)
  BY <1>14, <1>17, <1>18 DEF Gradients, B
<1>20. Fresh(ms, f)
  BY <1>18 DEF Fresh
<1> QED BY <1>6, <1>17, <1>19, <1>20 DEF ms

LEMMA GraphAppend ==
  ASSUME NEW ns, NEW ev, Graph(ns, ev), NEW t
  PROVE  /\ Len(ns) \in Nat /\ Append(ns, t)[Len(ns) + 1] = t
         /\ \A i \in 1 .. Len(ns) : Append(ns, t)[i] = ns[i]
<1>1. PICK S : ns \in Seq(S)
  BY DEF Graph
<1> QED BY <1>1

LEMMA RecordKeeps ==
  ASSUME TapeInv, NEW op, NEW a, NEW b, NEW rows, NEW columns, NEW of, NEW learns, NEW data, NEW extra,
         Train!Record(op, a, b, rows, columns, of, learns, data, extra),
         Node(Append(nodes, Recorded(op, a, b, rows, columns, of, learns, data)), evaluation, Len(nodes) + 1)
  PROVE  TapeInv'
<1> DEFINE t == Recorded(op, a, b, rows, columns, of, learns, data)
<1>1. /\ phase = "build" /\ ~error
      /\ UNCHANGED <<phase, evaluation, loss, at, before, values, steps, applied>>
  BY DEF Train!Record, Train!learnt
<1>2. \/ error' = TRUE /\ UNCHANGED <<nodes, gradient>>
      \/ /\ nodes' = Append(nodes, t) /\ error' = (~Train!IsFinite(data))
         /\ gradient' = IF ~t.learns \/ op = "leaf" THEN gradient
                        ELSE [cell \in DOMAIN gradient \cup {<<"node", Len(nodes) + 1>>} |->
                                IF cell = <<"node", Len(nodes) + 1>> THEN Train!Zeros(Train!Count(t))
                                ELSE gradient[cell]]
  BY DEF Train!Record, Recorded
<1>3. t.op = op
  BY DEF Recorded
<1> HIDE DEF t
<1>4. CASE error' = TRUE /\ UNCHANGED <<nodes, gradient>>
  BY <1>1, <1>4, TapeStutters
<1>5. CASE ~(error' = TRUE /\ UNCHANGED <<nodes, gradient>>)
  <2>1. /\ Graph(nodes, evaluation) /\ Gradients(nodes, gradient) /\ Fresh(nodes, gradient)
        /\ ParameterTyped(before)
        /\ \A p \in DOMAIN Parameters : gradient[<<"parameter", p>>] = before[<<"parameter", p>>]
    BY <1>1 DEF TapeInv
  <2>2. Grown(nodes, evaluation, gradient, t, gradient')
    BY <1>2, <1>3, <1>5, <2>1 DEF Grown, t
  <2>3. /\ Graph(nodes', evaluation') /\ Gradients(nodes', gradient') /\ Fresh(nodes', gradient')
        /\ \A p \in DOMAIN Parameters : gradient'[<<"parameter", p>>] = gradient[<<"parameter", p>>]
    <3> DEFINE ms == Append(nodes, t)
    <3>1. /\ Graph(ms, evaluation) /\ Gradients(ms, gradient') /\ Fresh(ms, gradient')
          /\ \A p \in DOMAIN Parameters : gradient'[<<"parameter", p>>] = gradient[<<"parameter", p>>]
      BY <2>2, GrownGraph
    <3>2. nodes' = ms /\ evaluation' = evaluation
      BY <1>1, <1>2, <1>5
    <3> HIDE DEF ms
    <3> QED BY <3>1, <3>2
  <2>4. (/\ Graph(nodes, evaluation) /\ Gradients(nodes, gradient) /\ Fresh(nodes, gradient)
         /\ ParameterTyped(before)
         /\ \A p \in DOMAIN Parameters : gradient[<<"parameter", p>>] = before[<<"parameter", p>>])'
    BY <1>1, <2>1, <2>3 DEF ParameterTyped
  <2>5. error' \in BOOLEAN
    BY <1>2, <1>5 DEF Train!IsFinite
  <2>6. /\ \A p \in DOMAIN Parameters : values'[p] \in [1 .. Train!Count(Parameters[p]) -> Int]
        /\ \A p \in DOMAIN Parameters : applied'[p] = steps'
        /\ phase' = "build"
    BY <1>1 DEF TapeInv
  <2> QED BY <2>4, <2>5, <2>6 DEF TapeInv
<1> QED BY <1>4, <1>5

LEMMA InputKeeps == ASSUME TapeInv, NEW i \in DOMAIN Features, Train!Input(i) PROVE TapeInv'
<1> DEFINE t == Recorded("input", 0, 0, Features[i].rows, Features[i].columns, 0, FALSE, Features[i].data)
           ms == Append(nodes, t)
<1>1. ms[Len(nodes) + 1] = t /\ evaluation \in BOOLEAN
  <2> HIDE DEF t
  <2>1. Graph(nodes, evaluation)
    BY DEF TapeInv
  <2>2. ms[Len(nodes) + 1] = t
    BY <2>1, GraphAppend
  <2>3. evaluation \in BOOLEAN
    BY <2>1 DEF Graph
  <2> QED BY <2>2, <2>3
<1>2. Filled(t) /\ t.learns = FALSE /\ t.op = "input"
  BY TapeAssumption DEF Filled, Recorded
<1> HIDE DEF t, ms
<1>3. Node(ms, evaluation, Len(nodes) + 1)
  BY <1>1, <1>2 DEF Node
<1>4. Train!Record("input", 0, 0, Features[i].rows, Features[i].columns, 0, FALSE, Features[i].data, 0)
  BY DEF Train!Input
<1> QED BY <1>3, <1>4, RecordKeeps DEF ms, t

LEMMA LeafKeeps == ASSUME TapeInv, NEW p \in DOMAIN Parameters, Train!Leaf(p) PROVE TapeInv'
<1> DEFINE t == Recorded("leaf", 0, 0, Parameters[p].rows, Parameters[p].columns, p, TRUE, values[p])
           ms == Append(nodes, t)
<1>1. ms[Len(nodes) + 1] = t /\ evaluation \in BOOLEAN
  <2> HIDE DEF t
  <2>1. Graph(nodes, evaluation)
    BY DEF TapeInv
  <2>2. ms[Len(nodes) + 1] = t
    BY <2>1, GraphAppend
  <2>3. evaluation \in BOOLEAN
    BY <2>1 DEF Graph
  <2> QED BY <2>2, <2>3
<1>2. /\ Filled(t) /\ t.op = "leaf" /\ t.of = p /\ t.rows = Parameters[p].rows
      /\ t.columns = Parameters[p].columns /\ t.learns = (~evaluation)
  <2>1. values[p] \in [1 .. Train!Count(Parameters[p]) -> Int]
    BY DEF TapeInv
  <2> QED BY <2>1, TapeAssumption DEF Filled, Recorded, Train!Count
<1> HIDE DEF t, ms
<1>3. t.learns \in BOOLEAN /\ (evaluation => ~t.learns) /\ (evaluation \/ t.learns)
  BY <1>1, <1>2
<1>4. Node(ms, evaluation, Len(nodes) + 1)
  BY <1>1, <1>2, <1>3 DEF Node
<1>5. Train!Record("leaf", 0, 0, Parameters[p].rows, Parameters[p].columns, p, TRUE, values[p], 0)
  BY DEF Train!Leaf
<1> QED BY <1>4, <1>5, RecordKeeps DEF ms, t

\* What an operation computes of integers are integers.
LEMMA ValueTyped ==
  ASSUME NEW t, NEW a, NEW b, Filled(t), Filled(a), Filled(b), Follows(t, a, b), a = nodes[t.a], b = nodes[t.b]
  PROVE  Train!Value(t, a, a.data, b, b.data) \in [1 .. Train!Count(t) -> Int]
<1> DEFINE V == Train!Value(t, a, a.data, b, b.data)
           n == Train!Count(t)
<1>1. /\ a.data \in [1 .. Train!Count(a) -> Int] /\ b.data \in [1 .. Train!Count(b) -> Int]
      /\ t.data \in [1 .. n -> Int]
  BY TensorLaid
<1>2. CASE t.op = "mul"
  <2>1. Spread(t, a) /\ Spread(t, b)
    BY <1>2, BothSpread
  <2>2. V = [k \in 1 .. n |-> a.data[Train!Broadcast(a, k, t.columns)] * b.data[Train!Broadcast(b, k, t.columns)]]
    BY <1>2 DEF Train!Value
  <2>3. ASSUME NEW k \in 1 .. n
        PROVE  a.data[Train!Broadcast(a, k, t.columns)] * b.data[Train!Broadcast(b, k, t.columns)] \in Int
    <3>1. /\ Train!Broadcast(a, k, t.columns) \in 1 .. Train!Count(a)
          /\ Train!Broadcast(b, k, t.columns) \in 1 .. Train!Count(b)
      BY <2>1, BroadcastInside
    <3>2. a.data[Train!Broadcast(a, k, t.columns)] \in Int /\ b.data[Train!Broadcast(b, k, t.columns)] \in Int
      BY <1>1, <3>1
    <3> QED BY <3>2, ProductLaws
  <2> HIDE DEF V
  <2> QED BY <2>2, <2>3 DEF V
<1>3. CASE t.op = "linear"
  <2>1. a.columns = b.columns /\ t.rows = a.rows /\ t.columns = b.rows
    BY <1>3 DEF Follows
  <2>2. V = Multiplied(t, a, b, a.data)
    BY <1>3 DEF Train!Value, Multiplied
  <2>3. Multiplied(t, a, b, a.data) \in [1 .. n -> Int]
    BY <1>1, <2>1, MultipliedType
  <2> QED BY <2>2, <2>3
<1>4. CASE t.op \notin {"mul", "linear"}
  <2>1. Operation(t, a, b, a.data, b.data)
    BY <1>1 DEF Operation
  <2>2. Derives(t, a, b, a.data, b.data)
    BY <1>1, <2>1, EveryFlow
  <2>3. Change(t, a, b, a.data, b.data) = V
    BY <1>4 DEF Change
  <2> HIDE DEF V
  <2> QED BY <2>2, <2>3 DEF Derives, V
<1> QED BY <1>2, <1>3, <1>4

LEMMA ComputedKeeps ==
  ASSUME TapeInv, NEW op, NEW i \in 1 .. Len(nodes), NEW j \in 1 .. Len(nodes),
         NEW rows \in Nat \ {0}, NEW columns \in Nat \ {0}, NEW of, NEW extra,
         Train!Computed(op, i, j, rows, columns, of, extra),
         Follows([op |-> op, rows |-> rows, columns |-> columns, of |-> of], nodes[i], nodes[j])
  PROVE  TapeInv'
<1> DEFINE a == nodes[i]
           b == nodes[j]
           s == [op |-> op, rows |-> rows, columns |-> columns, of |-> of]
           data == Train!Value(s, a, a.data, b, b.data)
           t == Recorded(op, i, j, rows, columns, of, a.learns \/ b.learns, data)
           ms == Append(nodes, t)
           z == [op |-> op, a |-> i, b |-> j, rows |-> rows, columns |-> columns, of |-> of,
                 data |-> [k \in 1 .. rows * columns |-> 0]]
<1>1. Graph(nodes, evaluation)
  BY DEF TapeInv
<1>2. /\ Filled(a) /\ Filled(b) /\ a.learns \in BOOLEAN /\ b.learns \in BOOLEAN /\ evaluation \in BOOLEAN
  BY <1>1, NodeFilled DEF Graph
<1>3. data \in [1 .. rows * columns -> Int]
  <2>1. z.op = op /\ z.rows = rows /\ z.columns = columns /\ z.of = of /\ z.a = i /\ z.b = j
    OBVIOUS
  <2>2. Filled(z)
    BY DEF Filled
  <2>3. s.op = op /\ s.rows = rows /\ s.columns = columns /\ s.of = of
    OBVIOUS
  <2>4. Train!Count(s) = rows * columns /\ Train!Count(z) = rows * columns
    BY <2>1, <2>3 DEF Train!Count
  <2> HIDE DEF z, s
  <2>5. Follows(z, a, b)
    BY <2>1, <2>3, <2>4 DEF Follows, s
  <2>6. Train!Value(z, a, a.data, b, b.data) \in [1 .. Train!Count(z) -> Int]
    BY <1>2, <2>1, <2>2, <2>5, ValueTyped
  <2>7. Train!Value(z, a, a.data, b, b.data) = data
    BY <2>1, <2>3, <2>4 DEF Train!Value
  <2> QED BY <2>4, <2>6, <2>7
<1> HIDE DEF data
<1>4. /\ t.op = op /\ t.a = i /\ t.b = j /\ t.rows = rows /\ t.columns = columns /\ t.of = of
      /\ t.data = data /\ t.learns = ((a.learns \/ b.learns) /\ ~evaluation)
  BY DEF Recorded
<1>5. Filled(t)
  BY <1>3, <1>4 DEF Filled
<1>6. Follows(t, a, b)
  <2>1. Follows(s, a, b) /\ s.op = op /\ s.rows = rows /\ s.columns = columns /\ s.of = of
    OBVIOUS
  <2> HIDE DEF t, s
  <2>2. Train!Count(s) = Train!Count(t)
    BY <1>4, <2>1 DEF Train!Count
  <2> QED BY <1>4, <2>1, <2>2 DEF Follows
<1> HIDE DEF t
<1>7. Len(nodes) \in Nat /\ ms[Len(nodes) + 1] = t /\ \A k \in 1 .. Len(nodes) : ms[k] = nodes[k]
  BY <1>1, GraphAppend
<1> HIDE DEF ms
<1>8. i \in 1 .. Len(nodes) + 1 - 1 /\ j \in 1 .. Len(nodes) + 1 - 1 /\ ms[i] = a /\ ms[j] = b
  BY <1>7
<1>9. t.learns \in BOOLEAN /\ (evaluation => ~t.learns) /\ (a.learns \/ b.learns => evaluation \/ t.learns)
  BY <1>2, <1>4
<1>10. Node(ms, evaluation, Len(nodes) + 1)
  <2> DEFINE n == Len(nodes) + 1
             u == ms[n]
  <2>1. u = t
    BY <1>7
  <2>2. u.a = i /\ u.b = j /\ i \in 1 .. n - 1 /\ j \in 1 .. n - 1 /\ ms[u.a] = a /\ ms[u.b] = b
    BY <1>4, <1>8, <2>1
  <2>3. Filled(u) /\ Follows(u, ms[u.a], ms[u.b])
    BY <1>5, <1>6, <2>1, <2>2
  <2>4. /\ u.learns \in BOOLEAN /\ (evaluation => ~u.learns)
        /\ (ms[u.a].learns \/ ms[u.b].learns => evaluation \/ u.learns)
    BY <1>9, <2>1, <2>2
  <2> HIDE DEF a, b
  <2> QED BY <2>2, <2>3, <2>4 DEF Node
<1>11. Train!Record(op, i, j, rows, columns, of, a.learns \/ b.learns, data, extra)
  BY DEF Train!Computed, data
<1>12. Node(Append(nodes, Recorded(op, i, j, rows, columns, of, a.learns \/ b.learns, data)), evaluation, Len(nodes) + 1)
  BY <1>10 DEF ms, t
<1> QED BY <1>11, <1>12, RecordKeeps

LEMMA NodeSized ==
  ASSUME TapeInv, NEW i \in 1 .. Len(nodes)
  PROVE  nodes[i].rows \in Nat \ {0} /\ nodes[i].columns \in Nat \ {0}
<1>1. Filled(nodes[i])
  BY NodeFilled DEF TapeInv
<1> QED BY <1>1 DEF Filled

LEMMA BinaryKeeps ==
  ASSUME TapeInv, NEW op \in {"add", "mul"}, NEW i \in 1 .. Len(nodes), NEW j \in 1 .. Len(nodes),
         Train!Binary(op, i, j)
  PROVE  TapeInv'
<1> DEFINE a == nodes[i]
           b == nodes[j]
           rows == Train!Larger(a.rows, b.rows)
           columns == Train!Larger(a.columns, b.columns)
<1>1. CASE Train!Matches(a.rows, b.rows) /\ Train!Matches(a.columns, b.columns)
  <2>1. Train!Computed(op, i, j, rows, columns, 0, 0)
    BY <1>1 DEF Train!Binary
  <2>2. rows \in Nat \ {0} /\ columns \in Nat \ {0}
    BY NodeSized DEF Train!Larger
  <2>3. Follows([op |-> op, rows |-> rows, columns |-> columns, of |-> 0], a, b)
    <3> HIDE DEF a, b
    <3> QED BY <1>1 DEF Follows
  <2> HIDE DEF rows, columns
  <2> QED BY <2>1, <2>2, <2>3, ComputedKeeps
<1>2. CASE ~(Train!Matches(a.rows, b.rows) /\ Train!Matches(a.columns, b.columns))
  BY <1>2, RefuseKeeps DEF Train!Binary
<1> QED BY <1>1, <1>2

LEMMA LinearKeeps ==
  ASSUME TapeInv, NEW i \in 1 .. Len(nodes), NEW j \in 1 .. Len(nodes), Train!Linear(i, j)
  PROVE  TapeInv'
<1> DEFINE a == nodes[i]
           b == nodes[j]
<1>1. CASE a.columns = b.columns
  <2>1. Train!Computed("linear", i, j, a.rows, b.rows, 0, 0)
    BY <1>1 DEF Train!Linear
  <2>2. a.rows \in Nat \ {0} /\ b.rows \in Nat \ {0}
    BY NodeSized
  <2>3. Follows([op |-> "linear", rows |-> a.rows, columns |-> b.rows, of |-> 0], a, b)
    BY <1>1 DEF Follows
  <2> QED BY <2>1, <2>2, <2>3, ComputedKeeps
<1>2. CASE a.columns # b.columns
  BY <1>2, RefuseKeeps DEF Train!Linear
<1> QED BY <1>1, <1>2

LEMMA ScaleKeeps ==
  ASSUME TapeInv, NEW i \in 1 .. Len(nodes), NEW s \in Scalars, Train!Scale(i, s)
  PROVE  TapeInv'
<1> DEFINE a == nodes[i]
<1>1. Train!Computed("scale", i, i, a.rows, a.columns, s, 0)
  BY DEF Train!Scale
<1>2. a.rows \in Nat \ {0} /\ a.columns \in Nat \ {0} /\ s \in Int
  BY NodeSized, TapeAssumption
<1>3. Follows([op |-> "scale", rows |-> a.rows, columns |-> a.columns, of |-> s], a, a)
  BY <1>2 DEF Follows
<1> QED BY <1>1, <1>2, <1>3, ComputedKeeps

LEMMA SliceKeeps ==
  ASSUME TapeInv, NEW i \in 1 .. Len(nodes), NEW s \in Slices, Train!Slice(i, s)
  PROVE  TapeInv'
<1> DEFINE a == nodes[i]
<1>1. CASE s.first < a.columns /\ s.count <= a.columns - s.first
  <2>1. Train!Computed("slice", i, i, a.rows, s.count, s.first, 0)
    BY <1>1 DEF Train!Slice
  <2>2. a.rows \in Nat \ {0} /\ a.columns \in Nat \ {0} /\ s.first \in Nat /\ s.count \in Nat \ {0}
    BY NodeSized, TapeAssumption
  <2>3. s.first + s.count <= a.columns
    BY <1>1, <2>2
  <2>4. Follows([op |-> "slice", rows |-> a.rows, columns |-> s.count, of |-> s.first], a, a)
    BY <2>2, <2>3 DEF Follows
  <2> QED BY <2>1, <2>2, <2>4, ComputedKeeps
<1>2. CASE ~(s.first < a.columns /\ s.count <= a.columns - s.first)
  BY <1>2, RefuseKeeps DEF Train!Slice
<1> QED BY <1>1, <1>2

LEMMA ReshapeKeeps ==
  ASSUME TapeInv, NEW i \in 1 .. Len(nodes), NEW s \in Shapes, Train!Reshape(i, s)
  PROVE  TapeInv'
<1> DEFINE a == nodes[i]
           t == [op |-> "reshape", rows |-> s[1], columns |-> s[2], of |-> 0]
<1>1. CASE s[1] * s[2] = Train!Count(a)
  <2>1. Train!Computed("reshape", i, i, s[1], s[2], 0, 0)
    BY <1>1 DEF Train!Reshape
  <2>2. s[1] \in Nat \ {0} /\ s[2] \in Nat \ {0}
    BY TapeAssumption
  <2>3. t.op = "reshape" /\ Train!Count(t) = Train!Count(a)
    BY <1>1 DEF Train!Count
  <2>4. Follows(t, a, a)
    <3> HIDE DEF t
    <3> QED BY <2>3 DEF Follows
  <2> QED BY <2>1, <2>2, <2>4, ComputedKeeps
<1>2. CASE s[1] * s[2] # Train!Count(a)
  BY <1>2, RefuseKeeps DEF Train!Reshape
<1> QED BY <1>1, <1>2

LEMMA MappedKeeps ==
  ASSUME TapeInv, NEW i \in 1 .. Len(nodes), NEW m \in DOMAIN Frozen, Train!Mapped(i, m)
  PROVE  TapeInv'
<1> DEFINE a == nodes[i]
<1>1. CASE a.columns = Frozen[m].columns
  <2>1. Train!Computed("mapped", i, i, a.rows, Frozen[m].rows, m, 0)
    BY <1>1 DEF Train!Mapped
  <2>2. a.rows \in Nat \ {0} /\ Frozen[m].rows \in Nat \ {0}
    BY NodeSized, TapeAssumption DEF Filled
  <2>3. Follows([op |-> "mapped", rows |-> a.rows, columns |-> Frozen[m].rows, of |-> m], a, a)
    BY <1>1 DEF Follows
  <2> QED BY <2>1, <2>2, <2>3, ComputedKeeps
<1>2. CASE a.columns # Frozen[m].columns
  BY <1>2, RefuseKeeps DEF Train!Mapped
<1> QED BY <1>1, <1>2

LEMMA EmbeddingKeeps ==
  ASSUME TapeInv, NEW i \in 1 .. Len(nodes), NEW ids \in Identifiers, Train!Embedding(i, ids)
  PROVE  TapeInv'
<1> DEFINE a == nodes[i]
<1>1. CASE \A n \in 1 .. Len(ids) : ids[n] <= a.rows
  <2>1. PICK extra : Train!Computed("embed", i, i, Len(ids), a.columns, ids, extra)
    BY <1>1 DEF Train!Embedding
  <2>2. a.rows \in Nat \ {0} /\ a.columns \in Nat \ {0} /\ ids \in Seq(Nat \ {0}) /\ ids # <<>>
    BY NodeSized, TapeAssumption
  <2>3. Len(ids) \in Nat \ {0} /\ ids \in [1 .. Len(ids) -> Nat \ {0}]
    BY <2>2
  <2>4. ids \in [1 .. Len(ids) -> 1 .. a.rows]
    BY <1>1, <2>2, <2>3
  <2>5. Follows([op |-> "embed", rows |-> Len(ids), columns |-> a.columns, of |-> ids], a, a)
    BY <2>4 DEF Follows
  <2> QED BY <2>1, <2>2, <2>3, <2>5, ComputedKeeps
<1>2. CASE ~ \A n \in 1 .. Len(ids) : ids[n] <= a.rows
  BY <1>2, RefuseKeeps DEF Train!Embedding
<1> QED BY <1>1, <1>2

LEMMA TapeNext == ASSUME TapeInv, [Train!Next]_(Train!vars) PROVE TapeInv'
<1>1. CASE UNCHANGED Train!vars
  <2>1. /\ UNCHANGED <<phase, evaluation, nodes, gradient, before, values, steps, applied, loss, at>>
        /\ error' = error
    BY <1>1 DEF Train!vars, Train!graph, Train!learnt
  <2>2. error' \in BOOLEAN /\ (error => error')
    BY <2>1 DEF TapeInv
  <2> QED BY <2>1, <2>2, TapeStutters
<1>2. CASE \E e \in BOOLEAN : Train!NewGraph(e)
  BY <1>2, NewGraphKeeps
<1>3. CASE \E i \in DOMAIN Features : Train!Input(i)
  BY <1>3, InputKeeps
<1>4. CASE \E p \in DOMAIN Parameters : Train!Leaf(p) \/ Train!ZeroGrad(p)
  BY <1>4, LeafKeeps, ZeroGradKeeps
<1>5. CASE Train!Build
  <2>1. phase = "build" /\ ~error
    BY <1>5 DEF Train!Build
  <2>2. PICK i \in 1 .. Len(nodes) :
           \/ \E j \in 1 .. Len(nodes) : \/ \E op \in {"add", "mul"} : Train!Binary(op, i, j)
                                         \/ Train!Linear(i, j)
           \/ \E s \in Scalars : Train!Scale(i, s)
           \/ \E s \in Slices : Train!Slice(i, s)
           \/ \E s \in Shapes : Train!Reshape(i, s)
           \/ \E m \in DOMAIN Frozen : Train!Mapped(i, m)
           \/ \E ids \in Identifiers : Train!Embedding(i, ids)
           \/ Train!Backward(i)
    BY <1>5 DEF Train!Build
  <2>3. CASE \E j \in 1 .. Len(nodes) : \E op \in {"add", "mul"} : Train!Binary(op, i, j)
    BY <2>3, BinaryKeeps
  <2>4. CASE \E j \in 1 .. Len(nodes) : Train!Linear(i, j)
    BY <2>4, LinearKeeps
  <2>5. CASE \E s \in Scalars : Train!Scale(i, s)
    BY <2>5, ScaleKeeps
  <2>6. CASE \E s \in Slices : Train!Slice(i, s)
    BY <2>6, SliceKeeps
  <2>7. CASE \E s \in Shapes : Train!Reshape(i, s)
    BY <2>7, ReshapeKeeps
  <2>8. CASE \E m \in DOMAIN Frozen : Train!Mapped(i, m)
    BY <2>8, MappedKeeps
  <2>9. CASE \E ids \in Identifiers : Train!Embedding(i, ids)
    BY <2>9, EmbeddingKeeps
  <2>10. CASE Train!Backward(i)
    BY <2>1, <2>10, BackwardKeeps
  <2> QED BY <2>2, <2>3, <2>4, <2>5, <2>6, <2>7, <2>8, <2>9, <2>10
<1>6. CASE Train!Visit
  BY <1>6, VisitInv
<1>7. CASE Train!UseAgain
  BY <1>7, RefuseKeeps DEF Train!UseAgain
<1>8. CASE Train!FreeGraph
  BY <1>8, FreeGraphKeeps
<1>9. CASE Train!Step
  BY <1>9, StepKeeps
<1> QED BY <1>1, <1>2, <1>3, <1>4, <1>5, <1>6, <1>7, <1>8, <1>9 DEF Train!Next, Train!Names

\* After the walk nothing is still to come.
LEMMA TapeExact == ASSUME TapeInv PROVE Train!GradientsAreExact
<1>1. ASSUME phase = "walked", ~error, NEW p \in DOMAIN Parameters, NEW e \in 1 .. Train!Count(Parameters[p])
      PROVE  gradient[<<"parameter", p>>][e] = before[<<"parameter", p>>][e] + Train!Tangent(p, e)
  <2>1. Graph(nodes, evaluation) /\ Gradients(nodes, gradient) /\ at = 0
    BY <1>1 DEF TapeInv
  <2>2. PICK h : Tangents(nodes, p, e, h) /\ Train!Tangent(p, e) = h[loss][1]
    BY <2>1, TangentIs
  <2>3. Deriving(nodes, evaluation, p, e, h)
    BY <2>1, <2>2, TangentsTyped DEF Deriving
  <2>4. Worth(nodes, p, e, h, gradient, 0) = before[<<"parameter", p>>][e] + h[loss][1]
    BY <1>1, <2>1, <2>3 DEF TapeInv, Due
  <2>5. Pending(nodes, h, gradient, 0) = 0
    <3>1. 1 .. 0 = {}
      OBVIOUS
    <3> QED BY <3>1, PartNone DEF Pending
  <2>6. gradient[<<"parameter", p>>][e] \in Int
    BY <2>1 DEF Gradients
  <2> QED BY <2>2, <2>4, <2>5, <2>6 DEF Worth
<1>2. ASSUME phase = "build" \/ evaluation, NEW p \in DOMAIN Parameters
      PROVE  gradient[<<"parameter", p>>] = before[<<"parameter", p>>]
  BY <1>2 DEF TapeInv
<1>3. \A p \in DOMAIN Parameters : applied[p] = steps
  BY DEF TapeInv
<1> QED BY <1>1, <1>2, <1>3 DEF Train!GradientsAreExact, Train!Names

(* After the walk each parameter's gradient has grown by the derivative of *)
(* the loss for each of its elements, over every path of any graph and     *)
(* every leaf that borrows it; until backward is called, and in            *)
(* evaluation, it has not changed.  A step of the optimizer reaches all    *)
(* parameters or none (nya_train_backward, tr_node, nya_train_adamw_step). *)
THEOREM TapeGradientsAreExact == EngineSpec => []GradientsAreExact
<1> DEFINE Inv == driven = "tape" => TapeInv
<1>1. EngineInit => Inv
  BY TapeInitInv DEF EngineInit
<1>2. Inv /\ [EngineNext]_every => Inv'
  <2> SUFFICES ASSUME Inv, [EngineNext]_every, (driven = "tape")' PROVE TapeInv'
    OBVIOUS
  <2>1. driven = "tape" /\ [Train!Next]_(Train!vars)
    BY DEF EngineNext, every, tape, Train!vars, Train!graph, Train!learnt
  <2> QED BY <2>1, TapeNext
<1>3. Inv => GradientsAreExact
  BY TapeExact DEF GradientsAreExact
<1> QED BY <1>1, <1>2, <1>3, PTL DEF EngineSpec
=============================================================================
