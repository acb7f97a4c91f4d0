----------------------------- MODULE InputsProofs ----------------------------
(***************************************************************************)
(* Theorems about what the program reads: requests of every length in      *)
(* pieces of every size, configuration files of any lines and any command  *)
(* line, model files with any directory, JSON texts of any depth.          *)
(***************************************************************************)
EXTENDS MCInputs, FiniteSetTheorems, FunctionTheorems, WellFoundedInduction, SequenceTheorems, TLAPS

-----------------------------------------------------------------------------
(* HTTP requests.                                                          *)

LEMMA LessIsWellFounded == IsWellFoundedOn({ss \in Nat \X Nat : ss[1] < ss[2]}, Nat)
  BY NatLessThanWellFounded DEF OpToRel

\* A set of naturals that is not empty has a least element.
LEMMA LeastElement ==
  ASSUME NEW T, T \subseteq Nat, T # {}
  PROVE  \E x \in T : \A y \in T : x <= y
<1> DEFINE R == {ss \in Nat \X Nat : ss[1] < ss[2]}
<1>1. \E x \in T : \A y \in T : ~(<<y, x>> \in R)
  <2>1. IsWellFoundedOn(R, Nat)
    BY LessIsWellFounded
  <2> HIDE DEF R
  <2> QED BY <2>1, WFMin
<1>2. PICK x \in T : \A y \in T : ~(<<y, x>> \in R)
  BY <1>1
<1>3. ASSUME NEW y \in T PROVE x <= y
  <2>1. x \in Nat /\ y \in Nat /\ ~(<<y, x>> \in R)
    BY <1>2
  <2>2. ~(y < x)
    BY <2>1
  <2> QED BY <2>1, <2>2
<1> QED BY <1>3

LEMMA FirstEnd ==
  ASSUME NEW n \in Nat, Http!Ends(n) # {}
  PROVE  /\ Http!Min(Http!Ends(n)) \in Http!Ends(n)
         /\ \A i \in Http!Ends(n) : Http!Min(Http!Ends(n)) <= i
<1> DEFINE T == Http!Ends(n)
<1>1. T \subseteq Nat
  BY DEF Http!Ends
<1>2. \E x \in T : \A y \in T : x <= y
  <2>1. T # {}
    OBVIOUS
  <2> HIDE DEF T
  <2> QED BY <1>1, <2>1, LeastElement
<1>3. Http!Min(T) = CHOOSE x \in T : \A y \in T : x <= y
  BY DEF Http!Min
<1> HIDE DEF T
<1>4. Http!Min(T) \in T /\ \A i \in T : Http!Min(T) <= i
  BY <1>2, <1>3
<1> QED BY <1>4 DEF T

\* The first end of the headers is where it is whatever has arrived behind it,
\* and what has arrived without one, or with a NUL in it, has none before.
LEMMA EndStays ==
  ASSUME NEW n \in Nat, NEW m \in Nat, n <= m
  PROVE  /\ Http!Ends(n) # {} => /\ Http!Ends(m) # {}
                                 /\ Http!Min(Http!Ends(n)) = Http!Min(Http!Ends(m))
                                 /\ Http!Min(Http!Ends(n)) \in 2 .. n
         /\ Http!Ends(n) = {} => \A i \in Http!Ends(m) : i > n
         /\ Http!Ends(n) = {} /\ Http!HasNul(n) => Http!Ends(m) = {}
<1>1. \A i \in 2 .. m : i <= n => (i \in Http!Ends(m) <=> i \in Http!Ends(n))
  BY DEF Http!Ends
<1>2. Http!Ends(n) \subseteq 2 .. n /\ Http!Ends(m) \subseteq 2 .. m /\ 2 .. n \subseteq 2 .. m
  BY DEF Http!Ends
<1>3. ASSUME Http!Ends(n) # {}
      PROVE  /\ Http!Ends(m) # {} /\ Http!Min(Http!Ends(n)) = Http!Min(Http!Ends(m))
             /\ Http!Min(Http!Ends(n)) \in 2 .. n
  <2> DEFINE x == Http!Min(Http!Ends(n))
             y == Http!Min(Http!Ends(m))
  <2>1. x \in Http!Ends(n) /\ \A i \in Http!Ends(n) : x <= i
    BY <1>3, FirstEnd
  <2>2. x \in Http!Ends(m) /\ x \in 2 .. n
    BY <1>1, <1>2, <2>1
  <2>3. y \in Http!Ends(m) /\ \A i \in Http!Ends(m) : y <= i
    BY <2>2, FirstEnd
  <2> HIDE DEF x, y
  <2>4. y <= x /\ y \in 2 .. m
    BY <1>2, <2>2, <2>3
  <2>5. y <= n
    BY <2>2, <2>4
  <2>6. y \in Http!Ends(n)
    BY <1>1, <2>3, <2>4, <2>5
  <2>7. x <= y
    BY <2>1, <2>6
  <2>8. x = y
    BY <2>2, <2>4, <2>7
  <2> QED BY <2>2, <2>8 DEF x, y
<1>4. ASSUME Http!Ends(n) = {}, NEW i \in Http!Ends(m) PROVE i > n
  BY <1>1, <1>2, <1>4
<1>5. ASSUME Http!Ends(n) = {}, Http!HasNul(n) PROVE Http!Ends(m) = {}
  <2> SUFFICES ASSUME NEW i \in Http!Ends(m) PROVE FALSE
    OBVIOUS
  <2>1. i > n /\ i \in 2 .. m /\ \A j \in 1 .. i : stream[j] # "nul"
    BY <1>4, <1>5 DEF Http!Ends
  <2>2. PICK j \in 1 .. n : stream[j] = "nul"
    BY <1>5 DEF Http!HasNul
  <2>3. j \in 1 .. i
    BY <2>1
  <2> QED BY <2>1, <2>2, <2>3
<1> QED BY <1>3, <1>4, <1>5

\* The length that the values of Content-Length mean.
Meant(values) == IF values = {} THEN 0 ELSE Length[CHOOSE v \in values : TRUE]

\* What is said of a stream changes with the stream only.
LEMMA SameStream ==
  ASSUME stream' = stream
  PROVE  /\ \A n : Http!Ends(n)' = Http!Ends(n)
         /\ \A h, name : Http!Values(h, name)' = Http!Values(h, name)
         /\ \A h : Http!BodyLength(h)' = Http!BodyLength(h)
         /\ \A h : Http!HeaderResult(h)' = Http!HeaderResult(h)
         /\ Http!Whole' <=> Http!Whole
<1>1. \A n : Http!Ends(n)' = Http!Ends(n)
  BY DEF Http!Ends
<1>2. \A h : Http!HeaderLines(h)' = Http!HeaderLines(h)
  BY DEF Http!HeaderLines
<1>3. \A h : Http!WellFormed(h)' <=> Http!WellFormed(h)
  BY <1>2 DEF Http!WellFormed
<1>4. \A h, name : Http!Named(h, name)' = Http!Named(h, name)
  BY <1>2 DEF Http!Named
<1>5. \A h, name : Http!Values(h, name)' = Http!Values(h, name)
  BY <1>4 DEF Http!Values
<1>6. \A h, name : Http!Readable(h, name)' <=> Http!Readable(h, name)
  BY <1>3, <1>4 DEF Http!Readable
<1>7. ASSUME NEW h PROVE Http!BodyLength(h)' = Http!BodyLength(h)
  <2>1. Http!Values(h, "Content-Length")' = Http!Values(h, "Content-Length")
    BY <1>5
  <2>2. Http!BodyLength(h) = Meant(Http!Values(h, "Content-Length"))
    BY DEF Http!BodyLength, Meant
  <2>3. Http!BodyLength(h)' = Meant(Http!Values(h, "Content-Length")')
    BY DEF Http!BodyLength, Meant
  <2> QED BY <2>1, <2>2, <2>3
<1>8. \A h : Http!HeaderResult(h)' = Http!HeaderResult(h)
  BY <1>5, <1>6, <1>7 DEF Http!HeaderResult
<1>9. Http!Whole' <=> Http!Whole
  BY <1>1, <1>3, <1>4, <1>5, <1>7 DEF Http!Whole
<1> QED BY <1>1, <1>5, <1>7, <1>8, <1>9

LEMMA BodyLengthType ==
  ASSUME NEW h \in Nat, Http!Values(h, "Content-Length") \subseteq DOMAIN Length
  PROVE  Http!BodyLength(h) \in Nat
  BY InputsAssumption DEF Http!BodyLength

LEMMA HeadersAre ==
  ASSUME NEW h \in Nat
  PROVE  /\ Http!HeaderResult(h) \in {1, -1, -2, -3}
         /\ Http!HeaderResult(h) = 1 <=>
              /\ h <= HeaderLimit /\ Http!Readable(h, "Content-Length")
              /\ Http!Values(h, "Content-Length") \subseteq DOMAIN Length
              /\ Http!Readable(h, "Transfer-Encoding")
              /\ Http!Values(h, "Transfer-Encoding") = {}
              /\ h + Http!BodyLength(h) <= Capacity - 1
         /\ Http!HeaderResult(h) = 1 => Http!BodyLength(h) \in Nat
<1>1. Http!HeaderResult(h) \in {1, -1, -2, -3}
  BY DEF Http!HeaderResult, Http!Running
<1>2. CASE Http!Values(h, "Content-Length") \subseteq DOMAIN Length
  <2>1. Http!BodyLength(h) \in Nat /\ Capacity \in Nat /\ HeaderLimit \in Nat
    BY <1>2, BodyLengthType, InputsAssumption
  <2>2. Http!BodyLength(h) > Capacity - h - 1 <=> ~(h + Http!BodyLength(h) <= Capacity - 1)
    BY <2>1
  <2>3. h > HeaderLimit <=> ~(h <= HeaderLimit)
    BY <2>1
  <2> QED BY <1>1, <1>2, <2>1, <2>2, <2>3 DEF Http!HeaderResult, Http!Running
<1>3. CASE ~(Http!Values(h, "Content-Length") \subseteq DOMAIN Length)
  BY <1>1, <1>3 DEF Http!HeaderResult, Http!Running
<1> QED BY <1>2, <1>3

\* A stream begins with a whole request when its headers pass both rounds of
\* checks and its body is there.
LEMMA WholeIs ==
  ASSUME Len(stream) \in Nat, Http!Ends(Len(stream)) # {}, NEW h \in Nat,
         h = Http!Min(Http!Ends(Len(stream)))
  PROVE  Http!Whole <=> /\ Http!HeaderResult(h) = 1 /\ Http!ParseResult(h) = 0
                        /\ h + Http!BodyLength(h) <= Len(stream)
<1>1. Http!Values(h, "Transfer-Encoding") = {} <=> Http!Named(h, "Transfer-Encoding") = {}
  BY DEF Http!Values
<1>2. Http!Named(h, "Transfer-Encoding") = {} => Http!Cardinality(Http!Named(h, "Transfer-Encoding")) <= 1
  <2>1. Http!Cardinality({}) = Cardinality({})
    BY Zenon DEF Http!Cardinality, Cardinality
  <2>2. Cardinality({}) <= 1
    BY FS_EmptySet
  <2> QED BY <2>1, <2>2
<1> DEFINE once(name) == Http!Cardinality(Http!Named(h, name)) <= 1
<1>3. \A name : Http!Readable(h, name) <=> Http!WellFormed(h) /\ once(name)
  BY DEF Http!Readable
<1>4. Http!ParseResult(h) = 0 <=>
        /\ stream[1] \in Starts
        /\ \A name \in {"Authorization", "x-api-key", "Origin"} : Http!Readable(h, name)
  BY DEF Http!ParseResult
<1>5. Http!Whole <=>
        /\ h <= HeaderLimit /\ Http!WellFormed(h)
        /\ \A name \in {"Content-Length", "Authorization", "x-api-key", "Origin"} : once(name)
        /\ Http!Named(h, "Transfer-Encoding") = {}
        /\ Http!Values(h, "Content-Length") \subseteq DOMAIN Length
        /\ stream[1] \in Starts
        /\ h + Http!BodyLength(h) <= Capacity - 1
        /\ h + Http!BodyLength(h) <= Len(stream)
  BY DEF Http!Whole
<1> HIDE DEF once
<1> QED BY <1>1, <1>2, <1>3, <1>4, <1>5, HeadersAre DEF once

\* Where the receiver is: the end of the headers is known as soon as it has
\* arrived, and a request that is still received has passed what was checked.
HttpHeads ==
  /\ stream \in Streams /\ total \in 0 .. Len(stream)
  /\ head = IF Http!Ends(total) = {} THEN 0 ELSE Http!Min(Http!Ends(total))
  /\ result \in {1, 0, -1, -2, -3, -4}
  /\ result = 1 /\ head # 0 => /\ Http!HeaderResult(head) = 1
                               /\ declared = Http!BodyLength(head)

HttpInv == HttpHeads /\ Http!FramingIsExact

LEMMA HttpInitInv == Http!Init => HttpInv
<1> SUFFICES ASSUME Http!Init PROVE HttpInv
  OBVIOUS
<1>1. /\ stream \in Streams /\ total = 0 /\ head = 0 /\ result = 1 /\ status = 0
      /\ Len(stream) \in Nat
  BY InputsAssumption DEF Http!Init, Http!Running
<1>2. Http!Ends(0) = {}
  BY DEF Http!Ends
<1>3. HttpHeads
  BY <1>1, <1>2 DEF HttpHeads
<1>4. Http!FramingIsExact
  BY <1>1 DEF Http!FramingIsExact
<1> QED BY <1>3, <1>4 DEF HttpInv

\* What is known of the headers that have arrived.
LEMMA HeadIs ==
  ASSUME HttpHeads
  PROVE  /\ Len(stream) \in Nat /\ total \in Nat /\ total <= Len(stream) /\ head \in Nat
         /\ head = 0 <=> Http!Ends(total) = {}
         /\ head # 0 => /\ head = Http!Min(Http!Ends(Len(stream))) /\ head <= total
                        /\ Http!Ends(Len(stream)) # {}
<1>1. Len(stream) \in Nat /\ total \in Nat /\ total <= Len(stream)
  BY InputsAssumption DEF HttpHeads
<1>2. CASE Http!Ends(total) = {}
  BY <1>1, <1>2 DEF HttpHeads
<1>3. CASE Http!Ends(total) # {}
  <2>1. head = Http!Min(Http!Ends(total))
    BY <1>3 DEF HttpHeads
  <2>2. /\ head \in 2 .. total /\ head = Http!Min(Http!Ends(Len(stream)))
        /\ Http!Ends(Len(stream)) # {}
    BY <1>1, <1>3, <2>1, EndStays
  <2> QED BY <1>1, <1>3, <2>2
<1> QED BY <1>2, <1>3

\* What a step of the receiver has to show.
LEMMA HttpFramed ==
  ASSUME HttpInv, result = 1, UNCHANGED <<stream, status>>,
         total' \in Nat, total' <= Len(stream), result' \in {1, 0, -1, -2, -3, -4},
         head' = IF Http!Ends(total') = {} THEN 0 ELSE Http!Min(Http!Ends(total')),
         result' = 1 /\ head' # 0 => /\ Http!HeaderResult(head') = 1
                                     /\ declared' = Http!BodyLength(head'),
         result' = 0 => /\ Http!Whole /\ head' = Http!Min(Http!Ends(Len(stream)))
                        /\ declared' = Http!BodyLength(head') /\ total' >= head' + declared',
         result' \in {-1, -2, -3} /\ ~lost' => ~Http!Whole
  PROVE  HttpInv'
<1>1. /\ \A k : Http!Ends(k)' = Http!Ends(k)
      /\ \A h : Http!BodyLength(h)' = Http!BodyLength(h)
      /\ \A h : Http!HeaderResult(h)' = Http!HeaderResult(h)
      /\ Http!Whole' <=> Http!Whole
  BY SameStream
<1>2. stream' = stream /\ stream \in Streams /\ Len(stream) \in Nat /\ total' \in 0 .. Len(stream)
  BY InputsAssumption DEF HttpInv, HttpHeads
<1>3. status' # 200
  BY DEF HttpInv, Http!FramingIsExact
<1>4. Http!Ends(total)' = Http!Ends(total') /\ Http!Ends(Len(stream))' = Http!Ends(Len(stream))
      /\ Http!HeaderResult(head)' = Http!HeaderResult(head')
      /\ Http!BodyLength(head)' = Http!BodyLength(head')
  BY <1>1, <1>2
<1>5. HttpHeads'
  BY <1>2, <1>4 DEF HttpHeads
<1>6. Http!FramingIsExact'
  BY <1>1, <1>2, <1>3, <1>4 DEF Http!FramingIsExact
<1> QED BY <1>5, <1>6 DEF HttpInv

LEMMA HttpPiece ==
  ASSUME HttpInv, NEW n \in Int, n > 0, total + n <= Len(stream), total + n < Capacity, Http!Piece(n)
  PROVE  HttpInv'
<1>1. /\ result = 1 /\ total' = total + n /\ UNCHANGED <<stream, lost, status, sent>>
      /\ head' = IF head # 0 THEN head
                 ELSE IF Http!Ends(total') = {} THEN 0 ELSE Http!Min(Http!Ends(total'))
      /\ declared' = IF head' = 0 \/ Http!HeaderResult(head') # 1 THEN 0
                     ELSE Http!BodyLength(head')
      /\ result' = Http!Examined
  BY DEF Http!Piece, Http!Running
<1>2. /\ Len(stream) \in Nat /\ total \in Nat /\ total' \in Nat /\ head \in Nat
      /\ head = 0 <=> Http!Ends(total) = {}
      /\ Capacity \in Nat /\ HeaderLimit \in Nat
      /\ total <= total' /\ total' <= Len(stream) /\ total' < Capacity
  BY <1>1, HeadIs, InputsAssumption DEF HttpInv
<1>3. head' = IF Http!Ends(total') = {} THEN 0 ELSE Http!Min(Http!Ends(total'))
  <2>1. CASE head = 0
    BY <1>1, <2>1
  <2>2. CASE head # 0
    <3>1. head = Http!Min(Http!Ends(total))
      BY <1>2, <2>2 DEF HttpInv, HttpHeads
    <3> QED BY <1>1, <1>2, <2>2, <3>1, EndStays
  <2> QED BY <2>1, <2>2
<1>4. head' = 0 => /\ Http!Ends(total') = {}
                   /\ \A i \in Http!Ends(Len(stream)) : i > total'
                   /\ Http!HasNul(total') => Http!Ends(Len(stream)) = {}
  <2>1. Http!Ends(total') # {} => Http!Min(Http!Ends(total')) \in 2 .. total'
    BY <1>2, EndStays
  <2> QED BY <1>2, <1>3, <2>1, EndStays
<1>5. head' # 0 => /\ Http!Ends(Len(stream)) # {} /\ head' \in Nat /\ head' <= total'
                   /\ head' = Http!Min(Http!Ends(Len(stream)))
  <2>1. Http!Ends(total') # {} =>
          /\ Http!Ends(Len(stream)) # {}
          /\ Http!Min(Http!Ends(total')) = Http!Min(Http!Ends(Len(stream)))
          /\ Http!Min(Http!Ends(total')) \in 2 .. total'
    BY <1>2, EndStays
  <2> QED BY <1>2, <1>3, <2>1
\* A whole request ends its headers, and those within every limit.
<1>6. Http!Whole => LET h == Http!Min(Http!Ends(Len(stream)))
                    IN  /\ Http!Ends(Len(stream)) # {} /\ h \in Http!Ends(Len(stream))
                        /\ h <= HeaderLimit /\ h <= Capacity - 1
  <2> SUFFICES ASSUME Http!Whole
               PROVE  LET h == Http!Min(Http!Ends(Len(stream)))
                      IN  /\ Http!Ends(Len(stream)) # {} /\ h \in Http!Ends(Len(stream))
                          /\ h <= HeaderLimit /\ h <= Capacity - 1
    OBVIOUS
  <2>1. Http!Ends(Len(stream)) # {}
    BY DEF Http!Whole
  <2>2. Http!Min(Http!Ends(Len(stream))) \in Http!Ends(Len(stream))
    BY <1>2, <2>1, FirstEnd
  <2>3. PICK h \in Nat : h = Http!Min(Http!Ends(Len(stream)))
    <3>1. Http!Ends(Len(stream)) \subseteq Nat
      BY DEF Http!Ends
    <3> QED BY <2>2, <3>1
  <2>4. h <= HeaderLimit /\ h + Http!BodyLength(h) <= Capacity - 1
        /\ Http!Values(h, "Content-Length") \subseteq DOMAIN Length
    BY <2>3 DEF Http!Whole
  <2>5. Http!BodyLength(h) \in Nat
    BY <2>4, BodyLengthType
  <2> QED BY <1>2, <2>1, <2>2, <2>3, <2>4, <2>5
<1>7. CASE head' = 0
  <2>1. result' \in {1, -1, -2, -3}
    BY <1>1, <1>7 DEF Http!Examined, Http!Running
  <2>2. Http!Whole /\ result' # 1 => FALSE
    <3> SUFFICES ASSUME Http!Whole, result' # 1 PROVE FALSE
      OBVIOUS
    <3>1. PICK h \in Http!Ends(Len(stream)) : h <= HeaderLimit /\ h <= Capacity - 1
      BY <1>6
    <3>2. h > total' /\ h \in Nat /\ ~Http!HasNul(total')
      BY <1>4, <1>7, <3>1 DEF Http!Ends
    <3>3. total' < HeaderLimit /\ total' < Capacity - 1
      BY <1>2, <3>1, <3>2
    <3>4. ~(total' >= HeaderLimit) /\ ~(total' >= Capacity - 1)
      BY <1>2, <3>3
    <3>5. Http!Examined = 1
      BY <1>7, <3>2, <3>4 DEF Http!Examined, Http!Running
    <3> QED BY <1>1, <3>5
  <2> QED BY <1>1, <1>2, <1>3, <1>7, <2>1, <2>2, HttpFramed
<1>8. CASE head' # 0
  <2>1. PICK h \in Nat : h = head'
    BY <1>5, <1>8
  <2>2. /\ Http!HeaderResult(h) \in {1, -1, -2, -3}
        /\ Http!HeaderResult(h) = 1 => /\ Http!BodyLength(h) \in Nat
                                       /\ h + Http!BodyLength(h) <= Capacity - 1
    BY HeadersAre
  <2>3. Http!Whole <=> /\ Http!HeaderResult(h) = 1 /\ Http!ParseResult(h) = 0
                       /\ h + Http!BodyLength(h) <= Len(stream)
    BY <1>2, <1>5, <1>8, <2>1, WholeIs
  <2>4. Http!ParseResult(h) \in {0, -1}
    BY DEF Http!ParseResult
  <2>5. CASE Http!HeaderResult(h) # 1
    <3>1. result' = Http!HeaderResult(h)
      BY <1>1, <1>8, <2>1, <2>5 DEF Http!Examined, Http!Running
    <3> QED BY <1>1, <1>2, <1>3, <2>2, <2>3, <2>5, <3>1, HttpFramed
  <2>6. CASE Http!HeaderResult(h) = 1
    <3>1. declared' = Http!BodyLength(h)
      BY <1>1, <1>8, <2>1, <2>6
    <3>2. CASE total' >= h + Http!BodyLength(h)
      <4>1. result' = Http!ParseResult(h)
        BY <1>1, <1>8, <2>1, <2>6, <3>1, <3>2 DEF Http!Examined, Http!Running
      <4>2. h + Http!BodyLength(h) <= Len(stream)
        BY <1>2, <2>2, <2>6, <3>2
      <4> QED BY <1>1, <1>2, <1>3, <1>5, <1>8, <2>1, <2>3, <2>4, <2>6, <3>1, <3>2, <4>1, <4>2,
                 HttpFramed, SMTT(30)
    <3>3. CASE ~(total' >= h + Http!BodyLength(h))
      <4>1. ~(total' >= Capacity - 1)
        BY <1>2, <2>2, <2>6, <3>3
      <4>2. result' = 1
        BY <1>1, <1>8, <2>1, <2>6, <3>1, <3>3, <4>1 DEF Http!Examined, Http!Running
      <4> QED BY <1>1, <1>2, <1>3, <2>1, <2>6, <3>1, <4>2, HttpFramed
    <3> QED BY <3>2, <3>3
  <2> QED BY <2>5, <2>6
<1> QED BY <1>7, <1>8

\* The parts of the property: what was received, and what is executed.
Received ==
  /\ result = 0 => /\ Http!Whole
                   /\ head = Http!Min(Http!Ends(Len(stream)))
                   /\ declared = Http!BodyLength(head) /\ total >= head + declared
  /\ result \in {-1, -2, -3} /\ ~lost => ~Http!Whole

Shown == Http!Values(head, "Authorization")
         \cup (IF stream[1] \in KeyStarts THEN Http!Values(head, "x-api-key") ELSE {})

Executed == result = 0 /\ Shown = {"token"} /\ Http!Values(head, "Origin") \subseteq {"allowed"}

LEMMA FramingParts == Http!FramingIsExact <=> Received /\ (status = 200 => Executed)
  BY DEF Http!FramingIsExact, Received, Executed, Shown

\* Nothing of this changes when no more is received.
LEMMA HttpRests ==
  ASSUME HttpInv, UNCHANGED <<stream, total, head, declared, result, lost>>
  PROVE  HttpHeads' /\ Received' /\ (Executed' <=> Executed)
<1>1. /\ \A k : Http!Ends(k)' = Http!Ends(k)
      /\ \A h : Http!BodyLength(h)' = Http!BodyLength(h)
      /\ \A h : Http!HeaderResult(h)' = Http!HeaderResult(h)
      /\ \A h, name : Http!Values(h, name)' = Http!Values(h, name)
      /\ Http!Whole' <=> Http!Whole
  BY SameStream
<1>2. /\ Http!Ends(total)' = Http!Ends(total) /\ Http!Ends(Len(stream))' = Http!Ends(Len(stream))
      /\ Http!HeaderResult(head)' = Http!HeaderResult(head)
      /\ Http!BodyLength(head)' = Http!BodyLength(head)
      /\ \A name : Http!Values(head, name)' = Http!Values(head, name)
  BY <1>1
<1>3. HttpHeads'
  BY <1>2 DEF HttpInv, HttpHeads
<1>4. Received'
  BY <1>1, <1>2, FramingParts DEF HttpInv, Received
<1>5. Shown' = Shown
  BY <1>2 DEF Shown
<1>6. Executed' <=> Executed
  BY <1>2, <1>5 DEF Executed
<1> QED BY <1>3, <1>4, <1>6

\* Receiving ends without an answer to the question whether a request came.
LEMMA HttpEnds ==
  ASSUME HttpInv, result = 1, UNCHANGED <<stream, total, head, declared>>, status' # 200,
         result' = -4 \/ (result' = -1 /\ lost')
  PROVE  HttpInv'
<1>1. /\ \A k : Http!Ends(k)' = Http!Ends(k)
  BY SameStream
<1>2. Http!Ends(total)' = Http!Ends(total)
  BY <1>1
<1>3. HttpHeads'
  BY <1>2 DEF HttpInv, HttpHeads
<1>4. Received'
  BY DEF Received
<1>5. Http!FramingIsExact' <=> (Received /\ (status = 200 => Executed))'
  BY FramingParts, PTL
<1> QED BY <1>3, <1>4, <1>5 DEF HttpInv

\* An executed request has shown one right credential of those its API knows,
\* and none that is wrong.
LEMMA HttpGate == ASSUME HttpInv, Http!Gate PROVE HttpInv'
<1>1. /\ result = 0 /\ UNCHANGED <<stream, total, head, declared, result, lost, sent>>
      /\ status' = 200 => Http!OriginAllowed /\ Http!Authenticated
  BY DEF Http!Gate, Http!Answer
<1>2. HttpHeads' /\ Received' /\ (Executed' <=> Executed)
  BY <1>1, HttpRests
<1>3. Http!Authenticated => Shown = {"token"}
  BY DEF Http!Authenticated, Http!UsesKey, Shown
<1>4. status' = 200 => Executed
  BY <1>1, <1>3 DEF Executed, Http!OriginAllowed
<1>5. Http!FramingIsExact' <=> (Received /\ (status = 200 => Executed))'
  BY FramingParts, PTL
<1> QED BY <1>2, <1>4, <1>5 DEF HttpInv

LEMMA HttpNext == ASSUME HttpInv, [Http!Next]_(Http!vars) PROVE HttpInv'
<1>1. CASE Http!Receive
  <2>1. PICK n \in 1 .. Len(stream) - total : total + n < Capacity /\ Http!Piece(n)
    BY <1>1 DEF Http!Receive
  <2>2. n \in Int /\ n > 0 /\ total + n <= Len(stream)
    BY HeadIs DEF HttpInv
  <2> QED BY <2>1, <2>2, HttpPiece
<1>2. result = 1 => status # 200
  BY DEF HttpInv, Http!FramingIsExact
<1>3. CASE Http!ReceiveFails
  BY <1>2, <1>3, HttpEnds DEF Http!ReceiveFails, Http!Running
<1>4. CASE Http!ReceiveExpires
  BY <1>2, <1>4, HttpEnds DEF Http!ReceiveExpires, Http!Running
<1>5. CASE Http!NoBuffer
  BY <1>5, HttpEnds DEF Http!NoBuffer, Http!Running
<1>6. CASE Http!Gate
  BY <1>6, HttpGate
\* The rest of the answer.
<1>7. ASSUME UNCHANGED <<stream, total, head, declared, result, lost>>,
             status' = 200 => status = 200
      PROVE  HttpInv'
  <2>1. HttpHeads' /\ Received' /\ (Executed' <=> Executed)
    BY <1>7, HttpRests
  <2>2. status = 200 => Executed
    BY FramingParts DEF HttpInv
  <2>3. Http!FramingIsExact' <=> (Received /\ (status = 200 => Executed))'
    BY FramingParts, PTL
  <2> QED BY <1>7, <2>1, <2>2, <2>3 DEF HttpInv
<1>8. CASE Http!Refuse
  <2>1. status' # 200 /\ UNCHANGED <<stream, total, head, declared, result, lost>>
    BY <1>8 DEF Http!Refuse, Http!Answer
  <2> QED BY <1>7, <2>1
<1>9. CASE Http!Send
  BY <1>7, <1>9 DEF Http!Send
<1>10. CASE Http!SendFails
  BY <1>7, <1>10 DEF Http!SendFails
<1>11. CASE UNCHANGED Http!vars
  BY <1>7, <1>11 DEF Http!vars
<1> QED BY <1>1, <1>3, <1>4, <1>5, <1>6, <1>8, <1>9, <1>10, <1>11 DEF Http!Next, Http!Closed

(* The pieces in which a stream arrives decide nothing: whether a request  *)
(* is accepted, and with which body, is a matter of the stream alone, and  *)
(* it is executed only when its origin is allowed and it shows a right     *)
(* credential and no wrong one (nya_http_receive, nya_http_parse_request,  *)
(* nya_http_dispatch_request).                                             *)
THEOREM HttpFramingIsExact == InputsSpec => []FramingIsExact
<1> DEFINE Inv == driven = "http" => HttpInv
<1>1. InputsInit => Inv
  BY HttpInitInv DEF InputsInit
<1>2. Inv /\ [InputsNext]_all => Inv'
  <2> SUFFICES ASSUME Inv, [InputsNext]_all, (driven = "http")' PROVE HttpInv'
    OBVIOUS
  <2>1. driven = "http" /\ [Http!Next]_(Http!vars)
    BY DEF InputsNext, all, http, both, Http!vars
  <2> QED BY <2>1, HttpNext
<1>3. Inv => FramingIsExact
  BY DEF FramingIsExact, HttpInv
<1> QED BY <1>1, <1>2, <1>3, PTL DEF InputsSpec

-----------------------------------------------------------------------------
(* Settings: the file.                                                     *)

\* What Settings says of the file that was read, of any sequence of lines.
Marked(f, form) == {i \in DOMAIN f : f[i].form = form}
Setters(f, key) == {i \in Marked(f, "setting") : f[i].key = key}

Legal(f) ==
  /\ Marked(f, "failed") = {} /\ Marked(f, "broken") = {}
  /\ \A i, j \in Marked(f, "server") : i = j
  /\ \A i \in Marked(f, "setting") :
       /\ \E j \in Marked(f, "server") : j < i
       /\ f[i].indent = 2 /\ Accepts(f[i].key, f[i].value)
       /\ \A j \in Marked(f, "setting") : i # j => f[i].key # f[j].key

Said(f, key) == IF Setters(f, key) = {} THEN Defaults[key]
                ELSE Meaning(key, f[CHOOSE i \in Setters(f, key) : TRUE].value)

LEMMA FileIs == /\ WellFormed <=> Legal(file)
                /\ \A key : FromFile(key) = Said(file, key)
  BY DEF WellFormed, LinesOf, Legal, Marked, FromFile, Said, Setters

\* What the load knows after the lines f.
Tracks(f, opened, names, copy) ==
  /\ Legal(f)
  /\ opened \in BOOLEAN /\ (opened <=> Marked(f, "server") # {})
  /\ \A key : key \in names <=> Setters(f, key) # {}
  /\ DOMAIN copy = DOMAIN Defaults
  /\ \A key \in DOMAIN Defaults : copy[key] = Said(f, key)

FileLine == Lines \cup {Failed}

LEMMA Forms ==
  ASSUME NEW line \in FileLine
  PROVE  line.form \in {"blank", "broken", "server", "setting", "failed"}
  BY InputsAssumption DEF FileLine, Failed

LEMMA AppendLine ==
  ASSUME NEW f \in Seq(FileLine), NEW line \in FileLine
  PROVE  LET g == Append(f, line)
             n == Len(f) + 1
         IN  /\ g \in Seq(FileLine)
             /\ n \in Nat /\ \A i \in DOMAIN f : i \in Nat /\ i < n
             /\ g[n] = line /\ \A i \in DOMAIN f : g[i] = f[i]
             /\ DOMAIN g = DOMAIN f \cup {n}
             /\ \A form : Marked(g, form) = Marked(f, form) \cup (IF line.form = form THEN {n} ELSE {})
             /\ \A form : Marked(f, form) \subseteq DOMAIN f
<1> DEFINE g == Append(f, line)
           n == Len(f) + 1
<1>1. g \in Seq(FileLine) /\ Len(g) = n /\ g[n] = line /\ \A i \in 1 .. Len(f) : g[i] = f[i]
  BY AppendProperties
<1>2. Len(f) \in Nat /\ DOMAIN f = 1 .. Len(f)
  BY LenProperties
<1>3. DOMAIN g = 1 .. n
  BY <1>1, LenProperties
<1>4. n \in Nat /\ DOMAIN g = DOMAIN f \cup {n} /\ \A i \in DOMAIN f : i \in Nat /\ i < n
  BY <1>2, <1>3
<1> HIDE DEF g, n
<1>5. ASSUME NEW form
      PROVE  Marked(g, form) = Marked(f, form) \cup (IF line.form = form THEN {n} ELSE {})
  <2>1. \A i \in DOMAIN f : g[i] = f[i] /\ i # n
    BY <1>1, <1>2, <1>4
  <2> QED BY <1>1, <1>4, <2>1 DEF Marked
<1>6. \A form : Marked(f, form) \subseteq DOMAIN f
  BY DEF Marked
<1>7. \A i \in DOMAIN f : g[i] = f[i]
  BY <1>1, <1>2
<1> QED BY <1>1, <1>4, <1>5, <1>6, <1>7 DEF g, n

LEMMA NoLines == Tracks(<<>>, FALSE, {}, Defaults)
<1>1. DOMAIN <<>> = {}
  OBVIOUS
<1>2. \A form : Marked(<<>>, form) = {}
  BY <1>1 DEF Marked
<1>3. \A key : Setters(<<>>, key) = {}
  BY <1>2 DEF Setters
<1> QED BY <1>2, <1>3 DEF Tracks, Legal, Said

\* A line says nothing of the keys it does not set.
LEMMA SaidBefore ==
  ASSUME NEW f \in Seq(FileLine), NEW line \in FileLine, NEW key,
         ~(line.form = "setting" /\ line.key = key)
  PROVE  /\ Setters(Append(f, line), key) = Setters(f, key)
         /\ Said(Append(f, line), key) = Said(f, key)
<1> DEFINE g == Append(f, line)
           n == Len(f) + 1
<1>1. /\ g[n] = line /\ \A i \in DOMAIN f : g[i] = f[i] /\ i # n
      /\ \A form : Marked(g, form) = Marked(f, form) \cup (IF line.form = form THEN {n} ELSE {})
      /\ \A form : Marked(f, form) \subseteq DOMAIN f
  BY AppendLine
<1> HIDE DEF g, n
<1>2. Setters(g, key) = Setters(f, key)
  BY <1>1 DEF Setters
<1>3. Said(g, key) = Said(f, key)
  <2>1. CASE Setters(f, key) = {}
    BY <1>2, <2>1 DEF Said
  <2>2. CASE Setters(f, key) # {}
    <3> DEFINE c == CHOOSE i \in Setters(f, key) : TRUE
    <3>1. c \in Setters(f, key)
      BY <2>2
    <3>2. c = CHOOSE i \in Setters(g, key) : TRUE
      BY <1>2
    <3>3. c \in DOMAIN f
      BY <1>1, <3>1 DEF Setters
    <3>4. Said(g, key) = Meaning(key, g[c].value)
      BY <1>2, <2>2, <3>2 DEF Said
    <3>5. Said(f, key) = Meaning(key, f[c].value)
      BY <2>2 DEF Said
    <3> HIDE DEF c
    <3> QED BY <1>1, <3>3, <3>4, <3>5
  <2> QED BY <2>1, <2>2
<1> QED BY <1>2, <1>3 DEF g

\* A blank line changes nothing.
LEMMA TracksBlank ==
  ASSUME NEW f \in Seq(FileLine), NEW line \in FileLine, line.form = "blank",
         NEW opened, NEW names, NEW copy, Tracks(f, opened, names, copy)
  PROVE  Tracks(Append(f, line), opened, names, copy)
<1> DEFINE g == Append(f, line)
           n == Len(f) + 1
<1>5. /\ g[n] = line /\ n \in Nat /\ \A i \in DOMAIN f : g[i] = f[i] /\ i \in Nat /\ i < n /\ i # n
      /\ \A form : Marked(g, form) = Marked(f, form) \cup (IF line.form = form THEN {n} ELSE {})
      /\ \A form : Marked(f, form) \subseteq DOMAIN f
  BY AppendLine
<1>1. /\ \A i \in DOMAIN f : g[i] = f[i]
      /\ \A form : form # "blank" => Marked(g, form) = Marked(f, form)
      /\ \A form : Marked(f, form) \subseteq DOMAIN f
  <2> HIDE DEF g, n
  <2> QED BY <1>5
<1>4. \A key : Setters(g, key) = Setters(f, key) /\ Said(g, key) = Said(f, key)
  BY SaidBefore
<1> HIDE DEF g
<1>2. Legal(f) => Legal(g)
  BY <1>1 DEF Legal
<1>3. Tracks(g, opened, names, copy)
  BY <1>1, <1>2, <1>4 DEF Tracks
<1> QED BY <1>3 DEF g

\* The section is opened once.
LEMMA TracksServer ==
  ASSUME NEW f \in Seq(FileLine), NEW line \in FileLine, line.form = "server",
         NEW names, NEW copy, Tracks(f, FALSE, names, copy)
  PROVE  Tracks(Append(f, line), TRUE, names, copy)
<1> DEFINE g == Append(f, line)
           n == Len(f) + 1
<1>6. /\ g[n] = line /\ n \in Nat /\ \A i \in DOMAIN f : g[i] = f[i] /\ i \in Nat /\ i < n /\ i # n
      /\ \A form : Marked(g, form) = Marked(f, form) \cup (IF line.form = form THEN {n} ELSE {})
      /\ \A form : Marked(f, form) \subseteq DOMAIN f
  BY AppendLine
<1>1. /\ \A i \in DOMAIN f : g[i] = f[i]
      /\ \A form : form # "server" => Marked(g, form) = Marked(f, form)
      /\ \A form : Marked(f, form) \subseteq DOMAIN f
      /\ Marked(g, "server") = Marked(f, "server") \cup {n}
  <2> HIDE DEF g, n
  <2> QED BY <1>6
<1>5. \A key : Setters(g, key) = Setters(f, key) /\ Said(g, key) = Said(f, key)
  BY SaidBefore
<1> HIDE DEF g, n
<1>2. Marked(f, "server") = {}
  BY DEF Tracks
<1>3. Legal(f) => Legal(g)
  BY <1>1, <1>2 DEF Legal
<1>4. Tracks(g, TRUE, names, copy)
  BY <1>1, <1>3, <1>5 DEF Tracks
<1> QED BY <1>4 DEF g

LEMMA AcceptsKey ==
  ASSUME NEW key, NEW value, Accepts(key, value) PROVE key \in DOMAIN Defaults
<1>1. DOMAIN Largest \subseteq DOMAIN Defaults
      /\ {"allow_remote", "allowed_origins", "bind", "auth_token_env"} \subseteq DOMAIN Defaults
  BY DEF Largest, Defaults
<1> HIDE DEF Defaults
<1>2. \/ key \in DOMAIN Largest
      \/ key \in {"allow_remote", "allowed_origins", "bind", "auth_token_env"}
  BY DEF Accepts
<1> QED BY <1>1, <1>2

\* A key is set once, after the section was opened.
LEMMA TracksSetting ==
  ASSUME NEW f \in Seq(FileLine), NEW line \in FileLine, line.form = "setting",
         NEW names, NEW copy, Tracks(f, TRUE, names, copy),
         line.indent = 2, line.key \notin names, Accepts(line.key, line.value)
  PROVE  Tracks(Append(f, line), TRUE, names \cup {line.key},
                [copy EXCEPT ![line.key] = Meaning(line.key, line.value)])
<1> DEFINE g == Append(f, line)
           n == Len(f) + 1
           k == line.key
           v == Meaning(line.key, line.value)
           new == [copy EXCEPT ![line.key] = v]
<1>13. /\ g[n] = line /\ n \in Nat /\ \A i \in DOMAIN f : g[i] = f[i] /\ i \in Nat /\ i < n /\ i # n
       /\ \A form : Marked(g, form) = Marked(f, form) \cup (IF line.form = form THEN {n} ELSE {})
       /\ \A form : Marked(f, form) \subseteq DOMAIN f
  BY AppendLine
<1>1. /\ \A i \in DOMAIN f : g[i] = f[i] /\ i < n
      /\ g[n] = line
      /\ \A form : form # "setting" => Marked(g, form) = Marked(f, form)
      /\ \A form : Marked(f, form) \subseteq DOMAIN f
      /\ Marked(g, "setting") = Marked(f, "setting") \cup {n}
      /\ n \notin DOMAIN f
  <2> HIDE DEF g, n
  <2> QED BY <1>13
<1>12. ASSUME NEW key, key # k PROVE Setters(g, key) = Setters(f, key) /\ Said(g, key) = Said(f, key)
  BY <1>12, SaidBefore
<1> HIDE DEF g, n
<1>2. Setters(f, k) = {} /\ Marked(f, "server") # {} /\ Legal(f)
  BY DEF Tracks
<1>3. Setters(g, k) = {n}
  BY <1>1, <1>2 DEF Setters
<1>4. Said(g, k) = v
  <2>1. (CHOOSE i \in Setters(g, k) : TRUE) = n
    BY <1>3
  <2>2. Setters(g, k) # {}
    BY <1>3
  <2>3. Said(g, k) = Meaning(k, g[n].value)
    BY <2>1, <2>2 DEF Said
  <2> QED BY <1>1, <2>3
<1>5. \A i \in Marked(f, "setting") : f[i].key # k
  BY <1>2 DEF Setters
<1>6. Legal(g)
  <2>1. /\ Marked(g, "failed") = {} /\ Marked(g, "broken") = {}
        /\ \A i, j \in Marked(g, "server") : i = j
    BY <1>1, <1>2 DEF Legal
  <2>2. ASSUME NEW i \in Marked(f, "setting")
        PROVE  /\ \E j \in Marked(g, "server") : j < i
               /\ g[i].indent = 2 /\ Accepts(g[i].key, g[i].value)
               /\ \A j \in Marked(g, "setting") : i # j => g[i].key # g[j].key
    <3>1. /\ \E j \in Marked(f, "server") : j < i
          /\ f[i].indent = 2 /\ Accepts(f[i].key, f[i].value)
          /\ \A j \in Marked(f, "setting") : i # j => f[i].key # f[j].key
      BY <1>2 DEF Legal
    <3> QED BY <1>1, <1>5, <3>1
  <2>3. /\ \E j \in Marked(g, "server") : j < n
        /\ g[n].indent = 2 /\ Accepts(g[n].key, g[n].value)
        /\ \A j \in Marked(g, "setting") : n # j => g[n].key # g[j].key
    BY <1>1, <1>2, <1>5
  <2> QED BY <1>1, <2>1, <2>2, <2>3 DEF Legal
<1>7. DOMAIN new = DOMAIN Defaults /\ \A key \in DOMAIN Defaults :
                                        new[key] = IF key = k THEN v ELSE copy[key]
  BY DEF Tracks
<1>8. \A key \in DOMAIN Defaults : new[key] = Said(g, key)
  <2> HIDE DEF new, k, v
  <2> QED BY <1>4, <1>7, <1>12 DEF Tracks
<1>9. \A key : key \in names \cup {k} <=> Setters(g, key) # {}
  <2> HIDE DEF k
  <2> QED BY <1>3, <1>12 DEF Tracks
<1>10. Marked(g, "server") # {}
  BY <1>1, <1>2
<1>11. Tracks(g, TRUE, names \cup {k}, new)
  <2> HIDE DEF new, k
  <2> QED BY <1>6, <1>7, <1>8, <1>9, <1>10 DEF Tracks
<1> QED BY <1>11 DEF g

\* Any other line, and a read that fails, makes the file ill-formed.
LEMMA TracksFault ==
  ASSUME NEW f \in Seq(FileLine), NEW line \in FileLine,
         NEW opened, NEW names, NEW copy, Tracks(f, opened, names, copy),
         line.form # "blank", ~(line.form = "server" /\ ~opened),
         ~(/\ line.form = "setting" /\ opened /\ line.indent = 2
           /\ line.key \notin names /\ Accepts(line.key, line.value))
  PROVE  ~Legal(Append(f, line))
<1> DEFINE g == Append(f, line)
           n == Len(f) + 1
<1>1. /\ \A i \in DOMAIN f : g[i] = f[i] /\ i < n
      /\ g[n] = line /\ n \in Nat /\ n \notin DOMAIN f
      /\ \A form : Marked(g, form) = Marked(f, form) \cup (IF line.form = form THEN {n} ELSE {})
      /\ \A form : Marked(f, form) \subseteq DOMAIN f
  BY AppendLine
<1> HIDE DEF g, n
<1>2. line.form \in {"broken", "server", "setting", "failed"}
  BY Forms
<1>3. CASE line.form \in {"broken", "failed"}
  <2>1. n \in Marked(g, line.form)
    BY <1>1
  <2>2. ~Legal(g)
    BY <1>3, <2>1 DEF Legal
  <2> QED BY <2>2 DEF g
<1>4. CASE line.form = "server"
  <2>1. PICK i \in Marked(f, "server") : i # n
    BY <1>1, <1>4 DEF Tracks
  <2>2. i \in Marked(g, "server") /\ n \in Marked(g, "server")
    BY <1>1, <1>4, <2>1
  <2>3. ~Legal(g)
    BY <2>1, <2>2 DEF Legal
  <2> QED BY <2>3 DEF g
<1>5. CASE line.form = "setting"
  <2>1. n \in Marked(g, "setting") /\ Marked(g, "server") = Marked(f, "server")
    <3>1. Marked(g, "setting") = Marked(f, "setting") \cup {n}
      BY <1>1, <1>5
    <3>2. Marked(g, "server") = Marked(f, "server") \cup {}
      BY <1>1, <1>5
    <3> QED BY <3>1, <3>2
  <2>2. SUFFICES ASSUME Legal(g) PROVE FALSE
    BY DEF g
  <2>3. /\ \E j \in Marked(f, "server") : j < n
        /\ line.indent = 2 /\ Accepts(line.key, line.value)
        /\ \A j \in Marked(g, "setting") : n # j => line.key # g[j].key
    BY <1>1, <2>1, <2>2 DEF Legal
  <2>4. opened
    BY <2>3 DEF Tracks
  <2>5. Setters(f, line.key) # {}
    BY <1>5, <2>3, <2>4 DEF Tracks
  <2>6. PICK j \in Marked(f, "setting") : f[j].key = line.key
    BY <2>5 DEF Setters
  <2>7. j \in Marked(g, "setting") /\ g[j].key = line.key /\ j # n
    BY <1>1, <2>6
  <2> QED BY <2>3, <2>7
<1> QED BY <1>2, <1>3, <1>4, <1>5 DEF g

-----------------------------------------------------------------------------
(* Settings: the command line.                                             *)

Step(a, h, i) == i = 1 \/ ~(h[i - 1] = TRUE /\ a[i - 1] \in Takes)

OptionsIn(a) == CHOOSE h : h = [i \in 1 .. Len(a) |-> i = 1 \/ ~(h[i - 1] /\ a[i - 1] \in Takes)]

LEMMA OptionsExist ==
  ASSUME NEW a, NEW n \in Nat
  PROVE  \E h \in [1 .. n -> BOOLEAN] : \A i \in 1 .. n : h[i] = Step(a, h, i)
<1> DEFINE Solves(k, h) == \A i \in 1 .. k : h[i] = Step(a, h, i)
           Good(k) == \E h \in [1 .. k -> BOOLEAN] : Solves(k, h)
           Bad == {k \in 0 .. n : ~Good(k)}
<1>1. Bad = {}
  <2> SUFFICES ASSUME Bad # {} PROVE FALSE
    OBVIOUS
  <2>1. Bad \subseteq Nat
    OBVIOUS
  <2>2. PICK k \in Bad : \A m \in Bad : k <= m
    <3> HIDE DEF Bad
    <3> QED BY <2>1, LeastElement
  <2>3. k \in 0 .. n /\ ~Good(k)
    OBVIOUS
  <2>4. CASE k = 0
    <3>1. [i \in 1 .. k |-> TRUE] \in [1 .. k -> BOOLEAN] /\ 1 .. k = {}
      BY <2>4
    <3>2. Good(k)
      BY <3>1
    <3> QED BY <2>3, <3>2
  <2>5. CASE k # 0
    <3>1. k - 1 \in 0 .. n /\ k \in 1 .. n /\ ~(k <= k - 1)
      BY <2>3, <2>5
    <3>2. Good(k - 1)
      BY <2>2, <3>1
    <3>3. PICK h \in [1 .. k - 1 -> BOOLEAN] : Solves(k - 1, h)
      BY <3>2
    <3> DEFINE last == Step(a, h, k)
               g == [i \in 1 .. k |-> IF i = k THEN last ELSE h[i]]
    <3>4. last \in BOOLEAN
      BY DEF Step
    <3> HIDE DEF last
    <3>5. g \in [1 .. k -> BOOLEAN]
      <4>1. ASSUME NEW i \in 1 .. k PROVE g[i] \in BOOLEAN
        <5>1. i # k => i \in 1 .. k - 1
          BY <3>1
        <5> QED BY <3>4, <5>1
      <4> QED BY <4>1
    <3>6. ASSUME NEW i \in 1 .. k PROVE g[i] = Step(a, g, i)
      <4>1. i # 1 => g[i - 1] = h[i - 1]
        <5>1. i # 1 => i - 1 \in 1 .. k /\ i - 1 # k
          BY <3>1
        <5> QED BY <5>1
      <4>2. Step(a, g, i) = Step(a, h, i)
        <5> HIDE DEF g
        <5> QED BY <4>1 DEF Step
      <4>3. CASE i = k
        BY <4>2, <4>3 DEF last
      <4>4. CASE i # k
        <5>1. i \in 1 .. k - 1 /\ g[i] = h[i]
          BY <3>1, <4>4
        <5> QED BY <3>3, <4>2, <5>1
      <4> QED BY <4>3, <4>4
    <3> HIDE DEF g
    <3>7. Good(k)
      BY <3>5, <3>6
    <3> QED BY <2>3, <3>7
  <2> QED BY <2>4, <2>5
<1>2. Good(n)
  <2>1. n \in 0 .. n
    OBVIOUS
  <2> HIDE DEF Good
  <2> QED BY <1>1, <2>1
<1> QED BY <1>2

\* An argument is an option unless the one before is and takes a value.
LEMMA OptionsAre ==
  ASSUME NEW a \in Seq(Tokens)
  PROVE  \A i \in 1 .. Len(a) :
           /\ OptionsIn(a)[i] \in BOOLEAN
           /\ OptionsIn(a)[i] = Step(a, OptionsIn(a), i)
<1> DEFINE n == Len(a)
           Body(h) == [i \in 1 .. n |-> i = 1 \/ ~(h[i - 1] /\ a[i - 1] \in Takes)]
<1>1. n \in Nat
  BY LenProperties
<1>2. PICK h \in [1 .. n -> BOOLEAN] : \A i \in 1 .. n : h[i] = Step(a, h, i)
  <2> HIDE DEF n
  <2> QED BY <1>1, OptionsExist
<1>3. ASSUME NEW x, \A i \in 1 .. n : x[i] \in BOOLEAN, NEW i \in 1 .. n
      PROVE  Body(x)[i] = Step(a, x, i)
  <2>1. CASE i = 1
    BY <2>1 DEF Step
  <2>2. CASE i # 1
    <3>1. i - 1 \in 1 .. n
      BY <1>1, <2>2
    <3>2. x[i - 1] \in BOOLEAN
      BY <1>3, <3>1
    <3> QED BY <3>2 DEF Step
  <2> QED BY <2>1, <2>2
<1>4. h = Body(h)
  <2>1. ASSUME NEW i \in 1 .. n PROVE h[i] = Body(h)[i]
    <3>1. \A j \in 1 .. n : h[j] \in BOOLEAN
      BY <1>2
    <3> HIDE DEF Body
    <3> QED BY <1>2, <1>3, <3>1
  <2>2. Body(h) = [i \in 1 .. n |-> Body(h)[i]]
    OBVIOUS
  <2>3. h = [i \in 1 .. n |-> h[i]]
    BY <1>2
  <2> HIDE DEF Body
  <2> QED BY <2>1, <2>2, <2>3
<1> DEFINE o == OptionsIn(a)
<1>5. o = Body(o)
  <2> HIDE DEF Body, n
  <2>1. o = CHOOSE x : x = Body(x)
    BY DEF OptionsIn, Body, n
  <2> HIDE DEF o
  <2> QED BY <1>4, <2>1
<1> HIDE DEF o
<1>6. \A i \in 1 .. n : o[i] \in BOOLEAN
  <2>1. \A i \in 1 .. n : Body(o)[i] \in BOOLEAN
    OBVIOUS
  <2> HIDE DEF Body
  <2> QED BY <1>5, <2>1
<1>7. ASSUME NEW i \in 1 .. n PROVE o[i] = Step(a, o, i)
  <2>1. Body(o)[i] = Step(a, o, i)
    <3> HIDE DEF Body
    <3> QED BY <1>3, <1>6
  <2> HIDE DEF Body
  <2> QED BY <1>5, <2>1
<1> QED BY <1>6, <1>7 DEF o

\* The options among the arguments before the next one, and the setting that
\* they and the file f give.
Chosen(a, next, token) == {i \in 1 .. Len(a) : i < next /\ OptionsIn(a)[i] = TRUE /\ a[i] = token}

Results(a, f, next, key) ==
  CASE key = "bind" /\ Chosen(a, next, "--bind") # {} -> a[LastOf(Chosen(a, next, "--bind")) + 1]
    [] key = "port" /\ Chosen(a, next, "--port") # {} ->
         Numeral[a[LastOf(Chosen(a, next, "--port")) + 1]]
    [] key = "allow_remote" /\ Chosen(a, next, "--allow-remote") # {} -> TRUE
    [] OTHER -> Said(f, key)

LEMMA NothingChosen ==
  ASSUME NEW a \in Seq(Tokens), NEW f, NEW key
  PROVE  /\ \A token : Chosen(a, 1, token) = {}
         /\ Results(a, f, 1, key) = Said(f, key)
         /\ 1 <= Len(a) => OptionsIn(a)[1] = TRUE
<1>1. \A token : Chosen(a, 1, token) = {}
  BY DEF Chosen
<1>2. Results(a, f, 1, key) = Said(f, key)
  BY <1>1 DEF Results
<1>3. 1 <= Len(a) => OptionsIn(a)[1] = TRUE
  <2>1. 1 <= Len(a) => 1 \in 1 .. Len(a)
    BY LenProperties
  <2> QED BY <2>1, OptionsAre DEF Step
<1> QED BY <1>1, <1>2, <1>3

\* At the end of the scan these are all the options.
LEMMA AllChosen ==
  ASSUME args \in Seq(Tokens), NEW next \in Nat, next > Len(args), NEW key
  PROVE  Wanted(key) = Results(args, file, next, key)
<1>1. IsOption = OptionsIn(args)
  BY DEF IsOption, OptionsIn
<1>2. ASSUME NEW token PROVE Given(token) = Chosen(args, next, token)
  <2>1. \A i \in 1 .. Len(args) : i < next /\ OptionsIn(args)[i] \in BOOLEAN
    BY OptionsAre, LenProperties
  <2>2. Given(token) = {i \in 1 .. Len(args) : OptionsIn(args)[i] /\ args[i] = token}
    BY <1>1 DEF Given
  <2> QED BY <2>1, <2>2 DEF Chosen
<1>3. FromFile(key) = Said(file, key)
  BY FileIs
<1> QED BY <1>2, <1>3 DEF Wanted, Results

\* Where the scan goes on behind an option.
After(a, i) == IF a[i] \in Takes THEN i + 2 ELSE i + 1

\* An option is passed, with its value if it takes one.
LEMMA OptionPassed ==
  ASSUME NEW a \in Seq(Tokens), NEW i \in 1 .. Len(a), OptionsIn(a)[i] = TRUE
  PROVE  /\ After(a, i) \in Nat \ {0}
         /\ After(a, i) <= Len(a) => OptionsIn(a)[After(a, i)] = TRUE
         /\ \A token : Chosen(a, After(a, i), token) =
                         IF token = a[i] THEN Chosen(a, i, token) \cup {i} ELSE Chosen(a, i, token)
         /\ \A token : \A j \in Chosen(a, i, token) : j \in Nat /\ j < i
<1> DEFINE o == OptionsIn(a)
           n == Len(a)
           next == IF a[i] \in Takes THEN i + 2 ELSE i + 1
<1>1. n \in Nat /\ \A j \in 1 .. n : o[j] = Step(a, o, j)
  BY OptionsAre, LenProperties
<1>2. o[i] = TRUE
  OBVIOUS
<1> HIDE DEF o, n
<1>3. i + 1 <= n => i + 1 \in 1 .. n /\ i + 1 # 1 /\ (i + 1) - 1 = i
  BY <1>1 DEF n
<1>4. i + 2 <= n => i + 2 \in 1 .. n /\ i + 2 # 1 /\ (i + 2) - 1 = i + 1 /\ i + 1 <= n
  BY <1>1 DEF n
<1>5. i + 1 <= n => (o[i + 1] = TRUE <=> a[i] \notin Takes)
  BY <1>1, <1>2, <1>3 DEF Step
<1>6. i + 2 <= n /\ a[i] \in Takes => o[i + 2] = TRUE
  BY <1>1, <1>4, <1>5 DEF Step
<1>7. next \in Nat \ {0} /\ (next <= n => o[next] = TRUE)
  BY <1>5, <1>6 DEF n
<1>8. ASSUME NEW token, NEW j \in 1 .. n
      PROVE  j \in Chosen(a, next, token) <=> j \in Chosen(a, i, token) \/ (j = i /\ token = a[i])
  <2>1. j < next <=> j < i \/ j = i \/ (j = i + 1 /\ a[i] \in Takes)
    BY DEF n
  <2>2. j = i + 1 /\ a[i] \in Takes => o[j] # TRUE
    <3>1. j = i + 1 => i + 1 <= n
      BY <1>1
    <3> QED BY <1>5, <3>1
  <2>3. ~(j < i /\ j = i)
    BY DEF n
  <2> HIDE DEF next
  <2> QED BY <1>2, <2>1, <2>2, <2>3 DEF Chosen, n, o
<1>9. \A m, token : Chosen(a, m, token) \subseteq 1 .. n
  BY DEF Chosen, n
<1>10. ASSUME NEW token
       PROVE  Chosen(a, next, token) =
                IF token = a[i] THEN Chosen(a, i, token) \cup {i} ELSE Chosen(a, i, token)
  <2>1. i \in 1 .. n
    BY DEF n
  <2> HIDE DEF next
  <2> QED BY <1>8, <1>9, <2>1
<1>11. \A token : \A j \in Chosen(a, i, token) : j \in Nat /\ j < i
  BY DEF Chosen
<1>12. After(a, i) = next
  BY DEF After
<1> HIDE DEF next
<1> QED BY <1>7, <1>10, <1>11, <1>12 DEF o, n

LEMMA LastIsLast ==
  ASSUME NEW i \in Nat, NEW S, \A j \in S : j \in Nat /\ j < i
  PROVE  LastOf(S \cup {i}) = i
<1>1. i \in S \cup {i} /\ \A j \in S \cup {i} : j <= i
  OBVIOUS
<1>2. ASSUME NEW x \in S \cup {i}, \A j \in S \cup {i} : j <= x PROVE x = i
  <2>1. x \in Nat /\ i <= x
    BY <1>2
  <2>2. x # i => x < i
    BY <1>2
  <2> QED BY <2>1, <2>2
<1>3. LastOf(S \cup {i}) = CHOOSE x \in S \cup {i} : \A j \in S \cup {i} : j <= x
  BY DEF LastOf
<1> QED BY <1>1, <1>2, <1>3

\* The option that was passed decides its setting, the others stay.
LEMMA ResultsPassed ==
  ASSUME NEW a \in Seq(Tokens), NEW i \in 1 .. Len(a), OptionsIn(a)[i] = TRUE, NEW f, NEW key
  PROVE  Results(a, f, After(a, i), key) =
           CASE key = "bind" /\ a[i] = "--bind" -> a[i + 1]
             [] key = "port" /\ a[i] = "--port" -> Numeral[a[i + 1]]
             [] key = "allow_remote" /\ a[i] = "--allow-remote" -> TRUE
             [] OTHER -> Results(a, f, i, key)
<1> DEFINE next == After(a, i)
           R == CASE key = "bind" /\ a[i] = "--bind" -> a[i + 1]
                  [] key = "port" /\ a[i] = "--port" -> Numeral[a[i + 1]]
                  [] key = "allow_remote" /\ a[i] = "--allow-remote" -> TRUE
                  [] OTHER -> Results(a, f, i, key)
<1>1. \A token : Chosen(a, next, token) =
                   IF token = a[i] THEN Chosen(a, i, token) \cup {i} ELSE Chosen(a, i, token)
  BY OptionPassed
<1>2. ASSUME NEW token PROVE LastOf(Chosen(a, i, token) \cup {i}) = i
  <2>1. \A j \in Chosen(a, i, token) : j \in Nat /\ j < i
    BY OptionPassed
  <2>2. i \in Nat
    BY LenProperties
  <2> QED BY <2>1, <2>2, LastIsLast
<1> HIDE DEF next
<1>3. ASSUME key = "bind" PROVE Results(a, f, next, key) = R
  <2>1. CASE a[i] = "--bind"
    <3>1. Chosen(a, next, "--bind") = Chosen(a, i, "--bind") \cup {i}
      BY <1>1, <2>1
    <3>2. Chosen(a, next, "--bind") # {} /\ LastOf(Chosen(a, next, "--bind")) = i
      BY <1>2, <3>1
    <3> QED BY <1>3, <2>1, <3>2 DEF Results
  <2>2. CASE a[i] # "--bind"
    <3>1. Chosen(a, next, "--bind") = Chosen(a, i, "--bind")
      BY <1>1, <2>2
    <3> QED BY <1>3, <2>2, <3>1 DEF Results
  <2> QED BY <2>1, <2>2
<1>4. ASSUME key = "port" PROVE Results(a, f, next, key) = R
  <2>1. CASE a[i] = "--port"
    <3>1. Chosen(a, next, "--port") = Chosen(a, i, "--port") \cup {i}
      BY <1>1, <2>1
    <3>2. Chosen(a, next, "--port") # {} /\ LastOf(Chosen(a, next, "--port")) = i
      BY <1>2, <3>1
    <3> QED BY <1>4, <2>1, <3>2 DEF Results
  <2>2. CASE a[i] # "--port"
    <3>1. Chosen(a, next, "--port") = Chosen(a, i, "--port")
      BY <1>1, <2>2
    <3> QED BY <1>4, <2>2, <3>1 DEF Results
  <2> QED BY <2>1, <2>2
<1>5. ASSUME key = "allow_remote" PROVE Results(a, f, next, key) = R
  <2>1. CASE a[i] = "--allow-remote"
    <3>1. Chosen(a, next, "--allow-remote") = Chosen(a, i, "--allow-remote") \cup {i}
      BY <1>1, <2>1
    <3>2. Chosen(a, next, "--allow-remote") # {} /\ LastOf(Chosen(a, next, "--allow-remote")) = i
      BY <1>2, <3>1
    <3> QED BY <1>5, <2>1, <3>2 DEF Results
  <2>2. CASE a[i] # "--allow-remote"
    <3>1. Chosen(a, next, "--allow-remote") = Chosen(a, i, "--allow-remote")
      BY <1>1, <2>2
    <3> QED BY <1>5, <2>2, <3>1 DEF Results
  <2> QED BY <2>1, <2>2
<1>6. ASSUME key \notin {"bind", "port", "allow_remote"} PROVE Results(a, f, next, key) = R
  BY <1>6 DEF Results
<1> QED BY <1>3, <1>4, <1>5, <1>6 DEF next

\* What is wanted depends on the arguments and the file.
LEMMA WantedStays ==
  ASSUME args' = args, file' = file PROVE \A key : Wanted(key)' = Wanted(key)
<1>1. IsOption' = IsOption
  <2>1. IsOption = OptionsIn(args)
    BY DEF IsOption, OptionsIn
  <2>2. IsOption' = OptionsIn(args')
    BY DEF IsOption, OptionsIn
  <2> QED BY <2>1, <2>2
<1>2. \A token : Given(token)' = Given(token)
  BY <1>1 DEF Given
<1>3. ASSUME NEW key PROVE FromFile(key)' = FromFile(key)
  <2>1. FromFile(key) = Said(file, key)
    BY FileIs
  <2>2. FromFile(key)' = Said(file', key)
    BY DEF FromFile, LinesOf, Said, Setters, Marked
  <2> QED BY <2>1, <2>2
<1> QED BY <1>2, <1>3 DEF Wanted

-----------------------------------------------------------------------------
(* Settings: the life of the process.                                      *)

Starting == {"runtime", "token", "server", "run"}
Leaving == {"cleanup", "registry", "stop", "erase"}
Places == {"scan", "lines", "options", "exited"} \cup Starting \cup Leaving

StartTypes == /\ pc \in Places
              /\ args \in Seq(Tokens) /\ index \in Nat \ {0}
              /\ file \in Seq(FileLine)

\* The caller's configuration is untouched until the file has ended well.
StartLoad ==
  /\ pc = "scan" => file = <<>> /\ section = FALSE /\ seen = {}
  /\ pc \in {"scan", "lines"} => result = "none" /\ config = Defaults
  /\ pc = "lines" => index = 1 /\ Tracks(file, section, seen, staged)
  /\ result = "OK" => Legal(file)
  /\ result = "ERROR" => ~Legal(file) /\ config = Defaults /\ pc = "exited"

\* The options before the next have been applied; a server starts with all.
StartOptions ==
  /\ pc = "options" =>
       /\ index <= Len(args) => OptionsIn(args)[index] = TRUE
       /\ DOMAIN config = DOMAIN Defaults
       /\ \A key \in DOMAIN Defaults : config[key] = Results(args, file, index, key)
  /\ pc \in Starting => /\ Valid(config) /\ DOMAIN config = DOMAIN Defaults
                        /\ \A key \in DOMAIN Defaults : config[key] = Wanted(key)

\* What lives is what the start has reached and the cleanup has not: who uses
\* another comes later and goes earlier.
StartLive ==
  /\ live \subseteq {"runtime", "models", "token", "server"}
  /\ "server" \in live => {"models", "runtime", "token"} \subseteq live
  /\ "models" \in live => "runtime" \in live
  /\ pc \in {"scan", "lines", "options", "runtime", "exited"} => live = {}
  /\ pc \in {"token", "server", "run"} => {"runtime", "models"} \subseteq live
  /\ pc \in {"server", "run"} => "token" \in live
  /\ pc \in {"registry", "stop", "erase"} => "server" \notin live
  /\ pc \in {"stop", "erase"} => "models" \notin live
  /\ pc = "erase" => "runtime" \notin live

StartInv == StartTypes /\ StartLoad /\ StartOptions /\ StartLive

LEMMA StartInitInv == Init => StartInv
<1> SUFFICES ASSUME Init PROVE StartInv
  OBVIOUS
<1>1. PICK n \in 0 .. MaxInput : args \in [1 .. n -> Tokens]
  BY DEF Init
<1>2. n \in Nat
  BY InputsAssumption
<1>3. args \in Seq(Tokens)
  BY <1>1, <1>2
<1>4. file = <<>> /\ pc = "scan" /\ index = 1 /\ result = "none" /\ config = Defaults
      /\ section = FALSE /\ seen = {} /\ live = {}
  BY DEF Init
<1>5. StartTypes
  BY <1>3, <1>4 DEF StartTypes, Places, Starting, Leaving
<1>6. StartLoad /\ StartOptions /\ StartLive
  BY <1>4 DEF StartLoad, StartOptions, StartLive, Starting
<1> QED BY <1>5, <1>6 DEF StartInv

LEMMA StartExact == StartInv => StartsAsConfigured
<1> SUFFICES ASSUME StartInv PROVE StartsAsConfigured
  OBVIOUS
<1>1. result \in {"OK", "ERROR"} => (result = "OK" <=> WellFormed)
  BY FileIs DEF StartInv, StartLoad
<1>2. pc = "run" => /\ \A key \in DOMAIN config : config[key] = Wanted(key)
                    /\ config.bind = "127.0.0.1" \/ config.allow_remote
                    /\ config.queue_capacity >= config.worker_threads
  <2> SUFFICES ASSUME pc = "run"
               PROVE  /\ \A key \in DOMAIN config : config[key] = Wanted(key)
                      /\ config.bind = "127.0.0.1" \/ config.allow_remote
                      /\ config.queue_capacity >= config.worker_threads
    OBVIOUS
  <2>1. /\ Valid(config) /\ DOMAIN config = DOMAIN Defaults
        /\ \A key \in DOMAIN Defaults : config[key] = Wanted(key)
    BY DEF StartInv, StartOptions, Starting
  <2>2. Valid(config)
    BY <2>1
  <2>3. config.bind = "127.0.0.1" \/ config.allow_remote
    BY <2>2, Zenon DEF Valid
  <2>4. config.queue_capacity >= config.worker_threads
    BY <2>2 DEF Valid
  <2> QED BY <2>1, <2>3, <2>4
<1>3. /\ "server" \in live => {"models", "runtime", "token"} \subseteq live
      /\ "models" \in live => "runtime" \in live
      /\ pc = "exited" => live = {}
  BY DEF StartInv, StartLive
<1> QED BY <1>1, <1>2, <1>3 DEF StartInv, StartLoad, StartsAsConfigured

\* A program that leaves before it has initialized anything.
LEMMA StartLeaves ==
  ASSUME StartInv, pc' = "exited", UNCHANGED <<args, index, file, result, config, live>>,
         pc \in {"scan", "lines", "options"}
  PROVE  StartInv'
<1>1. StartTypes'
  BY DEF StartInv, StartTypes, Places, Starting, Leaving
<1>2. StartLoad' /\ StartOptions' /\ StartLive'
  BY DEF StartInv, StartLoad, StartOptions, StartLive, Starting
<1> QED BY <1>1, <1>2 DEF StartInv

\* The first scan goes on.
LEMMA StartScans ==
  ASSUME StartInv, pc = "scan", pc' = pc, index' \in Nat \ {0},
         UNCHANGED <<args, load, config, live>>
  PROVE  StartInv'
<1>1. StartTypes'
  BY DEF StartInv, StartTypes, load
<1>2. StartLoad' /\ StartOptions' /\ StartLive'
  BY DEF StartInv, StartLoad, StartOptions, StartLive, Starting, load
<1> QED BY <1>1, <1>2 DEF StartInv

LEMMA StartScanPath == ASSUME StartInv, ScanPath PROVE StartInv'
<1>1. CASE pc' = pc
  <2>1. pc = "scan" /\ index' = index + 2 /\ UNCHANGED <<args, load, config, live>>
    BY <1>1 DEF ScanPath, Exit
  <2>2. index' \in Nat \ {0}
    BY <2>1 DEF StartInv, StartTypes
  <2> QED BY <1>1, <2>1, <2>2, StartScans
<1>2. CASE pc' # pc
  BY <1>2, StartLeaves DEF ScanPath, Exit, load
<1> QED BY <1>1, <1>2

LEMMA StartScanOther == ASSUME StartInv, ScanOther PROVE StartInv'
<1>1. pc = "scan" /\ pc' = pc /\ index' = index + 1 /\ UNCHANGED <<args, load, config, live>>
  BY DEF ScanOther
<1>2. index' \in Nat \ {0}
  BY <1>1 DEF StartInv, StartTypes
<1> QED BY <1>1, <1>2, StartScans

LEMMA StartOpenFile == ASSUME StartInv, OpenFile PROVE StartInv'
<1>1. /\ pc = "scan" /\ pc' = "lines" /\ index' = 1 /\ staged' = config
      /\ UNCHANGED <<args, file, result, section, seen, config, live>>
  BY DEF OpenFile
<1>2. StartTypes'
  BY <1>1 DEF StartInv, StartTypes, Places, Starting, Leaving
<1>3. Tracks(file', section', seen', staged')
  BY <1>1, NoLines DEF StartInv, StartLoad
<1>4. StartLoad'
  BY <1>1, <1>3 DEF StartInv, StartLoad
<1>5. StartOptions' /\ StartLive'
  BY <1>1 DEF StartInv, StartOptions, StartLive, Starting
<1> QED BY <1>2, <1>4, <1>5 DEF StartInv

\* Where the options begin, the configuration is what the file said.
LEMMA StartToOptions ==
  ASSUME StartInv, UNCHANGED <<args, file, live>>, pc \in {"scan", "lines"},
         pc' = "options", index' = 1, result' \in {"OK", "NOT_FOUND"},
         Legal(file), DOMAIN config' = DOMAIN Defaults,
         \A key \in DOMAIN Defaults : config'[key] = Said(file, key)
  PROVE  StartInv'
<1>1. StartTypes'
  BY DEF StartInv, StartTypes, Places, Starting, Leaving
<1>2. StartLoad'
  BY DEF StartInv, StartLoad
<1>3. StartOptions'
  <2>1. args \in Seq(Tokens)
    BY DEF StartInv, StartTypes
  <2>2. 1 <= Len(args) => OptionsIn(args)[1] = TRUE
    BY <2>1, NothingChosen
  <2>3. ASSUME NEW key \in DOMAIN Defaults PROVE config'[key] = Results(args, file, 1, key)
    <3>1. \A token : Chosen(args, 1, token) = {}
      BY <2>1 DEF Chosen
    <3>2. Results(args, file, 1, key) = Said(file, key)
      BY <3>1 DEF Results
    <3> QED BY <3>2
  <2> QED BY <2>2, <2>3 DEF StartOptions, Starting
<1>4. StartLive'
  BY DEF StartInv, StartLive
<1> QED BY <1>1, <1>2, <1>3, <1>4 DEF StartInv

LEMMA StartNotFound == ASSUME StartInv, NotFound PROVE StartInv'
<1>1. /\ pc = "scan" /\ result' = "NOT_FOUND" /\ index' = 1
      /\ UNCHANGED <<args, file, section, seen, staged, config, live>>
  BY DEF NotFound
<1>2. file = <<>> /\ config = Defaults
  BY <1>1 DEF StartInv, StartLoad
<1>3. CASE explicit
  <2>1. pc' = "exited"
    BY <1>3 DEF NotFound, Exit
  <2>2. StartTypes'
    BY <1>1, <2>1 DEF StartInv, StartTypes, Places, Starting, Leaving
  <2>3. StartLoad' /\ StartOptions' /\ StartLive'
    BY <1>1, <2>1 DEF StartInv, StartLoad, StartOptions, StartLive, Starting
  <2> QED BY <2>2, <2>3 DEF StartInv
<1>4. CASE ~explicit
  <2>1. pc' = "options"
    BY <1>4 DEF NotFound
  <2>2. Legal(file) /\ \A key \in DOMAIN Defaults : config'[key] = Said(file, key)
    BY <1>1, <1>2, NoLines DEF Tracks
  <2>3. DOMAIN config' = DOMAIN Defaults
    BY <1>1, <1>2
  <2> QED BY <1>1, <2>1, <2>2, <2>3, StartToOptions
<1> QED BY <1>3, <1>4

LEMMA StartEndOfFile == ASSUME StartInv, EndOfFile PROVE StartInv'
<1>1. /\ pc = "lines" /\ pc' = "options" /\ result' = "OK" /\ config' = staged
      /\ UNCHANGED <<args, index, file, live>>
  BY DEF EndOfFile
<1>2. index = 1 /\ Tracks(file, section, seen, staged)
  BY <1>1 DEF StartInv, StartLoad
<1>3. /\ Legal(file) /\ DOMAIN config' = DOMAIN Defaults
      /\ \A key \in DOMAIN Defaults : config'[key] = Said(file, key)
  BY <1>1, <1>2 DEF Tracks
<1> QED BY <1>1, <1>2, <1>3, StartToOptions

\* The load fails and nothing of it stays.
LEMMA StartLoadFails ==
  ASSUME StartInv, NEW line \in FileLine, ~Legal(Append(file, line)), file' = Append(file, line),
         pc \in {"scan", "lines"}, pc' = "exited", result' = "ERROR",
         UNCHANGED <<args, index, config, live>>
  PROVE  StartInv'
<1>1. file \in Seq(FileLine)
  BY DEF StartInv, StartTypes
<1>2. Append(file, line) \in Seq(FileLine)
  BY <1>1, AppendProperties
<1>3. StartTypes'
  BY <1>2 DEF StartInv, StartTypes, Places, Starting, Leaving
<1>4. StartLoad' /\ StartOptions' /\ StartLive'
  BY DEF StartInv, StartLoad, StartOptions, StartLive, Starting
<1> QED BY <1>3, <1>4 DEF StartInv

LEMMA StartCannotRead == ASSUME StartInv, CannotRead PROVE StartInv'
<1>1. /\ pc \in {"scan", "lines"} /\ file' = Append(file, Failed) /\ result' = "ERROR"
      /\ pc' = "exited" /\ UNCHANGED <<args, index, config, live>>
  BY DEF CannotRead, Exit
<1>2. Failed \in FileLine /\ Failed.form = "failed" /\ file \in Seq(FileLine)
  BY DEF FileLine, Failed, StartInv, StartTypes
<1>3. \E opened, names, copy : Tracks(file, opened, names, copy)
  BY <1>1, NoLines DEF StartInv, StartLoad
<1>4. ~Legal(Append(file, Failed))
  <2> HIDE DEF Failed
  <2> QED BY <1>2, <1>3, TracksFault
<1> QED BY <1>1, <1>2, <1>4, StartLoadFails

LEMMA StartReadLine == ASSUME StartInv, NEW line \in Lines, ReadLine(line) PROVE StartInv'
<1>1. /\ pc = "lines" /\ file' = Append(file, line) /\ UNCHANGED <<args, index, config, live>>
  BY DEF ReadLine
<1>2. /\ line \in FileLine /\ file \in Seq(FileLine) /\ index = 1
      /\ Tracks(file, section, seen, staged) /\ section \in BOOLEAN
  BY <1>1 DEF FileLine, StartInv, StartTypes, StartLoad, Tracks
<1>3. ASSUME pc' = pc, result' = result, Tracks(file', section', seen', staged') PROVE StartInv'
  <2>1. file' \in Seq(FileLine)
    BY <1>1, <1>2, AppendProperties
  <2>2. StartTypes'
    BY <1>1, <1>3, <2>1 DEF StartInv, StartTypes
  <2>3. StartLoad' /\ StartOptions' /\ StartLive'
    BY <1>1, <1>3 DEF StartInv, StartLoad, StartOptions, StartLive, Starting
  <2> QED BY <2>2, <2>3 DEF StartInv
<1>4. CASE Skips(line) /\ UNCHANGED <<pc, result, section, seen, staged, exit_code>>
  <2>1. Tracks(file', section', seen', staged')
    BY <1>1, <1>2, <1>4, TracksBlank DEF Skips
  <2> QED BY <1>3, <1>4, <2>1
<1>5. CASE Opens(line) /\ section' = TRUE /\ UNCHANGED <<pc, result, seen, staged, exit_code>>
  <2>1. line.form = "server" /\ section = FALSE
    BY <1>2, <1>5 DEF Opens
  <2>2. Tracks(file', section', seen', staged')
    BY <1>1, <1>2, <1>5, <2>1, TracksServer
  <2> QED BY <1>3, <1>5, <2>2
<1>6. CASE /\ Sets(line) /\ seen' = seen \union {line.key}
           /\ staged' = [staged EXCEPT ![line.key] = Meaning(line.key, line.value)]
           /\ UNCHANGED <<pc, result, section, exit_code>>
  <2>1. /\ line.form = "setting" /\ section = TRUE /\ line.indent = 2
        /\ line.key \notin seen /\ Accepts(line.key, line.value)
    BY <1>2, <1>6 DEF Sets
  <2>2. Tracks(file', section', seen', staged')
    BY <1>1, <1>2, <1>6, <2>1, TracksSetting
  <2> QED BY <1>3, <1>6, <2>2
<1>7. CASE /\ ~(Skips(line) \/ Opens(line) \/ Sets(line))
           /\ result' = "ERROR" /\ Exit(2) /\ UNCHANGED <<section, seen, staged>>
  <2>1. ~Legal(Append(file, line))
    BY <1>2, <1>7, TracksFault DEF Skips, Opens, Sets
  <2> QED BY <1>1, <1>2, <1>7, <2>1, StartLoadFails DEF Exit
<1> QED BY <1>4, <1>5, <1>6, <1>7 DEF ReadLine

\* An option is applied and the scan goes on behind it.
LEMMA StartOption ==
  ASSUME StartInv, pc = "options", pc' = pc, index <= Len(args), UNCHANGED <<args, load, live>>,
         index' = IF args[index] \in Takes THEN index + 2 ELSE index + 1,
         DOMAIN config' = DOMAIN Defaults,
         \A key \in DOMAIN Defaults :
           config'[key] = CASE key = "bind" /\ args[index] = "--bind" -> args[index + 1]
                            [] key = "port" /\ args[index] = "--port" -> Numeral[args[index + 1]]
                            [] key = "allow_remote" /\ args[index] = "--allow-remote" -> TRUE
                            [] OTHER -> config[key]
  PROVE  StartInv'
<1>1. /\ args \in Seq(Tokens) /\ index \in 1 .. Len(args) /\ OptionsIn(args)[index] = TRUE
      /\ UNCHANGED <<args, file, result, section, seen, staged>>
      /\ \A key \in DOMAIN Defaults : config[key] = Results(args, file, index, key)
  <2>1. args \in Seq(Tokens) /\ index \in Nat \ {0}
    BY DEF StartInv, StartTypes
  <2>2. index \in 1 .. Len(args)
    BY <2>1, LenProperties
  <2> QED BY <2>1, <2>2 DEF StartInv, StartOptions, load
<1> DEFINE next == After(args, index)
<1>2. next \in Nat \ {0} /\ (next <= Len(args) => OptionsIn(args)[next] = TRUE)
  BY <1>1, OptionPassed
<1>3. ASSUME NEW key \in DOMAIN Defaults PROVE config'[key] = Results(args, file, next, key)
  <2>1. Results(args, file, next, key) =
          CASE key = "bind" /\ args[index] = "--bind" -> args[index + 1]
            [] key = "port" /\ args[index] = "--port" -> Numeral[args[index + 1]]
            [] key = "allow_remote" /\ args[index] = "--allow-remote" -> TRUE
            [] OTHER -> Results(args, file, index, key)
    BY <1>1, ResultsPassed
  <2>2. config[key] = Results(args, file, index, key)
    BY <1>1
  <2> HIDE DEF next
  <2> QED BY <2>1, <2>2
<1>4. index' = next
  BY DEF After
<1> HIDE DEF next
<1>5. StartTypes'
  BY <1>1, <1>2, <1>4 DEF StartInv, StartTypes
<1>6. StartLoad'
  BY <1>1 DEF StartInv, StartLoad
<1>7. StartOptions'
  BY <1>1, <1>2, <1>3, <1>4 DEF StartOptions, Starting
<1>8. StartLive'
  BY DEF StartInv, StartLive
<1> QED BY <1>5, <1>6, <1>7, <1>8 DEF StartInv

\* Keys are settings.
LEMMA Keys == /\ DOMAIN Defaults = {"bind", "port", "allow_remote", "auth_token_env", "request_timeout_ms",
                                    "max_request_bytes", "max_output_bytes", "max_generation_tokens",
                                    "backlog", "worker_threads", "queue_capacity", "allowed_origins"}
              /\ "port" \in DOMAIN Largest
  BY DEF Defaults, Largest

LEMMA StartOverride ==
  ASSUME StartInv, NEW key \in {"bind", "port"}, NEW ok, NEW meaning,
         index <= Len(args), pc = "options", args[index] = (IF key = "bind" THEN "--bind" ELSE "--port"),
         meaning = (IF key = "bind" THEN args[index + 1] ELSE Numeral[args[index + 1]]),
         Override(key, ok, meaning)
  PROVE  StartInv'
<1>1. UNCHANGED <<args, load, live>>
  BY DEF Override
<1>2. CASE index < Len(args) /\ ok
  <2>1. /\ config' = [config EXCEPT ![key] = meaning] /\ index' = index + 2 /\ pc' = pc
    BY <1>2 DEF Override
  <2>2. DOMAIN config = DOMAIN Defaults /\ key \in DOMAIN Defaults
    BY Keys DEF StartInv, StartOptions
  <2>3. args[index] \in Takes
    BY DEF Takes
  <2>4. \A k \in DOMAIN Defaults : config'[k] = IF k = key THEN meaning ELSE config[k]
    BY <2>1, <2>2
  <2>5. DOMAIN config' = DOMAIN Defaults
    BY <2>1, <2>2
  <2>6. ASSUME NEW k \in DOMAIN Defaults
        PROVE  config'[k] = CASE k = "bind" /\ args[index] = "--bind" -> args[index + 1]
                              [] k = "port" /\ args[index] = "--port" -> Numeral[args[index + 1]]
                              [] k = "allow_remote" /\ args[index] = "--allow-remote" -> TRUE
                              [] OTHER -> config[k]
    BY <2>4
  <2> QED BY <1>1, <2>1, <2>3, <2>5, <2>6, StartOption
<1>3. CASE ~(index < Len(args) /\ ok)
  <2>1. pc' = "exited" /\ UNCHANGED <<config, index>>
    BY <1>3 DEF Override, Exit
  <2> QED BY <1>1, <2>1, StartLeaves DEF load
<1> QED BY <1>2, <1>3

LEMMA StartOptionStep ==
  ASSUME StartInv, OptionBind \/ OptionPort \/ OptionRemote \/ OptionVerbose \/ OptionConfig
  PROVE  StartInv'
<1>1. pc = "options" /\ index <= Len(args)
  BY DEF OptionBind, OptionPort, OptionRemote, OptionVerbose, OptionConfig, NextArg
<1>2. DOMAIN config = DOMAIN Defaults
  BY <1>1 DEF StartInv, StartOptions
<1>3. CASE OptionBind
  <2>1. args[index] = "--bind" /\ Override("bind", args[index + 1] \notin Long, args[index + 1])
    BY <1>3 DEF OptionBind, NextArg, Value
  <2> QED BY <1>1, <2>1, StartOverride
<1>4. CASE OptionPort
  <2>1. Meaning("port", args[index + 1]) = Numeral[args[index + 1]]
    BY Keys DEF Meaning
  <2>2. args[index] = "--port"
        /\ Override("port", Accepts("port", args[index + 1]), Numeral[args[index + 1]])
    BY <1>4, <2>1 DEF OptionPort, NextArg, Value
  <2> QED BY <1>1, <2>2, StartOverride
<1>5. CASE OptionRemote
  <2>1. /\ args[index] = "--allow-remote" /\ config' = [config EXCEPT !.allow_remote = TRUE]
        /\ index' = index + 1 /\ pc' = pc /\ UNCHANGED <<args, load, live>>
    BY <1>5 DEF OptionRemote, NextArg
  <2>2. DOMAIN config' = DOMAIN Defaults
    BY <1>2, <2>1
  <2>3. \A k \in DOMAIN Defaults : config'[k] = IF k = "allow_remote" THEN TRUE ELSE config[k]
    BY <1>2, <2>1
  <2>4. args[index] \notin Takes
    BY <2>1 DEF Takes
  <2>5. ASSUME NEW k \in DOMAIN Defaults
        PROVE  config'[k] = CASE k = "bind" /\ args[index] = "--bind" -> args[index + 1]
                              [] k = "port" /\ args[index] = "--port" -> Numeral[args[index + 1]]
                              [] k = "allow_remote" /\ args[index] = "--allow-remote" -> TRUE
                              [] OTHER -> config[k]
    BY <2>1, <2>3
  <2> QED BY <1>1, <2>1, <2>2, <2>4, <2>5, StartOption
<1>6. CASE OptionVerbose \/ OptionConfig
  <2>1. /\ args[index] \in {"--verbose", "--config"} /\ config' = config
        /\ index' = (IF args[index] = "--config" THEN index + 2 ELSE index + 1)
        /\ pc' = pc /\ UNCHANGED <<args, load, live>>
    BY <1>6 DEF OptionVerbose, OptionConfig, NextArg
  <2>2. index' = IF args[index] \in Takes THEN index + 2 ELSE index + 1
    BY <2>1 DEF Takes
  <2>3. ASSUME NEW k \in DOMAIN Defaults
        PROVE  config'[k] = CASE k = "bind" /\ args[index] = "--bind" -> args[index + 1]
                              [] k = "port" /\ args[index] = "--port" -> Numeral[args[index + 1]]
                              [] k = "allow_remote" /\ args[index] = "--allow-remote" -> TRUE
                              [] OTHER -> config[k]
    BY <2>1
  <2> QED BY <1>1, <1>2, <2>1, <2>2, <2>3, StartOption
<1> QED BY <1>3, <1>4, <1>5, <1>6

\* A configuration that is valid starts the program with it.
LEMMA StartValidate == ASSUME StartInv, Validate PROVE StartInv'
<1>1. pc = "options" /\ index > Len(args) /\ UNCHANGED <<args, index, load, config, live>>
  BY DEF Validate
<1>2. CASE Valid(config)
  <2>1. pc' = "runtime"
    BY <1>2 DEF Validate
  <2>2. args' = args /\ file' = file /\ result' = result /\ section' = section /\ seen' = seen
    BY <1>1 DEF load
  <2>3. args \in Seq(Tokens) /\ index \in Nat
    BY DEF StartInv, StartTypes
  <2>4. ASSUME NEW key \in DOMAIN Defaults PROVE config[key] = Wanted(key)
    <3>1. Wanted(key) = Results(args, file, index, key)
      BY <1>1, <2>3, AllChosen
    <3>2. config[key] = Results(args, file, index, key)
      BY <1>1 DEF StartInv, StartOptions
    <3> QED BY <3>1, <3>2
  <2>5. \A key : Wanted(key)' = Wanted(key)
    BY <2>2, WantedStays
  <2>6. StartTypes'
    BY <1>1, <2>1, <2>2 DEF StartInv, StartTypes, Places, Starting, Leaving
  <2>7. StartLoad'
    BY <1>1, <2>1, <2>2 DEF StartInv, StartLoad
  <2>8. DOMAIN config = DOMAIN Defaults
    BY <1>1 DEF StartInv, StartOptions
  <2>9. StartOptions'
    <3>1. Valid(config')
      BY <1>1, <1>2
    <3>2. DOMAIN config' = DOMAIN Defaults
          /\ \A key \in DOMAIN Defaults : config'[key] = Wanted(key)'
      BY <1>1, <2>4, <2>5, <2>8
    <3>3. pc' # "options"
      BY <2>1
    <3> QED BY <3>1, <3>2, <3>3 DEF StartOptions
  <2>10. StartLive'
    BY <1>1, <2>1 DEF StartInv, StartLive
  <2> QED BY <2>6, <2>7, <2>9, <2>10 DEF StartInv
<1>3. CASE ~Valid(config)
  BY <1>1, <1>3, StartLeaves DEF Validate, Exit, load
<1> QED BY <1>2, <1>3

\* What was decided stays while the program starts, serves and leaves.
LEMMA StartGoesOn ==
  ASSUME StartInv, pc \in Starting \cup Leaving, UNCHANGED <<args, index, load, config>>,
         \/ pc' \in Starting /\ pc \in Starting
         \/ pc' \in Leaving \cup {"exited"},
         StartLive'
  PROVE  StartInv'
<1>1. args' = args /\ file' = file /\ result' = result /\ section' = section /\ seen' = seen
      /\ index' = index /\ config' = config
  BY DEF load
<1>2. \A key : Wanted(key)' = Wanted(key)
  BY <1>1, WantedStays
<1>3. pc \notin {"scan", "lines", "options", "exited"}
      /\ pc' \in Places \ {"scan", "lines", "options"}
  BY DEF Starting, Leaving, Places
<1>4. StartTypes'
  BY <1>1, <1>3 DEF StartInv, StartTypes
<1>5. StartLoad'
  BY <1>1, <1>3 DEF StartInv, StartLoad
<1>6. StartOptions'
  <2>1. CASE pc' \in Starting
    <3>1. pc \in Starting
      BY <2>1 DEF Starting, Leaving
    <3>2. /\ Valid(config) /\ DOMAIN config = DOMAIN Defaults
          /\ \A key \in DOMAIN Defaults : config[key] = Wanted(key)
      BY <3>1 DEF StartInv, StartOptions
    <3>3. Valid(config')
      BY <1>1, <3>2
    <3>4. \A key \in DOMAIN Defaults : config'[key] = Wanted(key)'
      BY <1>1, <1>2, <3>2
    <3> QED BY <1>1, <1>3, <3>2, <3>3, <3>4 DEF StartOptions
  <2>2. CASE pc' \notin Starting
    BY <1>3, <2>2 DEF StartOptions
  <2> QED BY <2>1, <2>2
<1>7. StartLive'
  OBVIOUS
<1> QED BY <1>4, <1>5, <1>6, <1>7 DEF StartInv

LEMMA StartNext == ASSUME StartInv, [Next]_vars PROVE StartInv'
<1>1. CASE ScanHelp
  BY <1>1, StartLeaves DEF ScanHelp, Exit, load
<1>2. CASE \E token \in Tokens : OptionUnknown(token)
  BY <1>2, StartLeaves DEF OptionUnknown, NextArg, Exit, load
<1>3. CASE InitRuntime \/ ChooseToken \/ InitServer \/ InitFails
  <2>1. /\ pc \in Starting /\ pc' \in Starting \cup Leaving
        /\ UNCHANGED <<args, index, load, config>>
    BY <1>3 DEF InitRuntime, ChooseToken, InitServer, InitFails, Reach, Starting, Leaving
  <2>2. StartLive'
    BY <1>3 DEF InitRuntime, ChooseToken, InitServer, InitFails, Reach, StartInv, StartLive
  <2> QED BY <2>1, <2>2, StartGoesOn
<1>4. CASE \E ok \in BOOLEAN : RunServer(ok)
  <2>1. StartLive'
    BY <1>4 DEF RunServer, StartInv, StartLive
  <2> QED BY <1>4, <2>1, StartGoesOn DEF RunServer, Starting, Leaving
<1>5. CASE ShutServer \/ ShutModels \/ ShutRuntime \/ EraseToken
  <2>1. /\ pc \in Leaving /\ pc' \in Leaving \cup {"exited"}
        /\ UNCHANGED <<args, index, load, config>>
    BY <1>5 DEF ShutServer, ShutModels, ShutRuntime, EraseToken, Release, Leaving
  <2>2. StartLive'
    BY <1>5 DEF ShutServer, ShutModels, ShutRuntime, EraseToken, Release, StartInv, StartLive
  <2> QED BY <2>1, <2>2, StartGoesOn
<1>6. CASE UNCHANGED vars
  <2>1. UNCHANGED <<pc, args, index, file, result, section, seen, staged, config, live>>
    BY <1>6 DEF vars
  <2>2. \A key : Wanted(key)' = Wanted(key)
    BY <2>1, WantedStays
  <2>3. StartTypes' /\ StartLoad' /\ StartLive'
    BY <2>1 DEF StartInv, StartTypes, StartLoad, StartLive
  <2>4. (pc = "options" =>
           /\ index <= Len(args) => OptionsIn(args)[index] = TRUE
           /\ DOMAIN config = DOMAIN Defaults
           /\ \A key \in DOMAIN Defaults : config[key] = Results(args, file, index, key))'
    BY <2>1 DEF StartInv, StartOptions
  <2>5. (pc \in Starting => /\ Valid(config) /\ DOMAIN config = DOMAIN Defaults
                            /\ \A key \in DOMAIN Defaults : config[key] = Wanted(key))'
    <3> SUFFICES ASSUME pc' \in Starting
                 PROVE  /\ Valid(config') /\ DOMAIN config' = DOMAIN Defaults
                        /\ \A key \in DOMAIN Defaults : config'[key] = Wanted(key)'
      BY DEF Starting
    <3>1. /\ Valid(config) /\ DOMAIN config = DOMAIN Defaults
          /\ \A key \in DOMAIN Defaults : config[key] = Wanted(key)
      BY <2>1 DEF StartInv, StartOptions
    <3> QED BY <2>1, <2>2, <3>1
  <2>6. StartOptions'
    BY <2>4, <2>5 DEF StartOptions
  <2> QED BY <2>3, <2>6 DEF StartInv
<1> QED BY <1>1, <1>2, <1>3, <1>4, <1>5, <1>6, StartScanPath, StartScanOther, StartOpenFile,
           StartNotFound, StartCannotRead, StartReadLine, StartEndOfFile, StartOptionStep,
           StartValidate DEF Next, Exited

(* For every command line and every file: the load succeeds exactly for a  *)
(* well-formed file and changes nothing otherwise, and a server that runs  *)
(* has for every setting its last option, else the file's value, else the  *)
(* default; wherever the start fails, what the server and the models use   *)
(* outlives them, and an exit leaves nothing initialized (main,            *)
(* nya_config_load, nya_config_validate).                                  *)
THEOREM SettingsAreAsConfigured == InputsSpec => []RunsAsConfigured
<1> DEFINE Inv == driven = "settings" => StartInv
<1>1. InputsInit => Inv
  BY StartInitInv DEF InputsInit
<1>2. Inv /\ [InputsNext]_all => Inv'
  <2> SUFFICES ASSUME Inv, [InputsNext]_all, (driven = "settings")' PROVE StartInv'
    OBVIOUS
  <2>1. driven = "settings" /\ [Next]_vars
    BY DEF InputsNext, all, settings, both, vars
  <2> QED BY <2>1, StartNext
<1>3. Inv => RunsAsConfigured
  BY StartExact DEF RunsAsConfigured
<1> QED BY <1>1, <1>2, <1>3, PTL DEF InputsSpec

-----------------------------------------------------------------------------
(* Model files.                                                            *)

\* What an inspection reads, and what it keeps of a tensor.
DirEntry == Metadata \cup Tensors \cup Members \cup Fields \cup {[key |-> "__metadata__"]}
Extent == [name : Nat, begin : Nat, end : Nat]
Reading == {"open", "header", "metadata", "tensors", "members", "fields"}

Named(entry) == "name" \in DOMAIN entry

\* Which bytes of the data entry e of a file of kind k describes.
First(k, e) == IF k = "gguf" THEN e.offset ELSE e.begin
Bytes(k, e) == IF k = "gguf" THEN File!ByteCount(e) ELSE e.end - e.begin

\* Range j of r is that of entry where[j] of d, and each entry with a name has one.
Listing(k, d, r, where) ==
  /\ where \in [DOMAIN r -> DOMAIN d]
  /\ \A i, j \in DOMAIN r : i # j => where[i] # where[j]
  /\ \A j \in DOMAIN r : LET e == d[where[j]]
                         IN  /\ Named(e) /\ First(k, e) \in Nat /\ Bytes(k, e) \in Nat
                             /\ r[j].name = e.name /\ r[j].begin = First(k, e)
                             /\ r[j].end = First(k, e) + Bytes(k, e)
  /\ \A i \in DOMAIN d : Named(d[i]) => \E j \in DOMAIN r : where[j] = i

\* The bytes of entry e in a file whose data begins at start.
Span(k, e, start) == start + First(k, e) .. start + First(k, e) + Bytes(k, e) - 1

\* What an accepted file promises, if it has the entries d.
Sound(k, d, a, sz, start) ==
  LET tensors == {i \in DOMAIN d : Named(d[i])}
  IN  /\ \A i \in tensors : Span(k, d[i], start) \subseteq start .. sz - 1
      /\ \A i, j \in tensors :
           i # j => d[i].name # d[j].name /\ Span(k, d[i], start) \cap Span(k, d[j], start) = {}
      /\ k = "gguf" => \A i \in tensors : (start + d[i].offset) % a = 0
      /\ k = "safetensors" => UNION {Span(k, d[i], start) : i \in tensors} = start .. sz - 1
      /\ k = "onnx" => \E i, j \in {i \in DOMAIN d : "number" \in DOMAIN d[i]} :
                         d[i].number = 1 /\ d[j].number = 7

FileTypes ==
  /\ pc \in Reading \cup {"close", "done"}
  /\ kind \in {"none", "gguf", "safetensors", "onnx", "unknown"}
  /\ result \in {"none", "OK", "INVALID", "UNSUPPORTED", "RESOURCE_LIMIT", "IO_ERROR"}
  /\ pc # "done" => size \in Nat /\ position \in 0 .. size
  /\ alignment \in Nat
  /\ dir \in Seq(DirEntry) /\ ranges \in Seq(Extent)
  /\ \A j \in DOMAIN ranges : ranges[j].begin <= ranges[j].end

FilePhases ==
  /\ result = "none" <=> pc \in Reading
  /\ pc = "open" => dir = <<>>
  /\ pc \in {"open", "header", "metadata"} => ranges = <<>>
  /\ pc \in {"metadata", "tensors"} => kind = "gguf"
  /\ pc = "members" => kind = "safetensors"
  /\ pc = "fields" => kind = "onnx" /\ ranges = <<>> /\ dir \in Seq(Fields)
  /\ pc = "header" => dir = <<>>
  /\ pc = "tensors" => alignment # 0 /\ \A j \in DOMAIN ranges : ranges[j].begin % alignment = 0

Listed == \E where \in [DOMAIN ranges -> DOMAIN dir] : Listing(kind, dir, ranges, where)

FileInv ==
  /\ FileTypes
  /\ FilePhases
  /\ result \in {"none", "OK"} => Listed
  /\ pc = "open" \/ (pc = "done" /\ result # "OK") => information = File!Nothing
  /\ result = "OK" => Sound(kind, dir, alignment, size, information.data_offset)

\* What is published before the inspection is over: the tensors still to be
\* read and those read are the published number, and of a field 1, of which
\* there is at most one, the value is the published version.
Published ==
  /\ DOMAIN information = {"version", "tensors", "data_offset"}
  /\ pc \in {"metadata", "tensors"} =>
       counts \in Nat \X Nat /\ counts[2] + Len(ranges) = information.tensors
  /\ result = "OK" => kind \in {"gguf", "safetensors", "onnx"}
  /\ result = "OK" /\ kind # "onnx" => Len(ranges) = information.tensors
  /\ pc = "fields" \/ (result = "OK" /\ kind = "onnx") =>
       \A i \in File!FieldsNamed(1) : dir[i].value = information.version

\* The product of a shape is counted up from 1.
LEMMA ProductType == ASSUME NEW shape \in Seq(Nat) PROVE File!Product(shape) \in Nat
<1> DEFINE n == Len(shape)
           Body(h) == [i \in 0 .. n |-> IF i = 0 THEN 1 ELSE h[i - 1] * shape[i]]
           Solves(k, h) == h[0] = 1 /\ \A i \in 1 .. k : h[i] = h[i - 1] * shape[i]
           Good(k) == \E h \in [0 .. k -> Nat] : Solves(k, h)
           Bad == {k \in 0 .. n : ~Good(k)}
           count == CHOOSE h : h = Body(h)
<1>1. n \in Nat /\ \A i \in 1 .. n : shape[i] \in Nat
  BY LenProperties, ElementOfSeq
<1>2. Bad = {}
  <2> SUFFICES ASSUME Bad # {} PROVE FALSE
    OBVIOUS
  <2>1. Bad \subseteq Nat
    BY <1>1
  <2>2. PICK k \in Bad : \A m \in Bad : k <= m
    <3> HIDE DEF Bad
    <3> QED BY <2>1, LeastElement
  <2>3. k \in 0 .. n /\ ~Good(k)
    OBVIOUS
  <2> HIDE DEF n
  <2>4. CASE k = 0
    <3>1. [i \in 0 .. k |-> 1] \in [0 .. k -> Nat] /\ [i \in 0 .. k |-> 1][0] = 1 /\ 1 .. k = {}
      BY <2>4
    <3> QED BY <2>3, <3>1
  <2>5. CASE k # 0
    <3>1. k - 1 \in 0 .. n /\ k \in 1 .. n /\ ~(k <= k - 1)
      BY <1>1, <2>3, <2>5
    <3>2. Good(k - 1)
      BY <2>2, <3>1
    <3>3. PICK h \in [0 .. k - 1 -> Nat] : Solves(k - 1, h)
      BY <3>2
    <3> DEFINE last == h[k - 1] * shape[k]
               g == [i \in 0 .. k |-> IF i = k THEN last ELSE h[i]]
    <3>4. last \in Nat
      <4>1. h[k - 1] \in Nat /\ shape[k] \in Nat
        BY <1>1, <3>1
      <4>2. \A x, y \in Nat : x * y \in Nat
        OBVIOUS
      <4> QED BY <4>1, <4>2
    <3> HIDE DEF last
    <3>5. g \in [0 .. k -> Nat]
      <4>1. ASSUME NEW i \in 0 .. k PROVE g[i] \in Nat
        <5>1. i # k => i \in 0 .. k - 1
          BY <3>1
        <5> QED BY <3>4, <5>1
      <4> QED BY <4>1
    <3>6. g[0] = 1
      BY <2>5, <3>1, <3>3
    <3>7. ASSUME NEW i \in 1 .. k PROVE g[i] = g[i - 1] * shape[i]
      <4>1. CASE i = k
        <5>1. g[i] = last /\ g[i - 1] = h[k - 1]
          BY <3>1, <4>1
        <5> QED BY <4>1, <5>1 DEF last
      <4>2. CASE i # k
        <5>1. i \in 1 .. k - 1 /\ i - 1 \in 0 .. k /\ i - 1 # k /\ i \in 0 .. k
          BY <3>1, <4>2
        <5>2. g[i] = h[i] /\ g[i - 1] = h[i - 1]
          BY <4>2, <5>1
        <5> QED BY <3>3, <5>1, <5>2
      <4> QED BY <4>1, <4>2
    <3> HIDE DEF g
    <3>8. Good(k)
      BY <3>5, <3>6, <3>7
    <3> QED BY <2>3, <3>8
  <2> QED BY <2>4, <2>5
<1>3. PICK h \in [0 .. n -> Nat] : Solves(n, h)
  <2>1. n \in 0 .. n
    BY <1>1
  <2> HIDE DEF Solves, n
  <2> QED BY <1>2, <2>1
<1>4. h = Body(h)
  <2>1. \A i \in 0 .. n : i = 0 \/ i \in 1 .. n
    BY <1>1
  <2> HIDE DEF n
  <2>2. \A i \in 0 .. n : h[i] = Body(h)[i]
    BY <1>3, <2>1
  <2> QED BY <2>2
<1>5. count = Body(count)
  <2> HIDE DEF Body
  <2> QED BY <1>4
<1> HIDE DEF count
<1>6. ASSUME NEW i \in 0 .. n PROVE count[i] \in Nat
  <2> DEFINE Wrong == {j \in 0 .. n : count[j] \notin Nat}
  <2>1. Wrong \subseteq Nat
    BY <1>1
  <2>2. ASSUME Wrong # {} PROVE FALSE
    <3>1. PICK j \in Wrong : \A m \in Wrong : j <= m
      <4> HIDE DEF Wrong
      <4> QED BY <2>1, <2>2, LeastElement
    <3>2. j \in 0 .. n /\ count[j] \notin Nat
      OBVIOUS
    <3>3. count[j] = IF j = 0 THEN 1 ELSE count[j - 1] * shape[j]
      BY <1>5, <3>2
    <3>4. j # 0 /\ j \in 1 .. n /\ j - 1 \in 0 .. n /\ ~(j <= j - 1)
      BY <1>1, <3>2, <3>3
    <3>5. count[j - 1] \in Nat /\ shape[j] \in Nat
      BY <1>1, <3>1, <3>4
    <3>6. \A x, y \in Nat : x * y \in Nat
      OBVIOUS
    <3>7. count[j] = count[j - 1] * shape[j]
      BY <3>3, <3>4
    <3> QED BY <3>2, <3>5, <3>6, <3>7
  <2> QED BY <2>2
<1>7. File!Product(shape) = count[n] /\ n \in 0 .. n
  BY <1>1 DEF File!Product, count
<1> QED BY <1>6, <1>7

\* Every range of the directory has a length.
LEMMA EntryTypes ==
  /\ \A t \in Tensors : /\ Named(t) /\ t.name \in Nat /\ t.offset \in Nat
                        /\ t.shape \in Seq(Nat) /\ t.bytes \in Nat
  /\ \A m \in Members : Named(m) /\ m.name \in Nat /\ m.begin \in Nat /\ m.end \in Nat
  /\ \A e \in Metadata : ~Named(e) /\ e.bytes \in Nat /\ e.value \in Nat
  /\ \A f \in Fields : ~Named(f) /\ "number" \in DOMAIN f /\ f.bytes \in Nat
  /\ ~Named([key |-> "__metadata__"])
<1>1. \A t \in Tensors : t \in [name : Nat, shape : Seq(Nat), type : STRING, offset : Nat, bytes : Nat]
  BY FileAssumption
<1>2. \A m \in Members : m \in [name : Nat, fields : Seq(Nat), bits : Nat, shape : Seq(Nat),
                                begin : Nat, end : Nat]
  BY FileAssumption
<1>3. \A e \in Metadata : e \in [key : STRING, bytes : Nat, value : Nat]
  BY FileAssumption
<1>4. \A f \in Fields : f \in [number : Nat, wire : Nat, bytes : Nat, value : Nat]
  BY FileAssumption
<1>5. \A t \in Tensors : /\ Named(t) /\ t.name \in Nat /\ t.offset \in Nat
                         /\ t.shape \in Seq(Nat) /\ t.bytes \in Nat
  BY <1>1 DEF Named
<1>6. \A m \in Members : Named(m) /\ m.name \in Nat /\ m.begin \in Nat /\ m.end \in Nat
  BY <1>2 DEF Named
<1>7. \A e \in Metadata : ~Named(e) /\ e.bytes \in Nat /\ e.value \in Nat
  BY <1>3 DEF Named
<1>8. \A f \in Fields : ~Named(f) /\ "number" \in DOMAIN f /\ f.bytes \in Nat
  BY <1>4 DEF Named
<1>9. ~Named([key |-> "__metadata__"])
  BY DEF Named
<1> QED BY <1>5, <1>6, <1>7, <1>8, <1>9

LEMMA ByteCountType ==
  ASSUME NEW t \in Tensors, t.type \in DOMAIN Blocks
  PROVE  File!ByteCount(t) \in Nat
<1>1. File!Product(t.shape) \in Nat
  BY EntryTypes, ProductType
<1>2. Blocks[t.type][1] \in Nat \ {0} /\ Blocks[t.type][2] \in Nat
  BY FileAssumption
<1>3. \A x, y, z \in Nat : y # 0 => (x \div y) * z \in Nat
  <2>1. \A x, y \in Nat : y # 0 => x \div y \in Nat
    OBVIOUS
  <2>2. \A x, y \in Nat : x * y \in Nat
    OBVIOUS
  <2> QED BY <2>1, <2>2
<1> QED BY <1>1, <1>2, <1>3 DEF File!ByteCount

\* t is s in another order.
Permutes(s, t, p) ==
  /\ p \in [DOMAIN s -> DOMAIN s]
  /\ \A i, j \in DOMAIN s : p[i] = p[j] => i = j
  /\ \A j \in DOMAIN s : \E i \in DOMAIN s : p[i] = j
  /\ t = [i \in DOMAIN s |-> s[p[i]]]

LEMMA BijectionPermutes ==
  ASSUME NEW s, NEW p \in File!Bijection(DOMAIN s, DOMAIN s)
  PROVE  Permutes(s, [i \in DOMAIN s |-> s[p[i]]], p)
BY DEF Permutes, File!Bijection, File!Injection, File!Surjection, File!IsInjective

\* What is sorted is a permutation, and what is ordered is in order.
LEMMA NamesInOrder ==
  ASSUME NEW s, NEW t, t \in File!Arranged(s, File!ByName)
  PROVE  /\ \E p : Permutes(s, t, p)
         /\ \A i, j \in DOMAIN s : i < j => ~(t[j].name < t[i].name)
<1>1. /\ t \in {[i \in DOMAIN s |-> s[p[i]]] : p \in File!Bijection(DOMAIN s, DOMAIN s)}
      /\ \A i, j \in DOMAIN s : i < j => ~File!ByName(t[j], t[i])
  BY DEF File!Arranged
<1>2. \E p : Permutes(s, t, p)
  BY <1>1, BijectionPermutes
<1> QED BY <1>1, <1>2 DEF File!ByName

LEMMA BeginsInOrder ==
  ASSUME NEW s, NEW t, t \in File!Arranged(s, File!ByBegin) \/ t \in File!Arranged(s, File!ByBeginEnd)
  PROVE  /\ \E p : Permutes(s, t, p)
         /\ \A i, j \in DOMAIN s : i < j => ~(t[j].begin < t[i].begin)
<1>1. /\ t \in {[i \in DOMAIN s |-> s[p[i]]] : p \in File!Bijection(DOMAIN s, DOMAIN s)}
      /\ \A i, j \in DOMAIN s : i < j => ~(t[j].begin < t[i].begin)
  <2>1. CASE t \in File!Arranged(s, File!ByBegin)
    BY <2>1 DEF File!Arranged, File!ByBegin
  <2>2. CASE t \in File!Arranged(s, File!ByBeginEnd)
    BY <2>2 DEF File!Arranged, File!ByBeginEnd
  <2> QED BY <2>1, <2>2
<1>2. \E p : Permutes(s, t, p)
  BY <1>1, BijectionPermutes
<1> QED BY <1>1, <1>2

\* Two places of s are two places of t, in one order or the other.
Pairs(s, t) == \A a, b \in DOMAIN s : a # b =>
                  \E i, j \in DOMAIN s : t[i] = s[a] /\ t[j] = s[b] /\ (i < j \/ j < i)

LEMMA PairsOf ==
  ASSUME NEW s \in Seq(Extent), NEW t, NEW p, Permutes(s, t, p)
  PROVE  Pairs(s, t)
<1> USE DEF Pairs
<1> SUFFICES ASSUME NEW a \in DOMAIN s, NEW b \in DOMAIN s, a # b
             PROVE  \E i, j \in DOMAIN s : t[i] = s[a] /\ t[j] = s[b] /\ (i < j \/ j < i)
  OBVIOUS
<1>1. PICK i, j \in DOMAIN s : p[i] = a /\ p[j] = b
  BY DEF Permutes
<1>2. i # j /\ t[i] = s[a] /\ t[j] = s[b]
  BY <1>1 DEF Permutes
<1>3. i \in Nat /\ j \in Nat
  BY LenProperties
<1>4. i < j \/ j < i
  BY <1>2, <1>3
<1> QED BY <1>2, <1>4

LEMMA ExtentTypes ==
  ASSUME NEW s \in Seq(Extent)
  PROVE  /\ Len(s) \in Nat /\ DOMAIN s = 1 .. Len(s)
         /\ \A i \in DOMAIN s : s[i].name \in Nat /\ s[i].begin \in Nat /\ s[i].end \in Nat
<1>1. Len(s) \in Nat /\ DOMAIN s = 1 .. Len(s) /\ \A i \in 1 .. Len(s) : s[i] \in Extent
  BY LenProperties, ElementOfSeq
<1> QED BY <1>1 DEF Extent

LEMMA PermutedTypes ==
  ASSUME NEW s \in Seq(Extent), NEW t, NEW p, Permutes(s, t, p)
  PROVE  \A i \in DOMAIN s : t[i].name \in Nat /\ t[i].begin \in Nat /\ t[i].end \in Nat
<1>1. \A i \in DOMAIN s : p[i] \in DOMAIN s /\ t[i] = s[p[i]]
  BY DEF Permutes
<1> QED BY <1>1, ExtentTypes

\* Names whose neighbours differ after the first sort all differ.
LEMMA NamesDiffer ==
  ASSUME NEW s \in Seq(Extent), NEW t, t \in File!Arranged(s, File!ByName),
         \A i \in 2 .. Len(s) : t[i - 1].name # t[i].name,
         NEW a \in DOMAIN s, NEW b \in DOMAIN s, a # b
  PROVE  s[a].name # s[b].name
<1>1. PICK p : Permutes(s, t, p)
  BY NamesInOrder
<1>2. /\ \A i, j \in DOMAIN s : i < j => ~(t[j].name < t[i].name)
      /\ \A i \in DOMAIN s : t[i].name \in Nat
      /\ DOMAIN s = 1 .. Len(s) /\ Len(s) \in Nat
  BY <1>1, NamesInOrder, PermutedTypes, ExtentTypes
<1>3. ASSUME NEW i \in DOMAIN s, NEW j \in DOMAIN s, i < j PROVE t[i].name # t[j].name
  <2>1. i + 1 \in DOMAIN s /\ i + 1 \in 2 .. Len(s) /\ (i + 1) - 1 = i /\ i < i + 1
        /\ (i + 1 = j \/ i + 1 < j)
    BY <1>2, <1>3
  <2>2. t[i].name # t[i + 1].name
    BY <2>1
  <2>3. t[i].name <= t[i + 1].name
    <3>1. ~(t[i + 1].name < t[i].name)
      BY <1>2, <2>1
    <3>2. t[i].name \in Nat /\ t[i + 1].name \in Nat
      BY <1>2, <2>1
    <3> QED BY <3>1, <3>2
  <2>4. t[i + 1].name <= t[j].name
    <3>1. CASE i + 1 = j
      BY <1>2, <3>1
    <3>2. CASE i + 1 < j
      <4>1. ~(t[j].name < t[i + 1].name)
        BY <1>2, <2>1, <3>2
      <4>2. t[i + 1].name \in Nat /\ t[j].name \in Nat
        BY <1>2, <2>1
      <4> QED BY <4>1, <4>2
    <3> QED BY <2>1, <3>1, <3>2
  <2>5. t[i].name \in Nat /\ t[i + 1].name \in Nat /\ t[j].name \in Nat
    BY <1>2, <2>1
  <2> QED BY <2>2, <2>3, <2>4, <2>5
<1>4. PICK i, j \in DOMAIN s : t[i] = s[a] /\ t[j] = s[b] /\ (i < j \/ j < i)
  <2>1. Pairs(s, t)
    BY <1>1, PairsOf
  <2> QED BY <2>1 DEF Pairs
<1>5. t[i].name # t[j].name
  BY <1>3, <1>4
<1> QED BY <1>4, <1>5

\* Ranges that do not overlap the one before, after the second sort, are apart.
LEMMA RangesApart ==
  ASSUME NEW s \in Seq(Extent), NEW t,
         t \in File!Arranged(s, File!ByBegin) \/ t \in File!Arranged(s, File!ByBeginEnd),
         \A i \in 2 .. Len(s) : t[i - 1].end <= t[i].begin,
         NEW a \in DOMAIN s, NEW b \in DOMAIN s, a # b
  PROVE  s[a].end <= s[b].begin \/ s[b].end <= s[a].begin
<1>1. PICK p : Permutes(s, t, p)
  BY BeginsInOrder
<1>2. /\ \A i, j \in DOMAIN s : i < j => ~(t[j].begin < t[i].begin)
      /\ \A i \in DOMAIN s : t[i].begin \in Nat /\ t[i].end \in Nat
      /\ DOMAIN s = 1 .. Len(s) /\ Len(s) \in Nat
  BY <1>1, BeginsInOrder, PermutedTypes, ExtentTypes
<1>3. ASSUME NEW i \in DOMAIN s, NEW j \in DOMAIN s, i < j PROVE t[i].end <= t[j].begin
  <2>1. i + 1 \in DOMAIN s /\ i + 1 \in 2 .. Len(s) /\ (i + 1) - 1 = i
        /\ (i + 1 = j \/ i + 1 < j)
    BY <1>2, <1>3
  <2>2. t[i].end <= t[i + 1].begin
    BY <2>1
  <2>3. t[i + 1].begin <= t[j].begin
    <3>1. CASE i + 1 = j
      BY <1>2, <3>1
    <3>2. CASE i + 1 < j
      <4>1. ~(t[j].begin < t[i + 1].begin)
        BY <1>2, <2>1, <3>2
      <4>2. t[i + 1].begin \in Nat /\ t[j].begin \in Nat
        BY <1>2, <2>1
      <4> QED BY <4>1, <4>2
    <3> QED BY <2>1, <3>1, <3>2
  <2>4. t[i].end \in Nat /\ t[i + 1].begin \in Nat /\ t[j].begin \in Nat
    BY <1>2, <2>1
  <2> QED BY <2>2, <2>3, <2>4
<1>4. PICK i, j \in DOMAIN s : t[i] = s[a] /\ t[j] = s[b] /\ (i < j \/ j < i)
  <2>1. Pairs(s, t)
    BY <1>1, PairsOf
  <2> QED BY <2>1 DEF Pairs
<1> QED BY <1>3, <1>4

\* Ranges each of which begins where the one before ends leave no byte out.
LEMMA RangesCover ==
  ASSUME NEW s \in Seq(Extent), NEW t, NEW p, Permutes(s, t, p), NEW data \in Nat,
         \A i \in DOMAIN s : t[i].begin = IF i = 1 THEN 0 ELSE t[i - 1].end,
         data = IF Len(s) = 0 THEN 0 ELSE t[Len(s)].end,
         NEW b \in 0 .. data - 1
  PROVE  \E a \in DOMAIN s : s[a].begin <= b /\ b < s[a].end
<1>1. /\ \A i \in DOMAIN s : t[i].begin \in Nat /\ t[i].end \in Nat
      /\ DOMAIN s = 1 .. Len(s) /\ Len(s) \in Nat
  BY PermutedTypes, ExtentTypes
<1> DEFINE Behind == {i \in DOMAIN s : b < t[i].end}
<1>2. Len(s) \in Behind
  <2>1. Len(s) # 0 /\ data = t[Len(s)].end
    OBVIOUS
  <2> QED BY <1>1, <2>1
<1>3. Behind \subseteq Nat
  BY <1>1
<1>4. PICK i \in Behind : \A j \in Behind : i <= j
  <2> HIDE DEF Behind
  <2> QED BY <1>2, <1>3, LeastElement
<1>5. i \in DOMAIN s /\ b < t[i].end
  OBVIOUS
<1>6. t[i].begin <= b
  <2>1. CASE i = 1
    BY <1>5, <2>1
  <2>2. CASE i # 1
    <3>1. i - 1 \in DOMAIN s /\ ~(i <= i - 1)
      BY <1>1, <1>5, <2>2
    <3>2. i - 1 \notin Behind
      <4> HIDE DEF Behind
      <4> QED BY <1>4, <3>1
    <3>3. ~(b < t[i - 1].end) /\ t[i - 1].end \in Nat
      BY <1>1, <3>1, <3>2
    <3>4. t[i].begin = t[i - 1].end
      BY <1>5, <2>2
    <3> QED BY <3>3, <3>4
  <2> QED BY <2>1, <2>2
<1>7. p[i] \in DOMAIN s /\ t[i] = s[p[i]]
  BY <1>5 DEF Permutes
<1> QED BY <1>5, <1>6, <1>7

\* What is listed spans the bytes of its range.
Spans(k, d, r, where, start) == \A j \in DOMAIN r :
  /\ Span(k, d[where[j]], start) = start + r[j].begin .. start + r[j].end - 1
  /\ d[where[j]].name = r[j].name /\ First(k, d[where[j]]) = r[j].begin

LEMMA ListedSpan ==
  ASSUME NEW k, NEW d, NEW r, NEW where, Listing(k, d, r, where), NEW start \in Nat
  PROVE  Spans(k, d, r, where, start)
<1> SUFFICES ASSUME NEW j \in DOMAIN r
             PROVE  /\ Span(k, d[where[j]], start) = start + r[j].begin .. start + r[j].end - 1
                    /\ d[where[j]].name = r[j].name /\ First(k, d[where[j]]) = r[j].begin
  BY DEF Spans
<1> DEFINE e == d[where[j]]
<1>1. /\ First(k, e) \in Nat /\ Bytes(k, e) \in Nat /\ r[j].name = e.name
      /\ r[j].begin = First(k, e) /\ r[j].end = First(k, e) + Bytes(k, e)
  BY DEF Listing
<1> HIDE DEF e
<1>2. start + First(k, e) + Bytes(k, e) - 1 = start + (First(k, e) + Bytes(k, e)) - 1
  BY <1>1
<1>3. Span(k, e, start) = start + r[j].begin .. start + r[j].end - 1
  BY <1>1, <1>2 DEF Span
<1> QED BY <1>1, <1>3 DEF e

\* An entry with a name is that of a range.
LEMMA NamedIsListed ==
  ASSUME NEW k, NEW d, NEW r, NEW where, Listing(k, d, r, where)
  PROVE  \A i \in {i \in DOMAIN d : Named(d[i])} : \E j \in DOMAIN r : where[j] = i
BY DEF Listing

LEMMA ApartFrom ==
  \A start, b1, e1, b2, e2 \in Nat :
    e1 <= b2 \/ e2 <= b1 =>
      (start + b1 .. start + e1 - 1) \cap (start + b2 .. start + e2 - 1) = {}
  OBVIOUS

\* What the checks of the ranges say of the entries.
LEMMA SoundFrom ==
  ASSUME NEW k, k \in {"gguf", "safetensors"}, NEW d, NEW r \in Seq(Extent), NEW where,
         Listing(k, d, r, where), NEW start \in Nat, NEW sz \in Nat, NEW a,
         \A i \in DOMAIN r : r[i].end <= sz - start,
         \A i, j \in DOMAIN r : i # j => /\ r[i].name # r[j].name
                                         /\ r[i].end <= r[j].begin \/ r[j].end <= r[i].begin,
         k = "gguf" => \A i \in DOMAIN r : (start + r[i].begin) % a = 0,
         k = "safetensors" => \A b \in 0 .. sz - start - 1 :
                                \E i \in DOMAIN r : r[i].begin <= b /\ b < r[i].end
  PROVE  Sound(k, d, a, sz, start)
<1> DEFINE tensors == {i \in DOMAIN d : Named(d[i])}
<1>1. \A i \in tensors : \E j \in DOMAIN r : where[j] = i
  BY NamedIsListed
<1>2. \A j \in DOMAIN r : /\ Span(k, d[where[j]], start) = start + r[j].begin .. start + r[j].end - 1
                          /\ d[where[j]].name = r[j].name /\ First(k, d[where[j]]) = r[j].begin
  BY ListedSpan DEF Spans
<1>3. \A j \in DOMAIN r : where[j] \in tensors
  BY DEF Listing
<1>4. \A j \in DOMAIN r : r[j].begin \in Nat /\ r[j].end \in Nat
  BY ExtentTypes
<1> HIDE DEF tensors
<1>5. ASSUME NEW i \in tensors PROVE Span(k, d[i], start) \subseteq start .. sz - 1
  <2>1. PICK j \in DOMAIN r : where[j] = i
    BY <1>1
  <2>2. Span(k, d[i], start) = start + r[j].begin .. start + r[j].end - 1
    BY <1>2, <2>1
  <2>3. r[j].begin \in Nat /\ r[j].end \in Nat /\ r[j].end <= sz - start
    BY <1>4
  <2> QED BY <2>2, <2>3
<1>6. ASSUME NEW i \in tensors, NEW j \in tensors, i # j
      PROVE  d[i].name # d[j].name /\ Span(k, d[i], start) \cap Span(k, d[j], start) = {}
  <2>1. PICK x \in DOMAIN r : where[x] = i
    BY <1>1
  <2>2. PICK y \in DOMAIN r : where[y] = j
    BY <1>1
  <2>3. /\ r[x].name # r[y].name
        /\ r[x].end <= r[y].begin \/ r[y].end <= r[x].begin
    BY <1>6, <2>1, <2>2
  <2>4. d[i].name = r[x].name /\ d[j].name = r[y].name
    BY <1>2, <2>1, <2>2
  <2>5. /\ Span(k, d[i], start) = start + r[x].begin .. start + r[x].end - 1
        /\ Span(k, d[j], start) = start + r[y].begin .. start + r[y].end - 1
    BY <1>2, <2>1, <2>2
  <2>6. /\ r[x].begin \in Nat /\ r[x].end \in Nat
        /\ r[y].begin \in Nat /\ r[y].end \in Nat
    BY <1>4
  <2>7. (start + r[x].begin .. start + r[x].end - 1) \cap (start + r[y].begin .. start + r[y].end - 1) = {}
    BY <2>3, <2>6, ApartFrom
  <2>8. Span(k, d[i], start) \cap Span(k, d[j], start) = {}
    BY <2>5, <2>7
  <2> QED BY <2>3, <2>4, <2>8
<1>7. ASSUME k = "gguf", NEW i \in tensors PROVE (start + d[i].offset) % a = 0
  <2>1. PICK j \in DOMAIN r : where[j] = i
    BY <1>1
  <2>2. d[i].offset = r[j].begin
    BY <1>2, <1>7, <2>1 DEF First
  <2>3. (start + r[j].begin) % a = 0
    BY <1>7
  <2> QED BY <2>2, <2>3
<1>8. ASSUME k = "safetensors" PROVE UNION {Span(k, d[i], start) : i \in tensors} = start .. sz - 1
  <2>1. ASSUME NEW x \in start .. sz - 1
        PROVE  \E i \in tensors : x \in Span(k, d[i], start)
    <3>1. x - start \in 0 .. sz - start - 1 /\ x \in Nat
      OBVIOUS
    <3>2. PICK j \in DOMAIN r : r[j].begin <= x - start /\ x - start < r[j].end
      BY <1>8, <3>1
    <3>3. x \in start + r[j].begin .. start + r[j].end - 1
      <4>1. r[j].begin \in Nat /\ r[j].end \in Nat
        BY <1>4
      <4> QED BY <3>1, <3>2, <4>1
    <3>4. x \in Span(k, d[where[j]], start)
      BY <1>2, <3>3
    <3> QED BY <1>3, <3>4
  <2>2. \A i \in tensors : Span(k, d[i], start) \subseteq start .. sz - 1
    BY <1>5
  <2> HIDE DEF Span
  <2> QED BY <2>1, <2>2
<1>9. k # "onnx"
  OBVIOUS
<1> QED BY <1>5, <1>6, <1>7, <1>8, <1>9 DEF Sound, tensors

\* The data of a GGUF file begins at a multiple of the alignment, and so does
\* every tensor.
LEMMA Aligned ==
  ASSUME NEW a \in Nat, a # 0, NEW at \in Nat, NEW offset \in Nat, offset % a = 0
  PROVE  LET padding == (a - (at % a)) % a
         IN  /\ padding \in Nat /\ padding < a
             /\ (at + padding + offset) % a = 0
<1> DEFINE rest == at % a
           q == at \div a
           m == offset \div a
           padding == (a - rest) % a
<1>1. rest \in 0 .. a - 1 /\ q \in Nat /\ at = a * q + rest
  OBVIOUS
<1>2. m \in Nat /\ offset = a * m
  OBVIOUS
<1>3. /\ \A n \in Nat : (a * n) % a = 0
      /\ \A x, y \in Nat : a * (x + y) = a * x + a * y
      /\ a * 1 = a
  OBVIOUS
<1> HIDE DEF rest, q, m
<1>4. CASE rest = 0
  <2>1. padding = 0
    BY <1>4
  <2>2. a * (q + m) = a * q + a * m /\ q + m \in Nat
    BY <1>1, <1>2, <1>3
  <2> DEFINE u == a * q
             v == a * m
  <2>3. u \in Int /\ v \in Int
    BY <1>1, <1>2
  <2> HIDE DEF u, v
  <2>4. at + padding + offset = u + v
    <3>1. at = u /\ offset = v
      BY <1>1, <1>2, <1>4, <2>3 DEF u, v
    <3> HIDE DEF padding
    <3> QED BY <2>1, <2>3, <3>1
  <2>5. (at + padding + offset) % a = 0
    BY <1>3, <2>2, <2>4 DEF u, v
  <2> QED BY <2>1, <2>5 DEF rest
<1>5. CASE rest # 0
  <2>1. padding = a - rest /\ padding \in Nat /\ padding < a
    BY <1>1, <1>5
  <2>2. a * (q + 1 + m) = a * q + a + a * m /\ q + 1 + m \in Nat
    <3>1. q + 1 \in Nat /\ 1 \in Nat /\ q \in Nat /\ m \in Nat
      BY <1>1, <1>2
    <3>2. a * (q + 1 + m) = a * (q + 1) + a * m
      BY <1>3, <3>1
    <3>3. a * (q + 1) = a * q + a * 1
      BY <1>3, <3>1
    <3> QED BY <1>3, <3>1, <3>2, <3>3
  <2> DEFINE u == a * q
             v == a * m
  <2>3. u \in Int /\ v \in Int
    BY <1>1, <1>2
  <2> HIDE DEF u, v
  <2>4. at + padding + offset = u + a + v
    <3>1. at = u + rest /\ offset = v
      BY <1>1, <1>2 DEF u, v
    <3> HIDE DEF padding
    <3> QED BY <1>1, <2>1, <2>3, <3>1
  <2>5. (at + padding + offset) % a = 0
    BY <1>3, <2>2, <2>4 DEF u, v
  <2> QED BY <2>1, <2>5 DEF rest
<1> QED BY <1>4, <1>5

\* An entry without a name adds nothing to the list.
LEMMA ListingSkips ==
  ASSUME NEW k, NEW d \in Seq(DirEntry), NEW r, NEW where, Listing(k, d, r, where),
         NEW e \in DirEntry, ~Named(e)
  PROVE  Listing(k, Append(d, e), r, where)
<1> DEFINE g == Append(d, e)
<1>1. /\ Len(d) \in Nat /\ DOMAIN d = 1 .. Len(d) /\ DOMAIN g = 1 .. Len(d) + 1
      /\ \A i \in DOMAIN d : g[i] = d[i]
      /\ g[Len(d) + 1] = e
  BY LenProperties, AppendProperties
<1> HIDE DEF g
<1>2. \A i \in DOMAIN g : i \in DOMAIN d \/ i = Len(d) + 1
  BY <1>1
<1>3. DOMAIN d \subseteq DOMAIN g
  BY <1>1
<1>4. where \in [DOMAIN r -> DOMAIN g]
  BY <1>3 DEF Listing
<1>5. \A j \in DOMAIN r : where[j] \in DOMAIN d /\ g[where[j]] = d[where[j]]
  BY <1>1 DEF Listing
<1>6. ASSUME NEW i \in DOMAIN g, Named(g[i]) PROVE \E j \in DOMAIN r : where[j] = i
  <2>1. i \in DOMAIN d /\ g[i] = d[i]
    BY <1>1, <1>2, <1>6
  <2> QED BY <1>6, <2>1 DEF Listing
<1> QED BY <1>4, <1>5, <1>6 DEF Listing, g

\* An entry with a name is listed with its range.
LEMMA ListingGrows ==
  ASSUME NEW k, NEW d \in Seq(DirEntry), NEW r \in Seq(Extent), NEW where, Listing(k, d, r, where),
         NEW e \in DirEntry, NEW x \in Extent,
         Named(e), First(k, e) \in Nat, Bytes(k, e) \in Nat,
         x.name = e.name, x.begin = First(k, e), x.end = First(k, e) + Bytes(k, e)
  PROVE  \E w : Listing(k, Append(d, e), Append(r, x), w)
<1> DEFINE g == Append(d, e)
           s == Append(r, x)
           w == [j \in DOMAIN s |-> IF j \in DOMAIN r THEN where[j] ELSE Len(d) + 1]
<1>1. /\ Len(d) \in Nat /\ DOMAIN d = 1 .. Len(d) /\ DOMAIN g = 1 .. Len(d) + 1
      /\ \A i \in DOMAIN d : g[i] = d[i]
      /\ g[Len(d) + 1] = e
  BY LenProperties, AppendProperties
<1>2. /\ Len(r) \in Nat /\ DOMAIN r = 1 .. Len(r) /\ DOMAIN s = 1 .. Len(r) + 1
      /\ \A i \in DOMAIN r : s[i] = r[i]
      /\ s[Len(r) + 1] = x
  BY LenProperties, AppendProperties
<1> HIDE DEF g, s
<1>3. \A i \in DOMAIN g : i \in DOMAIN d \/ i = Len(d) + 1
  BY <1>1
<1>4. \A j \in DOMAIN s : j \in DOMAIN r \/ j = Len(r) + 1
  BY <1>2
<1>5. /\ DOMAIN d \subseteq DOMAIN g /\ Len(d) + 1 \in DOMAIN g /\ Len(d) + 1 \notin DOMAIN d
      /\ DOMAIN r \subseteq DOMAIN s /\ Len(r) + 1 \in DOMAIN s /\ Len(r) + 1 \notin DOMAIN r
  BY <1>1, <1>2
<1>6. \A j \in DOMAIN r : where[j] \in DOMAIN d /\ w[j] = where[j]
  BY <1>5 DEF Listing
<1>7. w[Len(r) + 1] = Len(d) + 1
  BY <1>5
<1>8. w \in [DOMAIN s -> DOMAIN g]
  <2>1. ASSUME NEW j \in DOMAIN s PROVE w[j] \in DOMAIN g
    BY <1>4, <1>5, <1>6, <1>7
  <2> QED BY <2>1
<1> HIDE DEF w
<1>9. \A i, j \in DOMAIN s : i # j => w[i] # w[j]
  <2>1. \A i, j \in DOMAIN r : i # j => where[i] # where[j]
    BY DEF Listing
  <2> QED BY <1>4, <1>5, <1>6, <1>7, <2>1
<1>10. ASSUME NEW j \in DOMAIN s
       PROVE  LET y == g[w[j]]
              IN  /\ Named(y) /\ First(k, y) \in Nat /\ Bytes(k, y) \in Nat
                  /\ s[j].name = y.name /\ s[j].begin = First(k, y)
                  /\ s[j].end = First(k, y) + Bytes(k, y)
  <2>1. CASE j \in DOMAIN r
    <3>1. g[w[j]] = d[where[j]] /\ s[j] = r[j]
      BY <1>1, <1>2, <1>6, <2>1
    <3> QED BY <2>1, <3>1 DEF Listing
  <2>2. CASE j = Len(r) + 1
    <3>1. g[w[j]] = e /\ s[j] = x
      BY <1>1, <1>2, <1>7, <2>2
    <3> QED BY <3>1
  <2> QED BY <1>4, <2>1, <2>2
<1>11. ASSUME NEW i \in DOMAIN g, Named(g[i]) PROVE \E j \in DOMAIN s : w[j] = i
  <2>1. CASE i \in DOMAIN d
    <3>1. PICK j \in DOMAIN r : where[j] = i
      BY <1>1, <1>11, <2>1 DEF Listing
    <3> QED BY <1>5, <1>6, <3>1
  <2>2. CASE i = Len(d) + 1
    BY <1>5, <1>7, <2>2
  <2> QED BY <1>3, <2>1, <2>2
<1>12. Listing(k, g, s, w)
  BY <1>8, <1>9, <1>10, <1>11 DEF Listing
<1> QED BY <1>12 DEF g, s

LEMMA FileInitInv == File!Init => FileInv
<1> SUFFICES ASSUME File!Init PROVE FileInv
  OBVIOUS
<1>1. /\ pc = "open" /\ kind = "none" /\ size \in Sizes /\ position = 0 /\ alignment = 32
      /\ dir = <<>> /\ ranges = <<>> /\ result = "none" /\ information = File!Nothing
  BY DEF File!Init
<1>2. size \in Nat
  BY <1>1, FileAssumption
<1>3. <<>> \in Seq(DirEntry) /\ <<>> \in Seq(Extent) /\ DOMAIN <<>> = {}
  OBVIOUS
<1>4. FileTypes
  BY <1>1, <1>2, <1>3 DEF FileTypes, Reading
<1>5. FilePhases
  BY <1>1 DEF FilePhases, Reading
<1>6. Listed
  <2>1. Listing(kind, dir, ranges, <<>>) /\ <<>> \in [DOMAIN ranges -> DOMAIN dir]
    BY <1>1, <1>3 DEF Listing
  <2> QED BY <2>1 DEF Listed
<1> QED BY <1>1, <1>4, <1>5, <1>6 DEF FileInv

LEMMA PublishedInit == File!Init => Published
  BY DEF File!Init, File!Nothing, Published

\* Every tensor of the directory has one range.
LEMMA TensorsCounted ==
  ASSUME FileInv, Published, result = "OK", kind # "onnx"
  PROVE  information.tensors = File!Cardinality(File!Entries("name"))
<1> DEFINE n == Len(ranges)
           tensors == File!Entries("name")
<1>1. ranges \in Seq(Extent) /\ n \in Nat /\ DOMAIN ranges = 1 .. n
  BY LenProperties DEF FileInv, FileTypes
<1>2. PICK where : Listing(kind, dir, ranges, where)
  BY DEF FileInv, Listed
<1>3. tensors = {i \in DOMAIN dir : Named(dir[i])}
  BY DEF File!Entries, Named
<1>4. where \in [1 .. n -> tensors]
  BY <1>1, <1>2, <1>3 DEF Listing
<1>5. \A i, j \in 1 .. n : where[i] = where[j] => i = j
  BY <1>1, <1>2 DEF Listing
<1>6. \A i \in tensors : \E j \in 1 .. n : where[j] = i
  BY <1>1, <1>2, <1>3 DEF Listing
<1> HIDE DEF tensors, n
<1>7. where \in Bijection(1 .. n, tensors)
  BY <1>4, <1>5, <1>6 DEF Bijection, Injection, Surjection, IsInjective
<1>8. ExistsBijection(1 .. n, tensors)
  BY <1>7 DEF ExistsBijection
<1>9. Cardinality(tensors) = n
  BY <1>1, <1>8, FS_CountingElements
<1>10. File!Cardinality(tensors) = Cardinality(tensors)
  BY Zenon DEF File!Cardinality, Cardinality
<1>11. Len(ranges) = information.tensors
  BY DEF Published
<1> QED BY <1>9, <1>10, <1>11 DEF tensors, n

LEMMA FileExact == FileInv /\ Published => File!AcceptedIsSound
<1> SUFFICES ASSUME FileInv, Published, pc = "done", result = "OK"
             PROVE  File!AcceptedIsSound
  BY DEF FileInv, File!AcceptedIsSound
<1>1. Sound(kind, dir, alignment, size, information.data_offset)
  BY DEF FileInv
<1>2. \A i : File!Payload(i) = Span(kind, dir[i], information.data_offset)
  BY DEF File!Payload, Span, First, Bytes
<1>3. File!Entries("name") = {i \in DOMAIN dir : Named(dir[i])}
  BY DEF File!Entries, Named
<1>4. File!Entries("number") = {i \in DOMAIN dir : "number" \in DOMAIN dir[i]}
  BY DEF File!Entries
<1>5. kind # "onnx" => information.tensors = File!Cardinality(File!Entries("name"))
  BY TensorsCounted
<1>6. kind = "onnx" => \E i, j \in File!Entries("number") :
                         /\ dir[i].number = 1 /\ dir[i].value = information.version
                         /\ dir[j].number = 7
  <2> SUFFICES ASSUME kind = "onnx"
               PROVE  \E i, j \in File!Entries("number") :
                         /\ dir[i].number = 1 /\ dir[i].value = information.version
                         /\ dir[j].number = 7
    OBVIOUS
  <2>1. PICK i \in File!Entries("number"), j \in File!Entries("number") :
               dir[i].number = 1 /\ dir[j].number = 7
    BY <1>1, <1>4 DEF Sound
  <2>2. i \in File!FieldsNamed(1)
    BY <1>4, <2>1 DEF File!FieldsNamed
  <2>3. dir[i].value = information.version
    BY <2>2 DEF Published
  <2> QED BY <2>1, <2>3
<1>7. \A i \in File!Entries("name") : File!Payload(i) \subseteq information.data_offset .. size - 1
  BY <1>1, <1>2, <1>3 DEF Sound
<1>8. \A i, j \in File!Entries("name") :
        i # j => dir[i].name # dir[j].name /\ File!Payload(i) \cap File!Payload(j) = {}
  BY <1>1, <1>2, <1>3 DEF Sound
<1>9. kind = "gguf" => \A i \in File!Entries("name") :
                         (information.data_offset + dir[i].offset) % alignment = 0
  BY <1>1, <1>3 DEF Sound
<1>10. kind = "safetensors" =>
         UNION {File!Payload(i) : i \in File!Entries("name")} = information.data_offset .. size - 1
  BY <1>1, <1>2, <1>3 DEF Sound
<1> QED BY <1>5, <1>6, <1>7, <1>8, <1>9, <1>10 DEF File!AcceptedIsSound

\* A refused file publishes nothing when it is done.
LEMMA FileRefuses ==
  ASSUME FileInv, result = "none", pc' \in {"close", "done"},
         result' \in {"INVALID", "UNSUPPORTED", "RESOURCE_LIMIT", "IO_ERROR"},
         dir' \in Seq(DirEntry), UNCHANGED <<size, ranges>>,
         pc' = "done" => information' = File!Nothing,
         position' \in 0 .. size, alignment' \in Nat,
         kind' \in {"none", "gguf", "safetensors", "onnx", "unknown"}
  PROVE  FileInv'
<1>1. FileTypes'
  BY DEF FileInv, FileTypes, FilePhases, Reading
<1>2. FilePhases'
  BY DEF FilePhases, Reading
<1>3. Sound(kind, dir, alignment, size, information.data_offset)' \/ result' # "OK"
  OBVIOUS
<1> QED BY <1>1, <1>2, <1>3 DEF FileInv, File!Nothing

\* What is accepted is sound.
LEMMA FileAccepts ==
  ASSUME FileInv, result = "none", pc' = "close", result' = "OK",
         UNCHANGED <<kind, size, position, alignment, dir, ranges>>,
         Sound(kind, dir, alignment, size, information'.data_offset)
  PROVE  FileInv'
<1>1. pc # "done"
  BY DEF FileInv, FilePhases, Reading
<1>2. FileTypes'
  BY <1>1 DEF FileInv, FileTypes
<1>3. FilePhases'
  BY DEF FilePhases, Reading
<1>4. Sound(kind, dir, alignment, size, information.data_offset)'
  OBVIOUS
<1>5. Listed'
  BY DEF FileInv, Listed
<1> QED BY <1>2, <1>3, <1>4, <1>5 DEF FileInv

\* The inspection goes on.
LEMMA FileReads == FileInv /\ pc \in Reading => result = "none" /\ Listed /\ pc # "done"
  BY DEF FileInv, FilePhases, Reading

LEMMA FileGoes ==
  ASSUME FileInv, result = "none", UNCHANGED result, pc' # "open",
         FileTypes', FilePhases', Listed'
  PROVE  FileInv'
<1>1. pc' # "done"
  BY DEF FilePhases, Reading
<1> QED BY <1>1 DEF FileInv

LEMMA NothingListed == dir = <<>> /\ ranges = <<>> => Listed
<1> SUFFICES ASSUME dir = <<>>, ranges = <<>> PROVE Listed
  OBVIOUS
<1>1. DOMAIN <<>> = {}
  OBVIOUS
<1>2. Listing(kind, dir, ranges, <<>>) /\ <<>> \in [DOMAIN ranges -> DOMAIN dir]
  BY <1>1 DEF Listing
<1> QED BY <1>2 DEF Listed

LEMMA ListedStays == Listed /\ UNCHANGED <<kind, dir, ranges>> => Listed'
  BY DEF Listed

LEMMA FileRecognize ==
  ASSUME FileInv, NEW k \in {"gguf", "safetensors", "onnx", "unknown"}, File!Recognize(k)
  PROVE  FileInv'
<1> USE DEF File!Recognize, File!Give
<1>1. pc = "open" /\ pc \in Reading
  BY DEF Reading
<1>2. result = "none" /\ dir = <<>> /\ ranges = <<>> /\ position \in 0 .. size
      /\ dir \in Seq(DirEntry) /\ alignment \in Nat
  BY <1>1, FileReads DEF FileInv, FilePhases, FileTypes
<1>3. CASE k = "unknown"
  BY <1>2, <1>3, FileRefuses
<1>4. CASE k # "unknown"
  <2>1. pc' = "header" /\ kind' \in {"gguf", "safetensors", "onnx"} /\ UNCHANGED result
        /\ UNCHANGED <<size, position, alignment, dir, ranges, information>>
    BY <1>4
  <2>2. FileTypes'
    BY <1>1, <2>1 DEF FileInv, FileTypes, Reading
  <2>3. FilePhases'
    BY <1>1, <1>2, <2>1 DEF FilePhases, Reading
  <2>4. Listed'
    <3>1. dir' = <<>> /\ ranges' = <<>>
      BY <1>2, <2>1
    <3>2. (dir = <<>> /\ ranges = <<>> => Listed)'
      BY NothingListed, PTL
    <3> QED BY <3>1, <3>2
  <2> QED BY <1>2, <2>1, <2>2, <2>3, <2>4, FileGoes
<1> QED BY <1>3, <1>4

\* A read that fails leaves everything else as it is.
LEMMA FileFaults ==
  ASSUME FileInv, pc \in Reading, pc' \in {"close", "done"},
         result' \in {"INVALID", "UNSUPPORTED", "RESOURCE_LIMIT", "IO_ERROR"},
         dir' \in Seq(DirEntry), UNCHANGED <<kind, size, position, ranges>>,
         pc' = "done" => information' = File!Nothing,
         alignment' \in Nat
  PROVE  FileInv'
<1>1. result = "none" /\ pc # "done"
  BY FileReads
<1>2. position \in 0 .. size /\ kind \in {"none", "gguf", "safetensors", "onnx", "unknown"}
  BY <1>1 DEF FileInv, FileTypes
<1> QED BY <1>1, <1>2, FileRefuses

LEMMA AppendEntry ==
  ASSUME FileInv, NEW e \in DirEntry
  PROVE  Append(dir, e) \in Seq(DirEntry) /\ dir \in Seq(DirEntry) /\ ranges \in Seq(Extent)
         /\ alignment \in Nat
<1>1. dir \in Seq(DirEntry) /\ ranges \in Seq(Extent) /\ alignment \in Nat
  BY DEF FileInv, FileTypes
<1> QED BY <1>1, AppendProperties

LEMMA FileGgufHeader ==
  ASSUME FileInv, NEW v, NEW m, NEW t, File!GgufHeader(v, m, t)
  PROVE  FileInv'
<1> USE DEF File!GgufHeader, File!Give, File!Available
<1>1. pc = "header" /\ pc \in Reading /\ kind = "gguf"
  BY DEF Reading
<1>2. /\ result = "none" /\ Listed /\ dir \in Seq(DirEntry) /\ alignment \in Nat
      /\ position \in 0 .. size /\ size \in Nat
  BY <1>1, FileReads DEF FileInv, FileTypes
<1>3. CASE 24 <= size - position
  <2>1. pc' = "metadata" /\ position' = position + 24 /\ UNCHANGED result
        /\ UNCHANGED <<kind, size, alignment, dir, ranges>>
    BY <1>3
  <2>2. position' \in 0 .. size
    BY <1>2, <1>3, <2>1
  <2>3. FileTypes'
    BY <1>1, <2>1, <2>2 DEF FileInv, FileTypes, Reading
  <2>4. FilePhases'
    BY <1>1, <2>1 DEF FileInv, FilePhases, Reading
  <2> QED BY <1>2, <2>1, <2>3, <2>4, ListedStays, FileGoes
<1>4. CASE ~(24 <= size - position)
  BY <1>1, <1>2, <1>4, FileFaults
<1> QED BY <1>3, <1>4

LEMMA FileReadMetadata ==
  ASSUME FileInv, NEW e \in Metadata, File!ReadMetadata(e)
  PROVE  FileInv'
<1>1. pc = "metadata" /\ pc \in Reading /\ dir' = Append(dir, e)
      /\ UNCHANGED <<kind, size, ranges, information>>
  BY DEF Reading, File!ReadMetadata
<1>2. e \in DirEntry /\ ~Named(e) /\ e.bytes \in Nat /\ e.value \in Nat
  BY EntryTypes DEF DirEntry
<1>3. dir' \in Seq(DirEntry) /\ dir \in Seq(DirEntry) /\ alignment \in Nat
  BY <1>1, <1>2, AppendEntry
<1>4. result = "none" /\ Listed /\ position \in 0 .. size /\ size \in Nat
  BY <1>1, FileReads DEF FileInv, FileTypes
<1>5. \/ /\ pc' = "close" /\ result' = "INVALID" /\ UNCHANGED <<position, alignment>>
      \/ /\ e.bytes <= size - position /\ position' = position + e.bytes
         /\ alignment' = IF e.key = "alignment" THEN e.value ELSE alignment
         /\ UNCHANGED <<pc, result>>
  BY DEF File!ReadMetadata, File!Give, File!Available
<1>6. CASE pc' = "close" /\ result' = "INVALID" /\ UNCHANGED <<position, alignment>>
  BY <1>1, <1>3, <1>6, FileFaults
<1>7. CASE /\ e.bytes <= size - position /\ position' = position + e.bytes
           /\ alignment' = IF e.key = "alignment" THEN e.value ELSE alignment
           /\ UNCHANGED <<pc, result>>
  <2>1. position' \in 0 .. size
    BY <1>2, <1>4, <1>7
  <2>2. alignment' \in Nat
    BY <1>2, <1>3, <1>7
  <2>3. FileTypes'
    BY <1>1, <1>3, <1>7, <2>1, <2>2 DEF FileInv, FileTypes
  <2>4. FilePhases'
    BY <1>1, <1>7 DEF FileInv, FilePhases, Reading
  <2>5. Listed'
    <3>1. PICK where : Listing(kind, dir, ranges, where)
      BY <1>4 DEF Listed
    <3>2. Listing(kind, Append(dir, e), ranges, where)
      BY <1>2, <1>3, <3>1, ListingSkips
    <3>3. Listing(kind', dir', ranges', where) /\ where \in [DOMAIN ranges' -> DOMAIN dir']
      BY <1>1, <3>2 DEF Listing
    <3> QED BY <3>3 DEF Listed
  <2> QED BY <1>1, <1>4, <1>7, <2>3, <2>4, <2>5, FileGoes
<1> QED BY <1>5, <1>6, <1>7

LEMMA FileEndMetadata == ASSUME FileInv, File!EndMetadata PROVE FileInv'
<1> USE DEF File!EndMetadata, File!Give
<1>1. pc = "metadata" /\ pc \in Reading /\ UNCHANGED <<kind, size, position, alignment, dir, ranges, information>>
  BY DEF Reading
<1>2. /\ result = "none" /\ Listed /\ dir \in Seq(DirEntry) /\ alignment \in Nat
      /\ kind = "gguf" /\ ranges = <<>>
  BY <1>1, FileReads DEF FileInv, FileTypes, FilePhases
<1>3. \/ pc' = "close" /\ result' = "INVALID"
      \/ pc' = "tensors" /\ UNCHANGED result /\ alignment >= 8
  OBVIOUS
<1>4. CASE pc' = "close" /\ result' = "INVALID"
  BY <1>1, <1>2, <1>4, FileFaults
<1>5. CASE pc' = "tensors" /\ UNCHANGED result /\ alignment >= 8
  <2>1. FileTypes'
    BY <1>1, <1>5 DEF FileInv, FileTypes, Reading
  <2>2. alignment # 0 /\ DOMAIN ranges = {}
    BY <1>2, <1>5
  <2>3. FilePhases'
    BY <1>1, <1>2, <1>5, <2>2 DEF FilePhases, Reading
  <2> QED BY <1>1, <1>2, <1>5, <2>1, <2>3, ListedStays, FileGoes
<1> QED BY <1>3, <1>4, <1>5

\* Neither the length nor the end of a tensor leaves the word, so the range is
\* the one that the entry declares.
LEMMA RangeFits ==
  ASSUME NEW t \in Tensors, t.type \in DOMAIN Blocks, File!Fits(t)
  PROVE  LET last == (t.offset + File!ByteCount(t)) % (MaxWord + 1)
         IN  last = t.offset + File!ByteCount(t) /\ last \in Nat /\ t.offset <= last
<1>1. t.offset \in Nat /\ File!ByteCount(t) \in Nat /\ MaxWord \in Nat
  BY EntryTypes, ByteCountType, FileAssumption
<1>2. t.offset + File!ByteCount(t) <= MaxWord
  BY <1>1 DEF File!Fits
<1>3. \A n \in Nat : n <= MaxWord => n % (MaxWord + 1) = n
  BY <1>1
<1> QED BY <1>1, <1>2, <1>3

LEMMA FileReadTensor ==
  ASSUME FileInv, NEW t \in Tensors, File!ReadTensor(t)
  PROVE  FileInv'
<1> DEFINE x == [name |-> t.name, begin |-> t.offset,
                 end |-> (t.offset + File!ByteCount(t)) % (MaxWord + 1)]
<1>1. /\ pc = "tensors" /\ dir' = Append(dir, t) /\ UNCHANGED <<kind, size, alignment, information>>
      /\ \/ /\ t.bytes <= size - position /\ t.offset % alignment = 0
            /\ t.type \in DOMAIN Blocks /\ File!Fits(t)
            /\ ranges' = Append(ranges, x)
            /\ position' = position + t.bytes /\ UNCHANGED <<pc, result>>
         \/ /\ pc' = "close" /\ result' \in {"INVALID", "UNSUPPORTED"}
            /\ UNCHANGED <<ranges, position>>
  BY DEF File!ReadTensor, File!Give, File!Available
<1> HIDE DEF x
<1>2. pc \in Reading /\ t \in DirEntry /\ Named(t) /\ t.name \in Nat /\ t.offset \in Nat /\ t.bytes \in Nat
  BY <1>1, EntryTypes DEF Reading, DirEntry
<1>3. dir' \in Seq(DirEntry) /\ dir \in Seq(DirEntry) /\ ranges \in Seq(Extent) /\ alignment \in Nat
  BY <1>1, <1>2, AppendEntry
<1>4. /\ result = "none" /\ Listed /\ position \in 0 .. size /\ size \in Nat
      /\ kind = "gguf" /\ alignment # 0
      /\ \A j \in DOMAIN ranges : ranges[j].begin % alignment = 0 /\ ranges[j].begin <= ranges[j].end
  BY <1>1, <1>2, FileReads DEF FileInv, FileTypes, FilePhases
<1>5. CASE pc' = "close" /\ result' \in {"INVALID", "UNSUPPORTED"} /\ UNCHANGED <<ranges, position>>
  BY <1>1, <1>2, <1>3, <1>5, FileFaults
<1>6. CASE /\ t.bytes <= size - position /\ t.offset % alignment = 0
           /\ t.type \in DOMAIN Blocks /\ File!Fits(t)
           /\ ranges' = Append(ranges, x)
           /\ position' = position + t.bytes /\ UNCHANGED <<pc, result>>
  <2>1. /\ x.end = t.offset + File!ByteCount(t) /\ x.end \in Nat /\ t.offset <= x.end
        /\ x.name = t.name /\ x.begin = t.offset
        /\ x \in Extent
    <3>1. x.end = (t.offset + File!ByteCount(t)) % (MaxWord + 1) /\ x.name = t.name /\ x.begin = t.offset
      BY DEF x
    <3>2. x.end = t.offset + File!ByteCount(t) /\ x.end \in Nat /\ t.offset <= x.end
      BY <1>6, <3>1, RangeFits
    <3>3. x \in Extent
      <4>1. (t.offset + File!ByteCount(t)) % (MaxWord + 1) \in Nat
        BY <3>1, <3>2
      <4> QED BY <1>2, <4>1 DEF x, Extent
    <3> QED BY <3>1, <3>2, <3>3
  <2>2. /\ ranges' \in Seq(Extent) /\ DOMAIN ranges' = 1 .. Len(ranges) + 1 /\ Len(ranges) \in Nat
        /\ DOMAIN ranges = 1 .. Len(ranges)
        /\ \A j \in DOMAIN ranges : ranges'[j] = ranges[j]
        /\ ranges'[Len(ranges) + 1] = x
    BY <1>3, <1>6, <2>1, AppendProperties, LenProperties
  <2>3. \A j \in DOMAIN ranges' : j \in DOMAIN ranges \/ j = Len(ranges) + 1
    BY <2>2
  <2>4. \A j \in DOMAIN ranges' : ranges'[j].begin % alignment = 0 /\ ranges'[j].begin <= ranges'[j].end
    BY <1>4, <1>6, <2>1, <2>2, <2>3
  <2>5. position' \in 0 .. size
    BY <1>2, <1>4, <1>6
  <2>6. FileTypes'
    BY <1>1, <1>3, <1>6, <2>2, <2>4, <2>5 DEF FileInv, FileTypes
  <2>7. FilePhases'
    BY <1>1, <1>4, <1>6, <2>4 DEF FileInv, FilePhases, Reading
  <2>8. Listed'
    <3>1. PICK where : Listing(kind, dir, ranges, where)
      BY <1>4 DEF Listed
    <3>2. /\ First(kind, t) = t.offset /\ Bytes(kind, t) = File!ByteCount(t)
          /\ First(kind, t) \in Nat /\ Bytes(kind, t) \in Nat
      BY <1>2, <1>4, <1>6, ByteCountType DEF First, Bytes
    <3>3. x.begin = First(kind, t) /\ x.end = First(kind, t) + Bytes(kind, t)
      BY <2>1, <3>2
    <3>4. PICK w : Listing(kind, Append(dir, t), Append(ranges, x), w)
      BY <1>2, <1>3, <2>1, <3>1, <3>2, <3>3, ListingGrows
    <3>5. Listing(kind', dir', ranges', w) /\ w \in [DOMAIN ranges' -> DOMAIN dir']
      BY <1>1, <1>6, <3>4 DEF Listing
    <3> QED BY <3>5 DEF Listed
  <2> QED BY <1>1, <1>4, <1>6, <2>6, <2>7, <2>8, FileGoes
<1> QED BY <1>1, <1>5, <1>6

LEMMA FileCheckGguf == ASSUME FileInv, Published, File!CheckGguf PROVE FileInv'
<1> DEFINE start == position + File!Padding
<1> DEFINE Passes(named, ordered) ==
             /\ start <= size
             /\ \A i \in 2 .. Len(ranges) : named[i - 1].name # named[i].name
             /\ \A i \in 1 .. Len(ranges) : /\ ordered[i].end <= size - start
                                            /\ i > 1 => ordered[i].begin >= ordered[i - 1].end
<1>0. /\ pc = "tensors" /\ UNCHANGED <<kind, size, position, counts, alignment, dir, ranges>>
      /\ \E named \in File!Arranged(ranges, File!ByName), ordered \in File!Arranged(ranges, File!ByBegin) :
           IF Passes(named, ordered)
           THEN File!Give("OK") /\ information' = [information EXCEPT !.data_offset = start]
           ELSE File!Give("INVALID") /\ UNCHANGED information
  BY DEF File!CheckGguf
<1>1. pc = "tensors" /\ UNCHANGED <<kind, size, position, counts, alignment, dir, ranges>>
  BY <1>0
<1>2. pc \in Reading
  BY <1>1 DEF Reading
<1>3. /\ result = "none" /\ Listed /\ position \in Nat /\ size \in Nat
      /\ kind = "gguf" /\ alignment \in Nat /\ alignment # 0
      /\ ranges \in Seq(Extent) /\ dir \in Seq(DirEntry)
      /\ \A j \in DOMAIN ranges : ranges[j].begin % alignment = 0
  BY <1>1, <1>2, FileReads DEF FileInv, FileTypes, FilePhases
<1>4. PICK named \in File!Arranged(ranges, File!ByName), ordered \in File!Arranged(ranges, File!ByBegin) :
           IF Passes(named, ordered)
           THEN File!Give("OK") /\ information' = [information EXCEPT !.data_offset = start]
           ELSE File!Give("INVALID") /\ UNCHANGED information
  BY <1>0
<1>5. CASE ~Passes(named, ordered)
  <2>1. pc' = "close" /\ result' = "INVALID" /\ UNCHANGED information
    <3> HIDE DEF Passes
    <3> QED BY <1>4, <1>5 DEF File!Give
  <2> QED BY <1>1, <1>2, <1>3, <2>1, FileFaults
<1>6. CASE Passes(named, ordered)
  <2>0. pc' = "close" /\ result' = "OK" /\ information'.data_offset = start
    <3>1. "data_offset" \in DOMAIN information
      BY DEF Published
    <3> HIDE DEF Passes, start
    <3> QED BY <1>4, <1>6, <3>1 DEF File!Give
  <2>1. /\ start \in Nat
        /\ \A j \in DOMAIN ranges : (start + ranges[j].begin) % alignment = 0
    <3>1. File!Padding \in Nat /\ 0 \in Nat /\ 0 % alignment = 0
      BY <1>3, Aligned DEF File!Padding
    <3>2. ASSUME NEW j \in DOMAIN ranges PROVE (start + ranges[j].begin) % alignment = 0
      <4>1. ranges[j].begin \in Nat /\ ranges[j].begin % alignment = 0
        BY <1>3, ExtentTypes
      <4> QED BY <1>3, <4>1, Aligned DEF File!Padding
    <3> QED BY <1>3, <3>1, <3>2
  <2> HIDE DEF start
  <2>2. DOMAIN ranges = 1 .. Len(ranges) /\ Len(ranges) \in Nat
    BY <1>3, LenProperties
  <2>3. ASSUME NEW i \in DOMAIN ranges PROVE ranges[i].end <= size - start
    <3>1. PICK p : Permutes(ranges, ordered, p)
      BY <1>4, BeginsInOrder
    <3>2. PICK j \in DOMAIN ranges : ordered[j] = ranges[i]
      BY <3>1 DEF Permutes
    <3> QED BY <1>6, <2>2, <3>2
  <2>4. \A i \in 2 .. Len(ranges) : ordered[i - 1].end <= ordered[i].begin
    <3>1. PICK p : Permutes(ranges, ordered, p)
      BY <1>4, BeginsInOrder
    <3>2. \A i \in DOMAIN ranges : ordered[i].begin \in Nat /\ ordered[i].end \in Nat
      BY <1>3, <3>1, PermutedTypes
    <3>3. \A i \in 2 .. Len(ranges) : i \in 1 .. Len(ranges) /\ i > 1 /\ i - 1 \in 1 .. Len(ranges)
      BY <2>2
    <3> QED BY <1>6, <2>2, <3>2, <3>3
  <2>5. \A i, j \in DOMAIN ranges : i # j =>
          /\ ranges[i].name # ranges[j].name
          /\ ranges[i].end <= ranges[j].begin \/ ranges[j].end <= ranges[i].begin
    <3> SUFFICES ASSUME NEW i \in DOMAIN ranges, NEW j \in DOMAIN ranges, i # j
                 PROVE  /\ ranges[i].name # ranges[j].name
                        /\ ranges[i].end <= ranges[j].begin \/ ranges[j].end <= ranges[i].begin
      OBVIOUS
    <3>1. ranges[i].name # ranges[j].name
      BY <1>3, <1>4, <1>6, NamesDiffer
    <3>2. ranges[i].end <= ranges[j].begin \/ ranges[j].end <= ranges[i].begin
      BY <1>3, <1>4, <2>4, RangesApart
    <3> QED BY <3>1, <3>2
  <2>6. PICK where : Listing(kind, dir, ranges, where)
    BY <1>3 DEF Listed
  <2>7. Sound(kind, dir, alignment, size, start)
    BY <1>3, <2>1, <2>3, <2>5, <2>6, SoundFrom
  <2> QED BY <1>1, <1>3, <2>0, <2>7, FileAccepts
<1> QED BY <1>4, <1>5, <1>6

LEMMA FileSafeHeader ==
  ASSUME FileInv, NEW length \in HeaderLengths, File!SafeHeader(length)
  PROVE  FileInv'
<1> USE DEF File!SafeHeader, File!Give, File!Available
<1>1. pc = "header" /\ pc \in Reading /\ kind = "safetensors" /\ alignment' = length
      /\ UNCHANGED <<kind, size, dir, ranges, information>>
  BY DEF Reading
<1>2. length \in Nat
  BY FileAssumption
<1>3. /\ result = "none" /\ Listed /\ dir \in Seq(DirEntry) /\ size \in Nat /\ position \in 0 .. size
      /\ dir = <<>> /\ ranges = <<>>
  BY <1>1, FileReads DEF FileInv, FileTypes, FilePhases
<1>4. \/ pc' = "close" /\ result' = "INVALID" /\ UNCHANGED position
      \/ pc' = "members" /\ UNCHANGED result /\ position' = 8 + length /\ length <= size - 8
  OBVIOUS
<1>5. CASE pc' = "close" /\ result' = "INVALID" /\ UNCHANGED position
  BY <1>1, <1>2, <1>3, <1>5, FileFaults
<1>6. CASE pc' = "members" /\ UNCHANGED result /\ position' = 8 + length /\ length <= size - 8
  <2>1. position' \in 0 .. size
    BY <1>2, <1>3, <1>6
  <2>2. FileTypes'
    BY <1>1, <1>2, <1>6, <2>1 DEF FileInv, FileTypes, Reading
  <2>3. FilePhases'
    BY <1>1, <1>3, <1>6 DEF FilePhases, Reading
  <2>4. Listed'
    BY <1>1, <1>3, ListedStays
  <2> QED BY <1>1, <1>3, <1>6, <2>2, <2>3, <2>4, FileGoes
<1> QED BY <1>4, <1>5, <1>6

LEMMA FileReadMember ==
  ASSUME FileInv, NEW m \in Members, File!ReadMember(m)
  PROVE  FileInv'
<1> DEFINE x == [name |-> m.name, begin |-> m.begin, end |-> m.end]
<1>1. /\ pc = "members" /\ dir' = Append(dir, m)
      /\ UNCHANGED <<kind, size, position, alignment, information>>
      /\ \/ m.begin <= m.end /\ ranges' = Append(ranges, x) /\ UNCHANGED <<pc, result>>
         \/ pc' = "close" /\ result' = "INVALID" /\ UNCHANGED ranges
  BY DEF File!ReadMember, File!Give, File!Describes
<1>2. pc \in Reading /\ m \in DirEntry /\ Named(m) /\ m.name \in Nat /\ m.begin \in Nat /\ m.end \in Nat
  BY <1>1, EntryTypes DEF Reading, DirEntry
<1>3. dir' \in Seq(DirEntry) /\ dir \in Seq(DirEntry) /\ ranges \in Seq(Extent) /\ alignment \in Nat
  BY <1>1, <1>2, AppendEntry
<1>4. /\ result = "none" /\ Listed /\ kind = "safetensors"
      /\ \A j \in DOMAIN ranges : ranges[j].begin <= ranges[j].end
  BY <1>1, <1>2, FileReads DEF FileInv, FileTypes, FilePhases
<1>5. CASE pc' = "close" /\ result' = "INVALID" /\ UNCHANGED ranges
  BY <1>1, <1>2, <1>3, <1>5, FileFaults
<1>6. CASE m.begin <= m.end /\ ranges' = Append(ranges, x) /\ UNCHANGED <<pc, result>>
  <2>1. x \in Extent /\ x.name = m.name /\ x.begin = m.begin /\ x.end = m.end
    BY <1>2 DEF Extent
  <2> HIDE DEF x
  <2>2. /\ ranges' \in Seq(Extent) /\ DOMAIN ranges' = 1 .. Len(ranges) + 1 /\ Len(ranges) \in Nat
        /\ DOMAIN ranges = 1 .. Len(ranges)
        /\ \A j \in DOMAIN ranges : ranges'[j] = ranges[j]
        /\ ranges'[Len(ranges) + 1] = x
    BY <1>3, <1>6, <2>1, AppendProperties, LenProperties
  <2>3. \A j \in DOMAIN ranges' : j \in DOMAIN ranges \/ j = Len(ranges) + 1
    BY <2>2
  <2>4. \A j \in DOMAIN ranges' : ranges'[j].begin <= ranges'[j].end
    BY <1>4, <1>6, <2>1, <2>2, <2>3
  <2>5. FileTypes'
    BY <1>1, <1>3, <1>6, <2>2, <2>4 DEF FileInv, FileTypes
  <2>6. FilePhases'
    BY <1>1, <1>4, <1>6 DEF FileInv, FilePhases, Reading
  <2>7. Listed'
    <3>1. PICK where : Listing(kind, dir, ranges, where)
      BY <1>4 DEF Listed
    <3>2. /\ First(kind, m) = m.begin /\ Bytes(kind, m) = m.end - m.begin
          /\ First(kind, m) \in Nat /\ Bytes(kind, m) \in Nat
      BY <1>2, <1>4, <1>6 DEF First, Bytes
    <3>3. x.begin = First(kind, m) /\ x.end = First(kind, m) + Bytes(kind, m)
      BY <1>2, <2>1, <3>2
    <3>4. PICK w : Listing(kind, Append(dir, m), Append(ranges, x), w)
      BY <1>2, <1>3, <2>1, <3>1, <3>2, <3>3, ListingGrows
    <3>5. Listing(kind', dir', ranges', w) /\ w \in [DOMAIN ranges' -> DOMAIN dir']
      BY <1>1, <1>6, <3>4 DEF Listing
    <3> QED BY <3>5 DEF Listed
  <2> QED BY <1>1, <1>4, <1>6, <2>5, <2>6, <2>7, FileGoes
<1> QED BY <1>1, <1>5, <1>6

LEMMA FileReadStrings == ASSUME FileInv, File!ReadStrings PROVE FileInv'
<1> DEFINE e == [key |-> "__metadata__"]
<1>1. /\ pc = "members" /\ dir' = Append(dir, e)
      /\ UNCHANGED <<kind, size, position, alignment, ranges, information>>
      /\ \/ pc' = "close" /\ result' = "INVALID"
         \/ UNCHANGED <<pc, result>>
  BY DEF File!ReadStrings, File!Give
<1>2. pc \in Reading /\ e \in DirEntry /\ ~Named(e)
  BY <1>1, EntryTypes DEF Reading, DirEntry
<1> HIDE DEF e
<1>3. dir' \in Seq(DirEntry) /\ dir \in Seq(DirEntry) /\ alignment \in Nat
  BY <1>1, <1>2, AppendEntry
<1>4. result = "none" /\ Listed /\ kind = "safetensors"
  BY <1>1, <1>2, FileReads DEF FileInv, FilePhases
<1>5. CASE pc' = "close" /\ result' = "INVALID"
  BY <1>1, <1>2, <1>3, <1>5, FileFaults
<1>6. CASE UNCHANGED <<pc, result>>
  <2>1. FileTypes'
    BY <1>1, <1>3, <1>6 DEF FileInv, FileTypes
  <2>2. FilePhases'
    BY <1>1, <1>4, <1>6 DEF FileInv, FilePhases, Reading
  <2>3. Listed'
    <3>1. PICK where : Listing(kind, dir, ranges, where)
      BY <1>4 DEF Listed
    <3>2. Listing(kind', dir', ranges', where)
      BY <1>1, <1>2, <1>3, <3>1, ListingSkips
    <3>3. where \in [DOMAIN ranges' -> DOMAIN dir']
      BY <3>2 DEF Listing
    <3> QED BY <3>2, <3>3 DEF Listed
  <2> QED BY <1>1, <1>4, <1>6, <2>1, <2>2, <2>3, FileGoes
<1> QED BY <1>1, <1>5, <1>6

\* The ranges follow each other from the first byte of the data to the last.
LEMMA FileCheckSafe == ASSUME FileInv, File!CheckSafe PROVE FileInv'
<1> DEFINE data == size - position
           Passes(named, ordered) ==
             /\ \A i \in 2 .. Len(ranges) : named[i - 1].name # named[i].name
             /\ \A i \in 1 .. Len(ranges) : /\ ordered[i].begin = IF i - 1 = 0 THEN 0 ELSE ordered[i - 1].end
                                            /\ ordered[i].end <= data
             /\ (IF Len(ranges) = 0 THEN 0 ELSE ordered[Len(ranges)].end) = data
<1>0. /\ pc = "members" /\ UNCHANGED <<kind, size, position, counts, alignment, dir, ranges>>
      /\ \E named \in File!Arranged(ranges, File!ByName), ordered \in File!Arranged(ranges, File!ByBeginEnd) :
           IF Passes(named, ordered)
           THEN File!Give("OK") /\ information' = [version |-> 1, tensors |-> Len(ranges), data_offset |-> position]
           ELSE File!Give("INVALID") /\ UNCHANGED information
  BY DEF File!CheckSafe
<1>1. pc = "members" /\ UNCHANGED <<kind, size, position, counts, alignment, dir, ranges>>
  BY <1>0
<1>2. pc \in Reading
  BY <1>1 DEF Reading
<1>3. /\ result = "none" /\ Listed /\ position \in Nat /\ size \in Nat /\ position <= size
      /\ kind = "safetensors" /\ alignment \in Nat
      /\ ranges \in Seq(Extent) /\ dir \in Seq(DirEntry)
  BY <1>1, <1>2, FileReads DEF FileInv, FileTypes, FilePhases
<1>4. PICK named \in File!Arranged(ranges, File!ByName), ordered \in File!Arranged(ranges, File!ByBeginEnd) :
           IF Passes(named, ordered)
           THEN File!Give("OK") /\ information' = [version |-> 1, tensors |-> Len(ranges), data_offset |-> position]
           ELSE File!Give("INVALID") /\ UNCHANGED information
  BY <1>0
<1>5. CASE ~Passes(named, ordered)
  <2>1. pc' = "close" /\ result' = "INVALID" /\ UNCHANGED information
    <3> HIDE DEF Passes
    <3> QED BY <1>4, <1>5 DEF File!Give
  <2> QED BY <1>1, <1>2, <1>3, <2>1, FileFaults
<1>6. CASE Passes(named, ordered)
  <2>0. pc' = "close" /\ result' = "OK" /\ information'.data_offset = position
    <3> HIDE DEF Passes
    <3> QED BY <1>4, <1>6 DEF File!Give
  <2>1. data \in Nat
    BY <1>3
  <2>2. /\ \A i \in 2 .. Len(ranges) : named[i - 1].name # named[i].name
        /\ \A i \in 1 .. Len(ranges) : /\ ordered[i].begin = IF i - 1 = 0 THEN 0 ELSE ordered[i - 1].end
                                       /\ ordered[i].end <= data
        /\ (IF Len(ranges) = 0 THEN 0 ELSE ordered[Len(ranges)].end) = data
    BY <1>6
  <2> HIDE DEF data, Passes
  <2>3. DOMAIN ranges = 1 .. Len(ranges) /\ Len(ranges) \in Nat
    BY <1>3, LenProperties
  <2>4. PICK p : Permutes(ranges, ordered, p)
    BY BeginsInOrder
  <2>5. \A i \in DOMAIN ranges : ordered[i].begin \in Nat /\ ordered[i].end \in Nat
    BY <1>3, <2>4, PermutedTypes
  <2>6. ASSUME NEW i \in DOMAIN ranges PROVE ranges[i].end <= data
    <3>1. PICK j \in DOMAIN ranges : ordered[j] = ranges[i]
      BY <2>4 DEF Permutes
    <3> QED BY <2>2, <2>3, <3>1
  <2>7. \A i \in DOMAIN ranges : ordered[i].begin = IF i = 1 THEN 0 ELSE ordered[i - 1].end
    <3>1. \A i \in DOMAIN ranges : i \in 1 .. Len(ranges) /\ (i - 1 = 0 <=> i = 1)
      BY <2>3
    <3> QED BY <2>2, <3>1
  <2>8. \A i \in 2 .. Len(ranges) : ordered[i - 1].end <= ordered[i].begin
    <3>1. \A i \in 2 .. Len(ranges) : i \in DOMAIN ranges /\ i # 1
      BY <2>3
    <3>2. \A i \in 2 .. Len(ranges) : ordered[i].begin = ordered[i - 1].end
      BY <2>7, <3>1
    <3>3. \A n \in Nat : n <= n
      OBVIOUS
    <3> QED BY <2>5, <3>1, <3>2, <3>3
  <2>9. \A i, j \in DOMAIN ranges : i # j =>
          /\ ranges[i].name # ranges[j].name
          /\ ranges[i].end <= ranges[j].begin \/ ranges[j].end <= ranges[i].begin
    <3> SUFFICES ASSUME NEW i \in DOMAIN ranges, NEW j \in DOMAIN ranges, i # j
                 PROVE  /\ ranges[i].name # ranges[j].name
                        /\ ranges[i].end <= ranges[j].begin \/ ranges[j].end <= ranges[i].begin
      OBVIOUS
    <3>1. ranges[i].name # ranges[j].name
      BY <1>3, <2>2, NamesDiffer
    <3>2. ranges[i].end <= ranges[j].begin \/ ranges[j].end <= ranges[i].begin
      BY <1>3, <2>8, RangesApart
    <3> QED BY <3>1, <3>2
  <2>10. \A b \in 0 .. data - 1 : \E i \in DOMAIN ranges : ranges[i].begin <= b /\ b < ranges[i].end
    <3> SUFFICES ASSUME NEW b \in 0 .. data - 1
                 PROVE  \E i \in DOMAIN ranges : ranges[i].begin <= b /\ b < ranges[i].end
      OBVIOUS
    <3>1. data = IF Len(ranges) = 0 THEN 0 ELSE ordered[Len(ranges)].end
      BY <2>2
    <3> QED BY <1>3, <2>1, <2>4, <2>7, <3>1, RangesCover
  <2>11. PICK where : Listing(kind, dir, ranges, where)
    BY <1>3 DEF Listed
  <2>12. Sound(kind, dir, alignment, size, position)
    <3>1. data = size - position
      BY DEF data
    <3>2. /\ \A i \in DOMAIN ranges : ranges[i].end <= size - position
          /\ \A b \in 0 .. size - position - 1 :
               \E i \in DOMAIN ranges : ranges[i].begin <= b /\ b < ranges[i].end
      BY <2>6, <2>10, <3>1
    <3>3. kind \in {"gguf", "safetensors"} /\ kind # "gguf"
      BY <1>3
    <3> QED BY <1>3, <2>9, <2>11, <3>2, <3>3, SoundFrom
  <2> QED BY <1>1, <1>3, <2>0, <2>12, FileAccepts
<1> QED BY <1>4, <1>5, <1>6

LEMMA FileOnnxHeader == ASSUME FileInv, File!OnnxHeader PROVE FileInv'
<1>1. /\ pc = "header" /\ pc \in Reading /\ kind = "onnx" /\ pc' = "fields"
      /\ UNCHANGED <<kind, size, position, alignment, dir, ranges, result, information>>
  BY DEF File!OnnxHeader, Reading
<1>2. result = "none" /\ Listed /\ dir = <<>> /\ ranges = <<>>
  BY <1>1, FileReads DEF FileInv, FilePhases
<1>3. FileTypes'
  BY <1>1 DEF FileInv, FileTypes, Reading
<1>4. <<>> \in Seq(Fields)
  OBVIOUS
<1>5. FilePhases'
  BY <1>1, <1>2, <1>4 DEF FilePhases, Reading
<1>6. Listed'
  BY <1>1, <1>2, ListedStays
<1> QED BY <1>1, <1>2, <1>3, <1>5, <1>6, FileGoes

LEMMA FileReadField ==
  ASSUME FileInv, NEW f \in Fields, File!ReadField(f)
  PROVE  FileInv'
<1>1. /\ pc = "fields" /\ dir' = Append(dir, f)
      /\ UNCHANGED <<kind, size, alignment, ranges>>
      /\ \/ pc' = "close" /\ result' = "INVALID" /\ UNCHANGED position
         \/ f.bytes <= size - position /\ position' = position + f.bytes /\ UNCHANGED <<pc, result>>
  <2> HIDE DEF File!FieldsNamed
  <2> QED BY DEF File!ReadField, File!FieldOk, File!Available, File!Give
<1>2. pc \in Reading /\ f \in DirEntry /\ ~Named(f) /\ f.bytes \in Nat
  BY <1>1, EntryTypes DEF Reading, DirEntry
<1>3. dir' \in Seq(DirEntry) /\ dir \in Seq(DirEntry) /\ alignment \in Nat
  BY <1>1, <1>2, AppendEntry
<1>4. /\ result = "none" /\ Listed /\ kind = "onnx" /\ ranges = <<>> /\ dir \in Seq(Fields)
      /\ position \in 0 .. size /\ size \in Nat
  BY <1>1, <1>2, FileReads DEF FileInv, FileTypes, FilePhases
<1>5. CASE pc' = "close" /\ result' = "INVALID" /\ UNCHANGED position
  BY <1>1, <1>2, <1>3, <1>5, FileFaults
<1>6. CASE f.bytes <= size - position /\ position' = position + f.bytes /\ UNCHANGED <<pc, result>>
  <2>1. position' \in 0 .. size
    BY <1>2, <1>4, <1>6
  <2>2. FileTypes'
    BY <1>1, <1>3, <1>6, <2>1 DEF FileInv, FileTypes
  <2>3. dir' \in Seq(Fields)
    BY <1>1, <1>4, AppendProperties
  <2>4. FilePhases'
    BY <1>1, <1>4, <1>6, <2>3 DEF FileInv, FilePhases, Reading
  <2>5. Listed'
    <3>1. PICK where : Listing(kind, dir, ranges, where)
      BY <1>4 DEF Listed
    <3>2. Listing(kind', dir', ranges', where)
      BY <1>1, <1>2, <1>3, <3>1, ListingSkips
    <3>3. where \in [DOMAIN ranges' -> DOMAIN dir']
      BY <3>2 DEF Listing
    <3> QED BY <3>2, <3>3 DEF Listed
  <2> QED BY <1>1, <1>4, <1>6, <2>2, <2>4, <2>5, FileGoes
<1> QED BY <1>1, <1>5, <1>6

\* An ONNX file has no tensors of its own: only its mandatory fields count.
LEMMA FileCheckOnnx == ASSUME FileInv, File!CheckOnnx PROVE FileInv'
<1>1. /\ pc = "fields" /\ UNCHANGED <<kind, size, position, counts, alignment, dir, ranges, information>>
      /\ \/ pc' = "close" /\ result' = "INVALID"
         \/ /\ File!FieldsNamed(1) # {} /\ File!FieldsNamed(7) # {}
            /\ pc' = "close" /\ result' = "OK"
  BY DEF File!CheckOnnx, File!Give
<1>2. pc \in Reading
  BY <1>1 DEF Reading
<1>3. /\ result = "none" /\ kind = "onnx" /\ dir \in Seq(Fields)
      /\ dir \in Seq(DirEntry) /\ alignment \in Nat
  BY <1>1, <1>2, FileReads DEF FileInv, FileTypes, FilePhases
<1>4. CASE pc' = "close" /\ result' = "INVALID"
  BY <1>1, <1>2, <1>3, <1>4, FileFaults
<1>5. CASE /\ File!FieldsNamed(1) # {} /\ File!FieldsNamed(7) # {}
           /\ pc' = "close" /\ result' = "OK"
  <2>1. \A i \in DOMAIN dir : dir[i] \in Fields
    BY <1>3, LenProperties, ElementOfSeq
  <2>2. \A i \in DOMAIN dir : ~Named(dir[i]) /\ "number" \in DOMAIN dir[i]
    BY <2>1, EntryTypes
  <2>3. \E i, j \in {i \in DOMAIN dir : "number" \in DOMAIN dir[i]} : dir[i].number = 1 /\ dir[j].number = 7
    BY <1>5, <2>2 DEF File!FieldsNamed
  <2>4. Sound(kind, dir, alignment, size, information'.data_offset)
    BY <1>3, <2>2, <2>3 DEF Sound
  <2> QED BY <1>1, <1>3, <1>5, <2>4, FileAccepts
<1> QED BY <1>1, <1>4, <1>5

\* A file that changed meanwhile is refused after all.
LEMMA FileClose ==
  ASSUME FileInv, NEW changed \in BOOLEAN, File!Close(changed)
  PROVE  FileInv'
<1>1. /\ pc = "close" /\ pc' = "done" /\ UNCHANGED <<kind, alignment, dir, ranges>>
      /\ result # "none"
  BY DEF File!Close, FileInv, FilePhases, Reading
<1>2. \/ result' = "IO_ERROR" /\ information' = File!Nothing
      \/ result' = result /\ size' = size /\ result = "OK" /\ information' = information
      \/ result' = result /\ result # "OK" /\ information' = File!Nothing
  BY DEF File!Close
<1>3. FileTypes'
  BY <1>1, <1>2 DEF FileInv, FileTypes
<1>4. FilePhases'
  BY <1>1, <1>2 DEF FilePhases, Reading
<1>5. result' # "none"
  BY <1>1, <1>2
<1>6. result' # "OK" => information' = File!Nothing
  BY <1>2
<1>8. result' = "OK" => Listed'
  <2> SUFFICES ASSUME result' = "OK" PROVE Listed'
    OBVIOUS
  <2>1. Listed
    BY <1>2 DEF FileInv
  <2> QED BY <1>1, <2>1, ListedStays
<1>7. result' = "OK" => Sound(kind', dir', alignment', size', information'.data_offset)
  BY <1>1, <1>2 DEF FileInv
<1> QED BY <1>1, <1>3, <1>4, <1>5, <1>6, <1>7, <1>8 DEF FileInv, File!Nothing

LEMMA FileOpenFails == ASSUME FileInv, File!OpenFails PROVE FileInv'
<1>1. /\ pc = "open" /\ pc \in Reading /\ pc' = "done" /\ result' = "IO_ERROR"
      /\ UNCHANGED <<kind, size, position, alignment, dir, ranges, information>>
  BY DEF File!OpenFails, Reading
<1>2. dir \in Seq(DirEntry) /\ alignment \in Nat /\ information' = File!Nothing
  BY <1>1 DEF FileInv, FileTypes
<1> QED BY <1>1, <1>2, FileFaults

LEMMA FileUnreadable ==
  ASSUME FileInv, NEW r \in {"INVALID", "RESOURCE_LIMIT"}, File!Unreadable(r)
  PROVE  FileInv'
<1>1. /\ pc \in Reading /\ pc' = "close" /\ result' = r
      /\ UNCHANGED <<kind, size, position, alignment, dir, ranges, information>>
  BY DEF File!Unreadable, File!Give, Reading
<1>2. dir \in Seq(DirEntry) /\ alignment \in Nat
  BY DEF FileInv, FileTypes
<1> QED BY <1>1, <1>2, FileFaults

LEMMA FileNext == FileInv /\ Published /\ [File!Next]_(File!vars) => FileInv'
<1> SUFFICES ASSUME FileInv, Published, [File!Next]_(File!vars) PROVE FileInv'
  OBVIOUS
<1>1. CASE UNCHANGED File!vars
  BY <1>1 DEF File!vars, FileInv, FileTypes, FilePhases, Listed
<1>2. CASE File!OpenFails
  BY <1>2, FileOpenFails
<1>3. CASE \E k \in {"gguf", "safetensors", "onnx", "unknown"} : File!Recognize(k)
  BY <1>3, FileRecognize
<1>4. CASE \E r \in {"INVALID", "RESOURCE_LIMIT"} : File!Unreadable(r)
  BY <1>4, FileUnreadable
<1>5. CASE \E version \in {2, 3}, m, t \in 0 .. MaxCount :
             m + t <= MaxCount /\ File!GgufHeader(version, m, t)
  BY <1>5, FileGgufHeader
<1>6. CASE \E entry \in Metadata : File!ReadMetadata(entry)
  BY <1>6, FileReadMetadata
<1>7. CASE File!EndMetadata
  BY <1>7, FileEndMetadata
<1>8. CASE \E t \in Tensors : File!ReadTensor(t)
  BY <1>8, FileReadTensor
<1>9. CASE File!CheckGguf
  BY <1>9, FileCheckGguf
<1>10. CASE \E length \in HeaderLengths : File!SafeHeader(length)
  BY <1>10, FileSafeHeader
<1>11. CASE \E m \in Members : File!ReadMember(m)
  BY <1>11, FileReadMember
<1>12. CASE File!ReadStrings
  BY <1>12, FileReadStrings
<1>13. CASE File!CheckSafe
  BY <1>13, FileCheckSafe
<1>14. CASE File!OnnxHeader
  BY <1>14, FileOnnxHeader
<1>15. CASE \E f \in Fields : File!ReadField(f)
  BY <1>15, FileReadField
<1>16. CASE File!CheckOnnx
  BY <1>16, FileCheckOnnx
<1>17. CASE \E changed \in BOOLEAN : File!Close(changed)
  BY <1>17, FileClose
<1>18. CASE File!Done
  BY <1>1, <1>18 DEF File!Done
<1> QED BY <1>1, <1>2, <1>3, <1>4, <1>5, <1>6, <1>7, <1>8, <1>9, <1>10, <1>11, <1>12, <1>13, <1>14,
           <1>15, <1>16, <1>17, <1>18 DEF File!Next

\* An inspection that ends badly, or begins, publishes nothing more.
LEMMA PublishedEnds ==
  ASSUME Published, UNCHANGED information, result' # "OK",
         pc' \notin {"metadata", "tensors", "fields"}
  PROVE  Published'
  BY DEF Published

LEMMA PublishedGguf ==
  ASSUME FileInv, Published,
         \/ \E version \in {2, 3}, m, t \in 0 .. MaxCount :
              m + t <= MaxCount /\ File!GgufHeader(version, m, t)
         \/ \E e \in Metadata : File!ReadMetadata(e)
         \/ File!EndMetadata
         \/ \E t \in Tensors : File!ReadTensor(t)
         \/ File!CheckGguf
  PROVE  Published'
<1>1. ASSUME NEW version \in {2, 3}, NEW m \in 0 .. MaxCount, NEW t \in 0 .. MaxCount,
             File!GgufHeader(version, m, t)
      PROVE  Published'
  <2>1. pc = "header" /\ kind = "gguf" /\ UNCHANGED <<kind, ranges>> /\ pc \in Reading
    BY <1>1 DEF File!GgufHeader, Reading
  <2>2. ranges = <<>> /\ result = "none"
    BY <2>1, FileReads DEF FileInv, FilePhases
  <2>3. \/ /\ pc' = "metadata" /\ UNCHANGED result /\ counts' = <<m, t>>
           /\ information' = [information EXCEPT !.version = version, !.tensors = t]
        \/ pc' = "close" /\ result' = "INVALID" /\ UNCHANGED information
    BY <1>1 DEF File!GgufHeader, File!Give
  <2>4. m \in Nat /\ t \in Nat
    BY FileAssumption
  <2>5. CASE /\ pc' = "metadata" /\ UNCHANGED result /\ counts' = <<m, t>>
             /\ information' = [information EXCEPT !.version = version, !.tensors = t]
    <3>1. /\ DOMAIN information' = {"version", "tensors", "data_offset"}
          /\ information'.tensors = t
      BY <2>5 DEF Published
    <3>2. counts' \in Nat \X Nat /\ counts'[2] = t /\ Len(ranges') = 0
      BY <2>1, <2>2, <2>4, <2>5
    <3>3. counts'[2] + Len(ranges') = information'.tensors
      BY <2>4, <3>1, <3>2
    <3> QED BY <2>2, <2>5, <3>1, <3>2, <3>3 DEF Published
  <2> QED BY <2>3, <2>5, PublishedEnds
<1>2. ASSUME NEW e \in Metadata, File!ReadMetadata(e) PROVE Published'
  <2>1. /\ pc = "metadata" /\ counts[1] > 0 /\ UNCHANGED <<kind, ranges, information>>
        /\ pc \in Reading
        /\ \/ counts' = [counts EXCEPT ![1] = @ - 1] /\ UNCHANGED <<pc, result>>
           \/ pc' = "close" /\ result' = "INVALID"
    BY <1>2 DEF File!ReadMetadata, File!Give, Reading
  <2>2. /\ counts \in Nat \X Nat /\ counts[2] + Len(ranges) = information.tensors
        /\ result = "none"
    BY <2>1, FileReads DEF Published
  <2>3. CASE counts' = [counts EXCEPT ![1] = @ - 1] /\ UNCHANGED <<pc, result>>
    <3>1. PICK a \in Nat, b \in Nat : counts = <<a, b>>
      BY <2>2
    <3>2. counts' = <<a - 1, b>> /\ a - 1 \in Nat
      BY <2>1, <2>3, <3>1
    <3>3. counts' \in Nat \X Nat /\ counts'[2] = counts[2]
      BY <3>1, <3>2
    <3> QED BY <2>1, <2>2, <2>3, <3>3 DEF Published
  <2> QED BY <2>1, <2>3, PublishedEnds
<1>3. ASSUME File!EndMetadata PROVE Published'
  <2>1. /\ pc = "metadata" /\ UNCHANGED <<kind, counts, ranges, information>> /\ pc \in Reading
        /\ \/ pc' = "tensors" /\ UNCHANGED result
           \/ pc' = "close" /\ result' = "INVALID"
    BY <1>3 DEF File!EndMetadata, File!Give, Reading
  <2>2. result = "none"
    BY <2>1, FileReads
  <2> QED BY <2>1, <2>2 DEF Published
<1>4. ASSUME NEW t \in Tensors, File!ReadTensor(t) PROVE Published'
  <2> DEFINE x == [name |-> t.name, begin |-> t.offset,
                   end |-> (t.offset + File!ByteCount(t)) % (MaxWord + 1)]
  <2>1. /\ pc = "tensors" /\ counts[2] > 0 /\ UNCHANGED <<kind, information>> /\ pc \in Reading
        /\ \/ /\ counts' = [counts EXCEPT ![2] = @ - 1] /\ ranges' = Append(ranges, x)
              /\ UNCHANGED <<pc, result>>
           \/ pc' = "close" /\ result' \in {"INVALID", "UNSUPPORTED"}
    BY <1>4 DEF File!ReadTensor, File!Give, Reading
  <2> HIDE DEF x
  <2>2. /\ counts \in Nat \X Nat /\ counts[2] + Len(ranges) = information.tensors
        /\ result = "none"
    BY <2>1, FileReads DEF Published
  <2>3. CASE /\ counts' = [counts EXCEPT ![2] = @ - 1] /\ ranges' = Append(ranges, x)
             /\ UNCHANGED <<pc, result>>
    <3>1. PICK a \in Nat, b \in Nat : counts = <<a, b>>
      BY <2>2
    <3>2. counts' = <<a, b - 1>> /\ b - 1 \in Nat
      BY <2>1, <2>3, <3>1
    <3>3. counts' \in Nat \X Nat /\ counts'[2] = counts[2] - 1 /\ counts[2] \in Nat
      BY <3>1, <3>2
    <3>4. Len(ranges') = Len(ranges) + 1 /\ Len(ranges) \in Nat
      <4>1. ranges \in Seq(Extent)
        BY DEF FileInv, FileTypes
      <4> QED BY <2>3, <4>1, LenProperties
    <3>5. counts'[2] + Len(ranges') = information'.tensors
      BY <2>1, <2>2, <3>3, <3>4
    <3>6. pc' = "tensors" /\ result' = "none"
      BY <2>1, <2>2, <2>3
    <3> QED BY <2>1, <3>3, <3>5, <3>6 DEF Published
  <2> QED BY <2>1, <2>3, PublishedEnds
<1>5. ASSUME File!CheckGguf PROVE Published'
  <2>1. /\ pc = "tensors" /\ counts[2] = 0 /\ UNCHANGED <<kind, ranges>> /\ pc \in Reading
        /\ pc' = "close"
        /\ \/ result' = "OK" /\ \E start : information' = [information EXCEPT !.data_offset = start]
           \/ result' = "INVALID" /\ UNCHANGED information
    BY <1>5 DEF File!CheckGguf, File!Give, Reading
  <2>2. counts[2] + Len(ranges) = information.tensors /\ kind = "gguf"
    BY <2>1 DEF Published, FileInv, FilePhases
  <2>3. Len(ranges) = information.tensors
    <3>1. Len(ranges) \in Nat
      BY LenProperties DEF FileInv, FileTypes
    <3> QED BY <2>1, <2>2, <3>1
  <2>4. CASE result' = "OK" /\ \E start : information' = [information EXCEPT !.data_offset = start]
    <3>1. /\ DOMAIN information' = {"version", "tensors", "data_offset"}
          /\ information'.tensors = information.tensors
      BY <2>4 DEF Published
    <3> QED BY <2>1, <2>2, <2>3, <2>4, <3>1 DEF Published
  <2> QED BY <2>1, <2>4, PublishedEnds
<1> QED BY <1>1, <1>2, <1>3, <1>4, <1>5

LEMMA PublishedOthers ==
  ASSUME FileInv, Published,
         \/ \E m \in Members : File!ReadMember(m)
         \/ File!CheckSafe
         \/ File!OnnxHeader
         \/ \E f \in Fields : File!ReadField(f)
         \/ File!CheckOnnx
         \/ \E changed \in BOOLEAN : File!Close(changed)
  PROVE  Published'
<1>1. ASSUME NEW m \in Members, File!ReadMember(m) PROVE Published'
  <2>1. /\ pc = "members" /\ pc' \in {"members", "close"} /\ UNCHANGED information
        /\ result' \in {result, "INVALID"} /\ pc \in Reading
    BY <1>1 DEF File!ReadMember, File!Give, Reading
  <2>2. result = "none"
    BY <2>1, FileReads
  <2> QED BY <2>1, <2>2, PublishedEnds
<1>2. ASSUME File!CheckSafe PROVE Published'
  <2>1. /\ pc = "members" /\ pc' = "close" /\ UNCHANGED <<kind, ranges>>
        /\ \/ /\ result' = "OK"
              /\ information' = [version |-> 1, tensors |-> Len(ranges), data_offset |-> position]
           \/ result' = "INVALID" /\ UNCHANGED information
    BY <1>2 DEF File!CheckSafe, File!Give
  <2>2. kind = "safetensors"
    BY <2>1 DEF FileInv, FilePhases
  <2>3. CASE /\ result' = "OK"
             /\ information' = [version |-> 1, tensors |-> Len(ranges), data_offset |-> position]
    BY <2>1, <2>2, <2>3 DEF Published
  <2> QED BY <2>1, <2>3, PublishedEnds
<1>3. ASSUME File!OnnxHeader PROVE Published'
  <2>1. /\ pc = "header" /\ pc' = "fields" /\ UNCHANGED <<kind, dir, result, information>>
        /\ pc \in Reading
    BY <1>3 DEF File!OnnxHeader, Reading
  <2>2. result = "none" /\ dir' = <<>>
    BY <2>1, FileReads DEF FileInv, FilePhases
  <2>3. File!FieldsNamed(1)' = {}
    BY <2>2 DEF File!FieldsNamed
  <2> QED BY <2>1, <2>2, <2>3 DEF Published
<1>4. ASSUME NEW f \in Fields, File!ReadField(f) PROVE Published'
  <2>1. /\ pc = "fields" /\ dir' = Append(dir, f) /\ UNCHANGED kind /\ pc \in Reading
        /\ \/ /\ f.number = 1 => File!FieldsNamed(1) = {}
              /\ information' = IF f.number = 1 THEN [information EXCEPT !.version = f.value]
                                ELSE information
              /\ UNCHANGED <<pc, result>>
           \/ pc' = "close" /\ result' = "INVALID" /\ UNCHANGED information
    <3> HIDE DEF File!FieldsNamed
    <3> QED BY <1>4 DEF File!ReadField, File!FieldOk, File!Give, Reading
  <2>2. /\ result = "none" /\ dir \in Seq(Fields)
        /\ \A i \in File!FieldsNamed(1) : dir[i].value = information.version
    BY <2>1, FileReads DEF Published, FileInv, FilePhases
  <2>3. /\ DOMAIN dir' = 1 .. Len(dir) + 1 /\ DOMAIN dir = 1 .. Len(dir) /\ Len(dir) \in Nat
        /\ \A i \in 1 .. Len(dir) : dir'[i] = dir[i]
        /\ dir'[Len(dir) + 1] = f
    BY <2>1, <2>2, AppendProperties, LenProperties
  <2>4. \A i \in DOMAIN dir' : i \in DOMAIN dir \/ i = Len(dir) + 1
    BY <2>3
  <2>5. CASE /\ f.number = 1 => File!FieldsNamed(1) = {}
             /\ information' = IF f.number = 1 THEN [information EXCEPT !.version = f.value]
                               ELSE information
             /\ UNCHANGED <<pc, result>>
    <3>1. /\ DOMAIN information' = {"version", "tensors", "data_offset"}
          /\ information'.version = IF f.number = 1 THEN f.value ELSE information.version
      BY <2>5 DEF Published
    <3>2. ASSUME NEW i \in File!FieldsNamed(1)' PROVE dir'[i].value = information'.version
      <4>1. i \in DOMAIN dir' /\ dir'[i].number = 1
        BY DEF File!FieldsNamed
      <4>2. CASE i \in DOMAIN dir
        <5>1. dir'[i] = dir[i] /\ i \in File!FieldsNamed(1)
          BY <2>3, <4>1, <4>2 DEF File!FieldsNamed
        <5>2. f.number # 1
          BY <2>5, <5>1
        <5> QED BY <2>2, <3>1, <5>1, <5>2
      <4>3. CASE i = Len(dir) + 1
        BY <2>3, <3>1, <4>1, <4>3
      <4> QED BY <2>4, <4>1, <4>2, <4>3
    <3>3. pc' = "fields" /\ result' = "none"
      BY <2>1, <2>2, <2>5
    <3> QED BY <3>1, <3>2, <3>3 DEF Published
  <2> QED BY <2>1, <2>5, PublishedEnds
<1>5. ASSUME File!CheckOnnx PROVE Published'
  <2>1. /\ pc = "fields" /\ pc' = "close" /\ UNCHANGED <<kind, dir, information>>
        /\ result' \in {"OK", "INVALID"}
    BY <1>5 DEF File!CheckOnnx, File!Give
  <2>2. kind = "onnx" /\ (\A i \in File!FieldsNamed(1) : dir[i].value = information.version)
    BY <2>1 DEF FileInv, FilePhases, Published
  <2>3. File!FieldsNamed(1)' = File!FieldsNamed(1)
    BY <2>1 DEF File!FieldsNamed
  <2> QED BY <2>1, <2>2, <2>3 DEF Published
<1>6. ASSUME NEW changed \in BOOLEAN, File!Close(changed) PROVE Published'
  <2>1. /\ pc = "close" /\ pc' = "done" /\ UNCHANGED <<kind, dir, ranges>>
        /\ \/ result = "OK" /\ UNCHANGED <<result, information>>
           \/ result' # "OK" /\ information' = File!Nothing
    BY <1>6 DEF File!Close
  <2>2. CASE result = "OK" /\ UNCHANGED <<result, information>>
    <3>1. File!FieldsNamed(1)' = File!FieldsNamed(1)
      BY <2>1 DEF File!FieldsNamed
    <3> QED BY <2>1, <2>2, <3>1 DEF Published
  <2>3. CASE result' # "OK" /\ information' = File!Nothing
    BY <2>1, <2>3 DEF Published, File!Nothing
  <2> QED BY <2>1, <2>2, <2>3
<1> QED BY <1>1, <1>2, <1>3, <1>4, <1>5, <1>6

LEMMA PublishedNext == FileInv /\ Published /\ [File!Next]_(File!vars) => Published'
<1> SUFFICES ASSUME FileInv, Published, [File!Next]_(File!vars) PROVE Published'
  OBVIOUS
<1>1. CASE UNCHANGED File!vars
  BY <1>1 DEF File!vars, Published, File!FieldsNamed
<1>2. ASSUME \/ File!OpenFails
             \/ \E k \in {"gguf", "safetensors", "onnx", "unknown"} : File!Recognize(k)
             \/ \E r \in {"INVALID", "RESOURCE_LIMIT"} : File!Unreadable(r)
             \/ \E length \in HeaderLengths : File!SafeHeader(length)
             \/ File!ReadStrings
      PROVE  Published'
  <2>1. /\ pc \in Reading /\ pc' \in {"header", "members", "close", "done"} /\ UNCHANGED information
        /\ result' \in {result, "INVALID", "RESOURCE_LIMIT", "UNSUPPORTED", "IO_ERROR"}
    BY <1>2 DEF File!OpenFails, File!Recognize, File!Unreadable, File!SafeHeader, File!ReadStrings,
                File!Give, Reading
  <2>2. result = "none"
    BY <2>1, FileReads
  <2> QED BY <2>1, <2>2, PublishedEnds
<1>3. CASE File!Done
  BY <1>1, <1>3 DEF File!Done
<1> QED BY <1>1, <1>2, <1>3, PublishedGguf, PublishedOthers DEF File!Next

(* Of any model file, of any length and with any directory: once it is     *)
(* accepted, whoever reads its tensors by the published offset and the     *)
(* directory stays inside the file as it was when it was closed, finds the *)
(* published number of tensors of which no two share a byte or a name,     *)
(* GGUF tensors are aligned, SafeTensors leave no byte out and an ONNX     *)
(* model has the published version and a graph; a refused file publishes   *)
(* nothing (nya_gguf_inspect, whose end of a range is a sum of machine     *)
(* words, nya_safetensors_inspect, nya_onnx_inspect, nya_format_inspect).  *)
THEOREM FilesAreSound == InputsSpec => []AcceptedIsSound
<1> DEFINE Inv == driven = "file" => FileInv /\ Published
<1>1. InputsInit => Inv
  BY FileInitInv, PublishedInit DEF InputsInit
<1>2. Inv /\ [InputsNext]_all => Inv'
  <2> SUFFICES ASSUME Inv, [InputsNext]_all, (driven = "file")' PROVE FileInv' /\ Published'
    OBVIOUS
  <2>1. driven = "file" /\ [File!Next]_(File!vars)
    BY DEF InputsNext, all, model, both, File!vars
  <2> QED BY <2>1, FileNext, PublishedNext
<1>3. Inv => AcceptedIsSound
  BY FileExact DEF AcceptedIsSound
<1> QED BY <1>1, <1>2, <1>3, PTL DEF InputsSpec

-----------------------------------------------------------------------------
(* JSON: the grammar.                                                      *)

Marks == {"{", "}", "[", "]", ",", ":", "end of text"}
Opening == {"{", "["}
Closer(s) == IF s = "{" THEN "}" ELSE "]"
ValueTokens == Literals \union DOMAIN Decoded

\* Token i of t.
Sym(t, i) == IF i <= Len(t) THEN t[i] ELSE "end of text"

\* What Derives says of t, if h says it of the parts.
SpansOf(t) == {"value", "values", "members"} \X (1 .. Len(t) + 1) \X (1 .. Len(t) + 1)
Grammar(t, h, d) ==
  LET i == d[2]
      j == d[3]
      value(k)  == h[<<"value", i, k>>]
      member(k) == t[i] \in DOMAIN Decoded /\ Sym(t, i + 1) = ":" /\ h[<<"value", i + 2, k>>]
  IN  CASE d[1] = "value" ->
             \/ j = i + 1 /\ t[i] \in ValueTokens
             \/ /\ j >= i + 2 /\ t[i] = "[" /\ t[j - 1] = "]"
                /\ j = i + 2 \/ h[<<"values", i + 1, j - 1>>]
             \/ /\ j >= i + 2 /\ t[i] = "{" /\ t[j - 1] = "}"
                /\ j = i + 2 \/ h[<<"members", i + 1, j - 1>>]
        [] d[1] = "values" ->
             \/ i < j /\ value(j)
             \/ \E k \in i + 1 .. j - 2 : value(k) /\ t[k] = "," /\ h[<<"values", k + 1, j>>]
        [] d[1] = "members" ->
             \/ i + 2 < j /\ member(j)
             \/ \E k \in i + 3 .. j - 2 : member(k) /\ t[k] = "," /\ h[<<"members", k + 1, j>>]

Solution(t, h) == h = [d \in SpansOf(t) |-> Grammar(t, h, d)]
Phrases(t) == CHOOSE h : Solution(t, h)

\* The parts of a phrase are shorter, or its first value.
Rank(d) == 2 * (d[3] - d[2]) + (IF d[1] = "value" THEN 0 ELSE 1)

LEMMA GrammarLocal ==
  ASSUME NEW t, Len(t) \in Nat, NEW h, NEW g, NEW d \in SpansOf(t),
         \A x \in SpansOf(t) : Rank(x) < Rank(d) => h[x] = g[x]
  PROVE  Grammar(t, h, d) = Grammar(t, g, d)
<1> DEFINE N == 1 .. Len(t) + 1
           i == d[2]
           j == d[3]
<1>1. d[1] \in {"value", "values", "members"} /\ i \in N /\ j \in N /\ N \subseteq Nat
  BY DEF SpansOf
<1>2. ASSUME NEW a \in N, NEW b \in N, 2 * (b - a) < Rank(d) PROVE h[<<"value", a, b>>] = g[<<"value", a, b>>]
  <2>1. <<"value", a, b>> \in SpansOf(t) /\ Rank(<<"value", a, b>>) = 2 * (b - a)
    BY <1>1 DEF SpansOf, Rank
  <2> QED BY <1>2, <2>1
<1>0. ASSUME NEW r \in {"values", "members"}, NEW a \in N, NEW b \in N, 2 * (b - a) + 1 < Rank(d)
      PROVE  h[<<r, a, b>>] = g[<<r, a, b>>]
  <2>1. <<r, a, b>> \in SpansOf(t) /\ Rank(<<r, a, b>>) = 2 * (b - a) + 1
    BY <1>1 DEF SpansOf, Rank
  <2> QED BY <1>0, <2>1
<1>3. CASE d[1] = "value"
  <2>1. Rank(d) = 2 * (j - i)
    BY <1>1, <1>3 DEF Rank
  <2>2. ASSUME j >= i + 2, NEW r \in {"values", "members"}
        PROVE  h[<<r, i + 1, j - 1>>] = g[<<r, i + 1, j - 1>>]
    <3>2. i \in 1 .. Len(t) + 1 /\ j \in 1 .. Len(t) + 1
      BY <1>1
    <3>3. 2 * ((j - 1) - (i + 1)) + 1 < 2 * (j - i)
      BY <3>2
    <3>4. i + 1 \in N /\ j - 1 \in N
      BY <2>2, <3>2
    <3>1. i + 1 \in N /\ j - 1 \in N /\ 2 * ((j - 1) - (i + 1)) + 1 < 2 * (j - i)
      BY <3>3, <3>4
    <3> QED BY <1>0, <2>1, <3>1
  <2> HIDE DEF N, i, j
  <2> QED BY <1>3, <2>2 DEF Grammar, i, j
<1>4. CASE d[1] = "values"
  <2>1. Rank(d) = 2 * (j - i) + 1
    BY <1>1, <1>4 DEF Rank
  <2>2. i < j => h[<<"value", i, j>>] = g[<<"value", i, j>>]
    <3>1. 2 * (j - i) < 2 * (j - i) + 1
      BY <1>1
    <3> QED BY <1>1, <1>2, <2>1, <3>1
  <2>3. ASSUME NEW k \in i + 1 .. j - 2
        PROVE  /\ h[<<"value", i, k>>] = g[<<"value", i, k>>]
               /\ h[<<"values", k + 1, j>>] = g[<<"values", k + 1, j>>]
    <3>1. k \in N /\ k + 1 \in N /\ i \in N /\ j \in N
      BY <1>1, <2>3
    <3>2. 2 * (k - i) < 2 * (j - i) + 1 /\ 2 * (j - (k + 1)) + 1 < 2 * (j - i) + 1
      BY <1>1, <2>3
    <3> HIDE DEF N, i, j
    <3>3. h[<<"value", i, k>>] = g[<<"value", i, k>>]
      BY <1>2, <2>1, <3>1, <3>2
    <3>4. h[<<"values", k + 1, j>>] = g[<<"values", k + 1, j>>]
      BY <1>0, <2>1, <3>1, <3>2
    <3> QED BY <3>3, <3>4
  <2> HIDE DEF N, i, j
  <2> QED BY <1>4, <2>2, <2>3 DEF Grammar, i, j
<1>5. CASE d[1] = "members"
  <2>1. Rank(d) = 2 * (j - i) + 1
    BY <1>1, <1>5 DEF Rank
  <2>2. i + 2 < j => h[<<"value", i + 2, j>>] = g[<<"value", i + 2, j>>]
    <3>1. i + 2 < j => i + 2 \in N /\ 2 * (j - (i + 2)) < 2 * (j - i) + 1
      BY <1>1
    <3> QED BY <1>1, <1>2, <2>1, <3>1
  <2>3. ASSUME NEW k \in i + 3 .. j - 2
        PROVE  /\ h[<<"value", i + 2, k>>] = g[<<"value", i + 2, k>>]
               /\ h[<<"members", k + 1, j>>] = g[<<"members", k + 1, j>>]
    <3>1. k \in N /\ k + 1 \in N /\ i + 2 \in N /\ j \in N
      BY <1>1, <2>3
    <3>2. 2 * (k - (i + 2)) < 2 * (j - i) + 1 /\ 2 * (j - (k + 1)) + 1 < 2 * (j - i) + 1
      BY <1>1, <2>3
    <3> HIDE DEF N, i, j
    <3>3. h[<<"value", i + 2, k>>] = g[<<"value", i + 2, k>>]
      BY <1>2, <2>1, <3>1, <3>2
    <3>4. h[<<"members", k + 1, j>>] = g[<<"members", k + 1, j>>]
      BY <1>0, <2>1, <3>1, <3>2
    <3> QED BY <3>3, <3>4
  <2> HIDE DEF N, i, j
  <2> QED BY <1>5, <2>2, <2>3 DEF Grammar, i, j
<1> QED BY <1>1, <1>3, <1>4, <1>5

LEMMA RankType ==
  ASSUME NEW t, Len(t) \in Nat, NEW d \in SpansOf(t)
  PROVE  Rank(d) \in Int /\ -(2 * Len(t)) <= Rank(d) /\ Rank(d) < 2 * Len(t) + 2
<1>1. d[2] \in 1 .. Len(t) + 1 /\ d[3] \in 1 .. Len(t) + 1
  BY DEF SpansOf
<1> QED BY <1>1 DEF Rank

LEMMA SolutionExists ==
  ASSUME NEW t, Len(t) \in Nat
  PROVE  \E h : Solution(t, h)
<1> DEFINE n == Len(t)
           Upto(m, h) == h = [d \in SpansOf(t) |-> IF Rank(d) < m - 2 * n THEN Grammar(t, h, d) ELSE FALSE]
           Bad == {m \in Nat : ~ \E h : Upto(m, h)}
<1>1. n \in Nat /\ \A d \in SpansOf(t) : Rank(d) \in Int /\ -(2 * n) <= Rank(d) /\ Rank(d) < 2 * n + 2
  BY RankType
<1> HIDE DEF n
<1>2. ASSUME Bad # {} PROVE FALSE
  <2>1. PICK m \in Bad : \A k \in Bad : m <= k
    <3>1. Bad \subseteq Nat
      OBVIOUS
    <3> HIDE DEF Bad
    <3> QED BY <1>2, <3>1, LeastElement
  <2>2. m \in Nat /\ ~ \E h : Upto(m, h)
    OBVIOUS
  <2>3. CASE m = 0
    <3> DEFINE h == [d \in SpansOf(t) |-> FALSE]
    <3>1. \A d \in SpansOf(t) : ~(Rank(d) < m - 2 * n)
      BY <1>1, <2>3
    <3>2. h = [d \in SpansOf(t) |-> IF Rank(d) < m - 2 * n THEN Grammar(t, h, d) ELSE FALSE]
      BY <3>1
    <3> HIDE DEF h
    <3> QED BY <2>2, <3>2
  <2>4. CASE m # 0
    <3>1. m - 1 \in Nat /\ ~(m <= m - 1)
      BY <2>2, <2>4
    <3>2. m - 1 \notin Bad
      BY <2>1, <3>1
    <3>3. PICK h : Upto(m - 1, h)
      BY <3>1, <3>2
    <3> DEFINE g == [d \in SpansOf(t) |-> IF Rank(d) < m - 2 * n THEN Grammar(t, h, d) ELSE FALSE]
    <3>4. \A d \in SpansOf(t) : Rank(d) < (m - 1) - 2 * n => h[d] = Grammar(t, h, d)
      BY <3>3
    <3>5. \A d \in SpansOf(t) : Rank(d) < m - 2 * n => g[d] = Grammar(t, h, d)
      OBVIOUS
    <3>6. g = [d \in SpansOf(t) |-> IF Rank(d) < m - 2 * n THEN Grammar(t, h, d) ELSE FALSE]
      OBVIOUS
    <3> HIDE DEF g
    <3>7. ASSUME NEW d \in SpansOf(t), Rank(d) < m - 2 * n PROVE Grammar(t, g, d) = Grammar(t, h, d)
      <4>1. ASSUME NEW x \in SpansOf(t), Rank(x) < Rank(d) PROVE g[x] = h[x]
        <5>1. Rank(x) < (m - 1) - 2 * n /\ Rank(x) < m - 2 * n
          BY <1>1, <2>2, <3>7, <4>1
        <5> QED BY <3>4, <3>5, <5>1
      <4> QED BY <4>1, GrammarLocal
    <3>8. g = [d \in SpansOf(t) |-> IF Rank(d) < m - 2 * n THEN Grammar(t, g, d) ELSE FALSE]
      BY <3>6, <3>7
    <3> QED BY <2>2, <3>8
  <2> QED BY <2>3, <2>4
<1>3. 4 * n + 2 \in Nat /\ (4 * n + 2) - 2 * n = 2 * n + 2
  BY <1>1
<1>4. 4 * n + 2 \notin Bad
  BY <1>2
<1>5. PICK h : Upto(4 * n + 2, h)
  BY <1>3, <1>4
<1>6. \A d \in SpansOf(t) : Rank(d) < (4 * n + 2) - 2 * n
  BY <1>1, <1>3
<1>7. h = [d \in SpansOf(t) |-> Grammar(t, h, d)]
  BY <1>5, <1>6
<1> QED BY <1>7 DEF Solution

LEMMA PhrasesAre ==
  ASSUME NEW t, Len(t) \in Nat
  PROVE  \A d \in SpansOf(t) : Phrases(t)[d] = Grammar(t, Phrases(t), d)
<1>1. Solution(t, Phrases(t))
  BY SolutionExists DEF Phrases
<1> QED BY <1>1 DEF Solution

\* Derives are the phrases of the text.
LEMMA DerivesPhrases == Json!Derives = Phrases(text)
  BY DEF Json!Derives, Phrases, Solution, Grammar, SpansOf, Json!Spans, Sym, Json!At, Json!Strings, ValueTokens

\* t[i .. j - 1] is a value; an item of a container s; items separated by commas.
\* t[k .. b - 1] is what may follow an item; what may stand inside of brackets.
ValueIs(t, i, j) == i \in 1 .. Len(t) + 1 /\ j \in 1 .. Len(t) + 1 /\ Phrases(t)[<<"value", i, j>>]
ItemIs(t, s, i, k) ==
  IF s = "{" THEN t[i] \in DOMAIN Decoded /\ Sym(t, i + 1) = ":" /\ ValueIs(t, i + 2, k)
             ELSE ValueIs(t, i, k)
Rule(s) == IF s = "{" THEN "members" ELSE "values"
ItemsAre(t, s, i, b) ==
  i \in 1 .. Len(t) + 1 /\ b \in 1 .. Len(t) + 1 /\ Phrases(t)[<<Rule(s), i, b>>]
Rest(t, s, k, b) == k = b \/ (t[k] = "," /\ ItemsAre(t, s, k + 1, b))
Inner(t, s, i, b) == i = b \/ ItemsAre(t, s, i, b)

LEMMA ValueUnfold ==
  ASSUME NEW t, Len(t) \in Nat, NEW i \in 1 .. Len(t) + 1, NEW j \in 1 .. Len(t) + 1
  PROVE  ValueIs(t, i, j) <=>
           \/ j = i + 1 /\ t[i] \in ValueTokens
           \/ /\ t[i] \in Opening /\ j >= i + 2 /\ t[j - 1] = Closer(t[i])
              /\ Inner(t, t[i], i + 1, j - 1)
<1> DEFINE h == Phrases(t)
           N == 1 .. Len(t) + 1
<1>1. <<"value", i, j>> \in SpansOf(t)
  BY DEF SpansOf
<1>2. h[<<"value", i, j>>] = Grammar(t, h, <<"value", i, j>>)
  BY <1>1, PhrasesAre
<1>3. Grammar(t, h, <<"value", i, j>>) <=>
             \/ j = i + 1 /\ t[i] \in ValueTokens
             \/ /\ j >= i + 2 /\ t[i] = "[" /\ t[j - 1] = "]"
                /\ j = i + 2 \/ h[<<"values", i + 1, j - 1>>]
             \/ /\ j >= i + 2 /\ t[i] = "{" /\ t[j - 1] = "}"
                /\ j = i + 2 \/ h[<<"members", i + 1, j - 1>>]
  BY DEF Grammar
<1>4. j >= i + 2 => i + 1 \in N /\ j - 1 \in N /\ (i + 1 = j - 1 <=> j = i + 2)
  OBVIOUS
<1>5. ValueIs(t, i, j) <=> h[<<"value", i, j>>]
  BY DEF ValueIs
<1>6. \A s : j >= i + 2 => (Inner(t, s, i + 1, j - 1) <=>
        j = i + 2 \/ h[<<Rule(s), i + 1, j - 1>>])
  BY <1>4 DEF Inner, ItemsAre
<1> HIDE DEF h, N
<1>9. Rule("[") = "values" /\ Rule("{") = "members"
  BY DEF Rule
<1>7. j >= i + 2 => (Inner(t, "[", i + 1, j - 1) <=> j = i + 2 \/ h[<<"values", i + 1, j - 1>>])
  BY <1>6, <1>9
<1>8. j >= i + 2 => (Inner(t, "{", i + 1, j - 1) <=> j = i + 2 \/ h[<<"members", i + 1, j - 1>>])
  BY <1>6, <1>9
<1> QED BY <1>2, <1>3, <1>5, <1>7, <1>8 DEF Opening, Closer

LEMMA ValueSpan ==
  ASSUME NEW t, Len(t) \in Nat, NEW i, NEW j, ValueIs(t, i, j)
  PROVE  i \in 1 .. Len(t) /\ j \in i + 1 .. Len(t) + 1
<1>1. i \in 1 .. Len(t) + 1 /\ j \in 1 .. Len(t) + 1
  BY DEF ValueIs
<1>2. j = i + 1 \/ j >= i + 2
  BY <1>1, ValueUnfold
<1> QED BY <1>1, <1>2

LEMMA ItemSpan ==
  ASSUME NEW t, Len(t) \in Nat, NEW s, NEW i \in Int, NEW k, ItemIs(t, s, i, k)
  PROVE  k \in i + 1 .. Len(t) + 1
<1>1. CASE s = "{"
  <2>1. ValueIs(t, i + 2, k)
    BY <1>1 DEF ItemIs
  <2> QED BY <2>1, ValueSpan
<1>2. CASE s # "{"
  <2>1. ValueIs(t, i, k)
    BY <1>2 DEF ItemIs
  <2> QED BY <2>1, ValueSpan
<1> QED BY <1>1, <1>2

LEMMA ItemsSpan ==
  ASSUME NEW t, Len(t) \in Nat, NEW s \in Opening, NEW i, NEW b, ItemsAre(t, s, i, b)
  PROVE  i \in 1 .. Len(t) /\ b \in i + 1 .. Len(t) + 1
<1> DEFINE h == Phrases(t)
<1>1. i \in 1 .. Len(t) + 1 /\ b \in 1 .. Len(t) + 1 /\ h[<<Rule(s), i, b>>]
  BY DEF ItemsAre
<1>2. <<Rule(s), i, b>> \in SpansOf(t)
  BY <1>1 DEF SpansOf, Rule
<1>3. h[<<Rule(s), i, b>>] = Grammar(t, h, <<Rule(s), i, b>>)
  BY <1>2, PhrasesAre
<1>4. Grammar(t, h, <<Rule(s), i, b>>)
  BY <1>1, <1>3
<1> HIDE DEF h
<1>5. i < b
  <2>1. CASE s = "{"
    <3>1. Rule(s) = "members"
      BY <2>1 DEF Rule
    <3>2. i + 2 < b \/ \E k \in i + 3 .. b - 2 : TRUE
      BY <1>4, <3>1 DEF Grammar
    <3> QED BY <1>1, <3>2
  <2>2. CASE s # "{"
    <3>1. Rule(s) = "values"
      BY <2>2 DEF Rule
    <3>2. i < b \/ \E k \in i + 1 .. b - 2 : TRUE
      BY <1>4, <3>1 DEF Grammar
    <3> QED BY <1>1, <3>2
  <2> QED BY <2>1, <2>2
<1> QED BY <1>1, <1>5

LEMMA ItemsUnfold ==
  ASSUME NEW t, Len(t) \in Nat, NEW s \in Opening, NEW i \in 1 .. Len(t) + 1, NEW b \in 1 .. Len(t) + 1
  PROVE  ItemsAre(t, s, i, b) <=> \E k \in Int : ItemIs(t, s, i, k) /\ Rest(t, s, k, b)
<1> DEFINE N == 1 .. Len(t) + 1
           h == Phrases(t)
           first == IF s = "{" THEN i + 2 ELSE i
           after == IF s = "{" THEN i + 3 ELSE i + 1
<1>1. <<Rule(s), i, b>> \in SpansOf(t)
  BY DEF SpansOf, Rule
<1>2. h[<<Rule(s), i, b>>] = Grammar(t, h, <<Rule(s), i, b>>)
  BY <1>1, PhrasesAre
<1>3. ItemsAre(t, s, i, b) <=> Grammar(t, h, <<Rule(s), i, b>>)
  BY <1>2 DEF ItemsAre
<1>0. /\ s = "{" => first = i + 2 /\ after = i + 3
      /\ s # "{" => first = i /\ after = i + 1
  OBVIOUS
<1>4. ASSUME NEW k \in N, after <= k
      PROVE  ItemIs(t, s, i, k) <=> /\ s = "{" => t[i] \in DOMAIN Decoded /\ Sym(t, i + 1) = ":"
                                    /\ h[<<"value", first, k>>]
  <2>1. CASE s = "{"
    <3>1. first = i + 2 /\ first \in N
      <4>1. after = i + 3 /\ first = i + 2 /\ after <= k
        BY <1>0, <1>4, <2>1
      <4> HIDE DEF first, after
      <4> QED BY <4>1
    <3> QED BY <2>1, <3>1 DEF ItemIs, ValueIs
  <2>2. CASE s # "{"
    <3>1. first = i
      BY <2>2
    <3> QED BY <2>2, <3>1 DEF ItemIs, ValueIs
  <2> QED BY <2>1, <2>2
<1>5. \A k \in N : \A m \in N : ItemsAre(t, s, k, m) <=> h[<<Rule(s), k, m>>]
  BY DEF ItemsAre
<1>6. Grammar(t, h, <<Rule(s), i, b>>) <=>
        \/ first < b /\ (s = "{" => t[i] \in DOMAIN Decoded /\ Sym(t, i + 1) = ":") /\ h[<<"value", first, b>>]
        \/ \E k \in after .. b - 2 :
             /\ (s = "{" => t[i] \in DOMAIN Decoded /\ Sym(t, i + 1) = ":") /\ h[<<"value", first, k>>]
             /\ t[k] = "," /\ h[<<Rule(s), k + 1, b>>]
  <2>1. CASE s = "{"
    <3>1. Rule(s) = "members" /\ first = i + 2 /\ after = i + 3
      BY <2>1 DEF Rule
    <3> HIDE DEF h, N, first, after
    <3> QED BY <2>1, <3>1 DEF Grammar
  <2>2. CASE s # "{"
    <3>1. Rule(s) = "values" /\ first = i /\ after = i + 1
      BY <2>2 DEF Rule
    <3> HIDE DEF h, N, first, after
    <3> QED BY <2>2, <3>1 DEF Grammar
  <2> QED BY <2>1, <2>2
<1>7. /\ first \in Int /\ after = first + 1 /\ i <= first /\ b \in N
      /\ \A k \in after .. b - 2 : k \in N /\ k + 1 \in N /\ after <= k
      /\ first < b => after <= b
  <2>1. /\ first \in Int /\ after = first + 1 /\ i <= first /\ i + 1 <= after
    <3> HIDE DEF first, after
    <3>0. i \in Int
      OBVIOUS
    <3>1. CASE s = "{"
      <4>1. first = i + 2 /\ after = i + 3
        BY <1>0, <3>1
      <4> QED BY <3>0, <4>1
    <3>2. CASE s # "{"
      <4>1. first = i /\ after = i + 1
        BY <1>0, <3>2
      <4> QED BY <3>0, <4>1
    <3> QED BY <3>1, <3>2
  <2> HIDE DEF first, after
  <2> QED BY <2>1
<1>8. ASSUME NEW k \in Int, ItemIs(t, s, i, k) PROVE k \in N /\ after <= k
  <2>1. CASE s = "{"
    <3>1. ValueIs(t, i + 2, k)
      BY <1>8, <2>1 DEF ItemIs
    <3>2. k \in N /\ i + 3 <= k
      BY <3>1, ValueSpan
    <3> QED BY <2>1, <3>2
  <2>2. CASE s # "{"
    <3>1. ValueIs(t, i, k)
      BY <1>8, <2>2 DEF ItemIs
    <3>2. k \in N /\ i + 1 <= k
      BY <3>1, ValueSpan
    <3> QED BY <2>2, <3>2
  <2> QED BY <2>1, <2>2
<1> DEFINE NamedItem == s = "{" => t[i] \in DOMAIN Decoded /\ Sym(t, i + 1) = ":"
           Only == first < b /\ NamedItem /\ h[<<"value", first, b>>]
           Goes(k) == NamedItem /\ h[<<"value", first, k>>] /\ t[k] = "," /\ h[<<Rule(s), k + 1, b>>]
<1>9. ItemsAre(t, s, i, b) <=> Only \/ \E k \in after .. b - 2 : Goes(k)
  BY <1>3, <1>6
<1>10. ASSUME NEW k \in N, after <= k PROVE ItemIs(t, s, i, k) <=> NamedItem /\ h[<<"value", first, k>>]
  BY <1>4, <1>10
<1> HIDE DEF h, first, after, NamedItem
<1>12. ASSUME ItemsAre(t, s, i, b) PROVE \E k \in Int : ItemIs(t, s, i, k) /\ Rest(t, s, k, b)
  <2>1. CASE Only
    <3>1. ItemIs(t, s, i, b)
      <4>1. b \in N /\ after <= b
        BY <1>7, <2>1
      <4> QED BY <1>10, <2>1, <4>1
    <3>2. b \in Int
      OBVIOUS
    <3> QED BY <3>1, <3>2 DEF Rest
  <2>2. ASSUME NEW k \in after .. b - 2, Goes(k) PROVE ItemIs(t, s, i, k) /\ Rest(t, s, k, b)
    <3>1. k \in N /\ k + 1 \in N /\ after <= k
      BY <1>7
    <3>2. ItemIs(t, s, i, k)
      BY <1>10, <2>2, <3>1
    <3>3. ItemsAre(t, s, k + 1, b)
      BY <1>5, <2>2, <3>1
    <3> QED BY <2>2, <3>2, <3>3 DEF Rest
  <2>3. \A k \in after .. b - 2 : k \in Int
    BY <1>7
  <2> HIDE DEF Only, Goes
  <2> QED BY <1>9, <1>12, <2>1, <2>2, <2>3
<1>13. ASSUME NEW k \in Int, ItemIs(t, s, i, k), Rest(t, s, k, b) PROVE ItemsAre(t, s, i, b)
  <2>1. k \in N /\ after <= k
    BY <1>8, <1>13
  <2>2. NamedItem /\ h[<<"value", first, k>>]
    BY <1>10, <1>13, <2>1
  <2>3. CASE k = b
    <3>1. Only
      BY <1>7, <2>1, <2>2, <2>3
    <3> HIDE DEF Only, Goes
    <3> QED BY <1>9, <3>1
  <2>4. CASE k # b
    <3>1. t[k] = "," /\ ItemsAre(t, s, k + 1, b)
      BY <1>13, <2>4 DEF Rest
    <3>2. k + 1 \in N
      BY <3>1 DEF ItemsAre
    <3>3. h[<<Rule(s), k + 1, b>>]
      BY <1>5, <3>1, <3>2
    <3>4. k + 1 < b
      <4>1. b \in (k + 1) + 1 .. Len(t) + 1
        BY <3>1, ItemsSpan
      <4>2. k \in Int
        BY <2>1
      <4> QED BY <4>1, <4>2
    <3>5. k \in after .. b - 2
      BY <2>1, <3>2, <3>4
    <3>6. Goes(k)
      BY <2>2, <3>1, <3>3
    <3> HIDE DEF Only, Goes
    <3> QED BY <1>9, <3>5, <3>6
  <2> QED BY <2>3, <2>4
<1> QED BY <1>12, <1>13

(* What remains to be read when the innermost item ends at k: the rest of  *)
(* each open container, the innermost first, and its bracket.              *)
Link(t, s, k, q) == Rest(t, s, k, q - 1) /\ Sym(t, q - 1) = Closer(s)
Resume(t, stk, k, j) ==
  \E e \in [0 .. Len(stk) -> Int] :
    /\ e[0] = k /\ e[Len(stk)] = j
    /\ \A d \in 1 .. Len(stk) : Link(t, stk[d], e[d - 1], e[d])

LEMMA ResumeEmpty ==
  ASSUME NEW t, NEW stk, Len(stk) = 0, NEW k \in Int, NEW j \in Int
  PROVE  Resume(t, stk, k, j) <=> k = j
<1>1. ASSUME k = j PROVE Resume(t, stk, k, j)
  <2> DEFINE e == [d \in 0 .. Len(stk) |-> k]
  <2>1. e \in [0 .. Len(stk) -> Int] /\ e[0] = k /\ e[Len(stk)] = j
    BY <1>1
  <2>2. \A d \in 1 .. Len(stk) : Link(t, stk[d], e[d - 1], e[d])
    OBVIOUS
  <2> HIDE DEF e
  <2> QED BY <2>1, <2>2 DEF Resume
<1>2. ASSUME Resume(t, stk, k, j) PROVE k = j
  BY <1>2 DEF Resume
<1> QED BY <1>1, <1>2

LEMMA ResumeUnfold ==
  ASSUME NEW t, NEW stk \in Seq(Opening), stk # <<>>, NEW k \in Int, NEW j \in Int
  PROVE  Resume(t, stk, k, j) <=>
           \E q \in Int : Link(t, Head(stk), k, q) /\ Resume(t, Tail(stk), q, j)
<1> DEFINE n == Len(stk)
           rest == Tail(stk)
<1>1. /\ n \in Nat \ {0} /\ Len(rest) = n - 1 /\ Head(stk) = stk[1]
      /\ \A d \in 1 .. n - 1 : rest[d] = stk[d + 1]
  OBVIOUS
<1> HIDE DEF n, rest
<1>2. ASSUME Resume(t, stk, k, j)
      PROVE  \E q \in Int : Link(t, Head(stk), k, q) /\ Resume(t, Tail(stk), q, j)
  <2>1. PICK e \in [0 .. n -> Int] : /\ e[0] = k /\ e[n] = j
                                     /\ \A d \in 1 .. n : Link(t, stk[d], e[d - 1], e[d])
    BY <1>2 DEF Resume, n
  <2> DEFINE f == [d \in 0 .. n - 1 |-> e[d + 1]]
  <2>2. f \in [0 .. n - 1 -> Int] /\ f[0] = e[1] /\ f[n - 1] = j
    BY <1>1, <2>1
  <2>3. ASSUME NEW d \in 1 .. n - 1 PROVE Link(t, rest[d], f[d - 1], f[d])
    <3>1. Link(t, stk[d + 1], e[(d + 1) - 1], e[d + 1])
      BY <1>1, <2>1
    <3>2. f[d - 1] = e[(d + 1) - 1] /\ f[d] = e[d + 1]
      BY <1>1
    <3> QED BY <1>1, <3>1, <3>2
  <2>4. e[1] \in Int /\ Link(t, stk[1], e[1 - 1], e[1])
    BY <1>1, <2>1
  <2> HIDE DEF f
  <2>5. Resume(t, rest, e[1], j)
    BY <1>1, <2>2, <2>3 DEF Resume
  <2> QED BY <1>1, <2>1, <2>4, <2>5 DEF rest
<1>3. ASSUME NEW q \in Int, Link(t, stk[1], k, q), Resume(t, rest, q, j) PROVE Resume(t, stk, k, j)
  <2>1. PICK f \in [0 .. n - 1 -> Int] : /\ f[0] = q /\ f[n - 1] = j
                                         /\ \A d \in 1 .. n - 1 : Link(t, rest[d], f[d - 1], f[d])
    BY <1>1, <1>3 DEF Resume
  <2> DEFINE e == [d \in 0 .. n |-> IF d = 0 THEN k ELSE f[d - 1]]
  <2>2. e \in [0 .. n -> Int] /\ e[0] = k /\ e[n] = j
    BY <1>1, <2>1
  <2>3. ASSUME NEW d \in 1 .. n PROVE Link(t, stk[d], e[d - 1], e[d])
    <3>1. CASE d = 1
      <4>1. e[d - 1] = k /\ e[d] = q
        BY <1>1, <2>1, <3>1
      <4> QED BY <1>3, <3>1, <4>1
    <3>2. CASE d # 1
      <4>1. d - 1 \in 1 .. n - 1
        BY <1>1, <3>2
      <4>2. e[d - 1] = f[(d - 1) - 1] /\ e[d] = f[d - 1]
        BY <1>1, <4>1
      <4>3. stk[d] = rest[d - 1]
        BY <1>1, <4>1
      <4> QED BY <2>1, <4>1, <4>2, <4>3
    <3> QED BY <3>1, <3>2
  <2> HIDE DEF e
  <2> QED BY <2>2, <2>3 DEF Resume, n
<1> QED BY <1>1, <1>2, <1>3 DEF rest

\* Items begin with a word or an opening bracket, and have a name in an object.
LEMMA ItemStarts ==
  ASSUME NEW t, Len(t) \in Nat, NEW s \in Opening, NEW i \in Int, NEW k, ItemIs(t, s, i, k)
  PROVE  /\ i <= Len(t) /\ t[i] \in ValueTokens \union Opening
         /\ s = "{" => t[i] \in DOMAIN Decoded
<1>1. CASE s = "{"
  <2>1. t[i] \in DOMAIN Decoded /\ ValueIs(t, i + 2, k)
    BY <1>1 DEF ItemIs
  <2>2. i + 2 <= Len(t)
    BY <2>1, ValueSpan
  <2>3. i <= Len(t)
    BY <2>2
  <2> QED BY <2>1, <2>3 DEF ValueTokens
<1>2. CASE s # "{"
  <2>1. ValueIs(t, i, k)
    BY <1>2 DEF ItemIs
  <2>2. i \in 1 .. Len(t) + 1 /\ k \in 1 .. Len(t) + 1 /\ i <= Len(t)
    BY <2>1, ValueSpan
  <2>3. t[i] \in ValueTokens \/ t[i] \in Opening
    BY <2>1, <2>2, ValueUnfold
  <2> QED BY <1>2, <2>2, <2>3
<1> QED BY <1>1, <1>2

LEMMA ItemsStart ==
  ASSUME NEW t, Len(t) \in Nat, NEW s \in Opening, NEW i, NEW b, ItemsAre(t, s, i, b)
  PROVE  /\ i \in 1 .. Len(t) /\ Sym(t, i) = t[i] /\ t[i] \in ValueTokens \union Opening
         /\ s = "{" => t[i] \in DOMAIN Decoded
<1>1. i \in 1 .. Len(t) /\ b \in 1 .. Len(t) + 1 /\ i \in 1 .. Len(t) + 1
  BY ItemsSpan
<1>2. PICK k \in Int : ItemIs(t, s, i, k)
  BY <1>1, ItemsUnfold
<1>3. Sym(t, i) = t[i]
  BY <1>1 DEF Sym
<1>4. i \in Int
  BY <1>1
<1>5. /\ t[i] \in ValueTokens \union Opening
      /\ s = "{" => t[i] \in DOMAIN Decoded
  BY <1>2, <1>4, ItemStarts
<1> QED BY <1>1, <1>3, <1>5

LEMMA WordsAreNoMarks == (ValueTokens \union Opening) \cap {"}", "]", ",", ":", "end of text"} = {} /\ ValueTokens \cap Marks = {}
  BY JsonAssumption DEF ValueTokens, Opening, Marks

\* The text up to j is what the parser still expects at c.
Completes(t, stk, ex, c, j) ==
  CASE ex = "value" -> \E k \in Int : ValueIs(t, c, k) /\ Resume(t, stk, k, j)
    [] ex = "first" -> \E q \in Int : /\ Sym(t, q - 1) = Closer(Head(stk))
                                      /\ Inner(t, Head(stk), c, q - 1)
                                      /\ Resume(t, Tail(stk), q, j)
    [] ex = "name"  -> \E k \in Int : ItemIs(t, "{", c, k) /\ Resume(t, stk, k, j)
    [] ex = "colon" -> /\ Sym(t, c) = ":"
                       /\ \E k \in Int : ValueIs(t, c + 1, k) /\ Resume(t, stk, k, j)
    [] OTHER -> Resume(t, stk, c, j)

\* A place of t, and open containers.
ReadingAt(t, c, stk) == Len(t) \in Nat /\ c \in 1 .. Len(t) + 1 /\ stk \in Seq(Opening)

LEMMA HeadOpens ==
  ASSUME NEW stk \in Seq(Opening), stk # <<>>
  PROVE  Head(stk) \in Opening /\ Tail(stk) \in Seq(Opening) /\ Len(Tail(stk)) = Len(stk) - 1
  OBVIOUS

LEMMA Below ==
  ASSUME NEW n \in Nat, NEW c \in 1 .. n + 1, c <= n
  PROVE  c \in 1 .. n /\ c \in Int /\ c + 1 \in 1 .. n + 1
  OBVIOUS

LEMMA Below0 ==
  ASSUME NEW n \in Nat, NEW c \in 1 .. n
  PROVE  c <= n
  OBVIOUS

LEMMA ItemsThenClose ==
  ASSUME NEW t, NEW c, NEW stk, ReadingAt(t, c, stk), stk # <<>>, NEW j \in Int
  PROVE  (\E q \in Int : /\ Sym(t, q - 1) = Closer(Head(stk))
                         /\ ItemsAre(t, Head(stk), c, q - 1)
                         /\ Resume(t, Tail(stk), q, j))
         <=> \E k \in Int : ItemIs(t, Head(stk), c, k) /\ Resume(t, stk, k, j)
<1> DEFINE s == Head(stk)
           r == Tail(stk)
<1>1. Len(t) \in Nat /\ c \in 1 .. Len(t) + 1 /\ c \in Int /\ s \in Opening /\ stk \in Seq(Opening)
  BY HeadOpens DEF ReadingAt
<1>2. \A k \in Int : Resume(t, stk, k, j) <=> \E q \in Int : Link(t, s, k, q) /\ Resume(t, r, q, j)
  BY <1>1, ResumeUnfold
<1> HIDE DEF s, r
<1>3. ASSUME NEW q \in Int, Sym(t, q - 1) = Closer(s), ItemsAre(t, s, c, q - 1), Resume(t, r, q, j)
      PROVE  \E k \in Int : ItemIs(t, s, c, k) /\ Resume(t, stk, k, j)
  <2>1. q - 1 \in 1 .. Len(t) + 1
    BY <1>3 DEF ItemsAre
  <2>2. PICK k \in Int : ItemIs(t, s, c, k) /\ Rest(t, s, k, q - 1)
    BY <1>1, <1>3, <2>1, ItemsUnfold
  <2>3. Link(t, s, k, q)
    BY <1>3, <2>2 DEF Link
  <2> QED BY <1>2, <1>3, <2>2, <2>3
<1>4. ASSUME NEW k \in Int, ItemIs(t, s, c, k), Resume(t, stk, k, j)
      PROVE  \E q \in Int : Sym(t, q - 1) = Closer(s) /\ ItemsAre(t, s, c, q - 1) /\ Resume(t, r, q, j)
  <2>1. PICK q \in Int : Link(t, s, k, q) /\ Resume(t, r, q, j)
    BY <1>2, <1>4
  <2>2. Rest(t, s, k, q - 1) /\ Sym(t, q - 1) = Closer(s)
    BY <2>1 DEF Link
  <2>3. q - 1 \in 1 .. Len(t) + 1
    <3>1. k \in 1 .. Len(t) + 1
      BY <1>1, <1>4, ItemSpan
    <3>2. CASE k = q - 1
      BY <3>1, <3>2
    <3>3. CASE ItemsAre(t, s, k + 1, q - 1)
      BY <3>3 DEF ItemsAre
    <3> QED BY <2>2, <3>2, <3>3 DEF Rest
  <2>4. ItemsAre(t, s, c, q - 1)
    BY <1>1, <1>4, <2>2, <2>3, ItemsUnfold
  <2> QED BY <2>1, <2>2, <2>4
<1> QED BY <1>3, <1>4 DEF s, r

LEMMA FirstItem ==
  ASSUME NEW t, NEW c, NEW stk, ReadingAt(t, c, stk), stk # <<>>, NEW j \in Int,
         Sym(t, c) # Closer(Head(stk))
  PROVE  Completes(t, stk, "first", c, j)
         <=> \E k \in Int : ItemIs(t, Head(stk), c, k) /\ Resume(t, stk, k, j)
<1>1. ASSUME NEW q \in Int, Sym(t, q - 1) = Closer(Head(stk))
      PROVE  Inner(t, Head(stk), c, q - 1) <=> ItemsAre(t, Head(stk), c, q - 1)
  <2>1. c # q - 1
    BY <1>1
  <2> QED BY <2>1 DEF Inner
<1>2. Completes(t, stk, "first", c, j) <=>
        \E q \in Int : /\ Sym(t, q - 1) = Closer(Head(stk))
                       /\ Inner(t, Head(stk), c, q - 1)
                       /\ Resume(t, Tail(stk), q, j)
  BY DEF Completes
<1> QED BY <1>1, <1>2, ItemsThenClose

LEMMA AfterComma ==
  ASSUME NEW t, NEW c, NEW stk, ReadingAt(t, c, stk), stk # <<>>, NEW j \in Int,
         Sym(t, c) = ",", c <= Len(t)
  PROVE  Completes(t, stk, "after", c, j)
         <=> \E k \in Int : ItemIs(t, Head(stk), c + 1, k) /\ Resume(t, stk, k, j)
<1>0. Len(t) \in Nat /\ c \in 1 .. Len(t) + 1 /\ stk \in Seq(Opening)
  BY DEF ReadingAt
<1>7. c \in 1 .. Len(t) /\ c \in Int /\ c + 1 \in 1 .. Len(t) + 1
  BY <1>0, Below
<1>1. /\ Len(t) \in Nat /\ c \in 1 .. Len(t) /\ c \in Int /\ ReadingAt(t, c + 1, stk)
      /\ stk \in Seq(Opening) /\ Head(stk) \in Opening
  BY <1>0, <1>7, HeadOpens DEF ReadingAt
<1>2. t[c] = ","
  BY <1>1 DEF Sym
<1>3. ASSUME NEW q \in Int
      PROVE  Link(t, Head(stk), c, q) <=>
               Sym(t, q - 1) = Closer(Head(stk)) /\ ItemsAre(t, Head(stk), c + 1, q - 1)
  <2>1. Sym(t, q - 1) = Closer(Head(stk)) => c # q - 1
    BY DEF Closer
  <2> QED BY <1>2, <2>1 DEF Link, Rest
<1>4. Completes(t, stk, "after", c, j) <=> Resume(t, stk, c, j)
  BY DEF Completes
<1>5. Resume(t, stk, c, j) <=> \E q \in Int : Link(t, Head(stk), c, q) /\ Resume(t, Tail(stk), q, j)
  BY <1>1, ResumeUnfold
<1>6. Resume(t, stk, c, j) <=>
         \E q \in Int : /\ Sym(t, q - 1) = Closer(Head(stk))
                        /\ ItemsAre(t, Head(stk), c + 1, q - 1)
                        /\ Resume(t, Tail(stk), q, j)
  BY <1>3, <1>5
<1> QED BY <1>1, <1>4, <1>6, ItemsThenClose

LEMMA AtCloser ==
  ASSUME NEW t, NEW c, NEW stk, ReadingAt(t, c, stk), stk # <<>>, NEW j \in Int,
         NEW ex \in {"first", "after"}, Sym(t, c) = Closer(Head(stk))
  PROVE  Completes(t, stk, ex, c, j) <=> Resume(t, Tail(stk), c + 1, j)
<1> DEFINE s == Head(stk)
<1>1. /\ Len(t) \in Nat /\ c \in 1 .. Len(t) + 1 /\ c \in Int /\ s \in Opening
      /\ stk \in Seq(Opening)
  BY HeadOpens DEF ReadingAt
<1>2. Closer(s) \in {"}", "]"}
  BY DEF Closer
<1> HIDE DEF s
<1>3. ASSUME NEW b, ItemsAre(t, s, c, b) PROVE FALSE
  <2>1. Sym(t, c) \in ValueTokens \union Opening
    BY <1>1, <1>3, ItemsStart
  <2> QED BY <1>2, <2>1, WordsAreNoMarks DEF s
<1>4. ASSUME NEW q \in Int
      PROVE  (Sym(t, q - 1) = Closer(s) /\ Inner(t, s, c, q - 1)) <=> q = c + 1
  <2>1. Inner(t, s, c, q - 1) <=> c = q - 1
    BY <1>3 DEF Inner
  <2>2. c = q - 1 <=> q = c + 1
    BY <1>1
  <2> QED BY <2>1, <2>2 DEF s
<1>5. ASSUME NEW q \in Int
      PROVE  Link(t, s, c, q) <=> q = c + 1
  <2>0. t[c] # ","
    <3>1. CASE c <= Len(t)
      BY <1>1, <1>2, <3>1 DEF Sym, s
    <3>2. CASE ~(c <= Len(t))
      <4>1. Sym(t, c) = "end of text"
        BY <3>2 DEF Sym
      <4> QED BY <1>2, <4>1 DEF s
    <3> QED BY <3>1, <3>2
  <2>1. Rest(t, s, c, q - 1) <=> c = q - 1
    BY <2>0 DEF Rest
  <2>2. c = q - 1 <=> q = c + 1
    BY <1>1
  <2> QED BY <2>1, <2>2 DEF Link, s
<1>6. CASE ex = "first"
  <2>1. Completes(t, stk, ex, c, j) <=>
          \E q \in Int : (Sym(t, q - 1) = Closer(s) /\ Inner(t, s, c, q - 1)) /\ Resume(t, Tail(stk), q, j)
    BY <1>6 DEF Completes, s
  <2>2. c + 1 \in Int
    BY <1>1
  <2> QED BY <1>4, <2>1, <2>2
<1>7. CASE ex = "after"
  <2>1. Completes(t, stk, ex, c, j) <=> Resume(t, stk, c, j)
    BY <1>7 DEF Completes
  <2>2. Resume(t, stk, c, j) <=> \E q \in Int : Link(t, s, c, q) /\ Resume(t, Tail(stk), q, j)
    BY <1>1, ResumeUnfold DEF s
  <2>3. c + 1 \in Int
    BY <1>1
  <2> QED BY <1>5, <2>1, <2>2, <2>3
<1> QED BY <1>6, <1>7

\* After an item comes a comma or the bracket.
LEMMA AfterItem ==
  ASSUME NEW t, NEW c, NEW stk, ReadingAt(t, c, stk), stk # <<>>, NEW j \in Int, Resume(t, stk, c, j)
  PROVE  Sym(t, c) \in {",", Closer(Head(stk))}
<1>1. /\ Len(t) \in Nat /\ c \in Int /\ stk \in Seq(Opening) /\ Head(stk) \in Opening
  BY HeadOpens DEF ReadingAt
<1>2. PICK q \in Int : Link(t, Head(stk), c, q)
  BY <1>1, ResumeUnfold
<1>3. CASE c = q - 1
  BY <1>2, <1>3 DEF Link
<1>4. CASE t[c] = "," /\ ItemsAre(t, Head(stk), c + 1, q - 1)
  <2>1. c + 1 \in 1 .. Len(t)
    BY <1>1, <1>4, ItemsSpan
  <2>2. c <= Len(t)
    BY <1>1, <2>1
  <2> QED BY <1>4, <2>2 DEF Sym
<1> QED BY <1>2, <1>3, <1>4 DEF Link, Rest

-----------------------------------------------------------------------------
(* JSON: the actions of the parser keep what it expects exact.             *)

\* A value may begin at c; it is the same as an item of an array.
DueAt(stk, ex) == ex = "value" \/ (ex = "first" /\ stk # <<>> /\ Head(stk) = "[")
NameDueAt(stk, ex) == stk # <<>> /\ Head(stk) = "{" /\ ex \in {"name", "first"}
AfterAt(stk) == IF stk = <<>> THEN "end" ELSE "after"

LEMMA ValueDueAt ==
  ASSUME NEW t, NEW c, NEW stk, ReadingAt(t, c, stk), NEW ex, DueAt(stk, ex), NEW j \in Int,
         Sym(t, c) # "]"
  PROVE  Completes(t, stk, ex, c, j) <=> \E k \in Int : ValueIs(t, c, k) /\ Resume(t, stk, k, j)
<1>1. CASE ex = "value"
  BY <1>1 DEF Completes
<1>2. CASE ex # "value"
  <2>1. ex = "first" /\ stk # <<>> /\ Head(stk) = "["
    BY <1>2 DEF DueAt
  <2>2. Sym(t, c) # Closer(Head(stk))
    BY <2>1 DEF Closer
  <2>3. \A k : ItemIs(t, Head(stk), c, k) <=> ValueIs(t, c, k)
    BY <2>1 DEF ItemIs
  <2> QED BY <2>1, <2>2, <2>3, FirstItem
<1> QED BY <1>1, <1>2

LEMMA NameDue ==
  ASSUME NEW t, NEW c, NEW stk, ReadingAt(t, c, stk), NEW ex, NameDueAt(stk, ex), NEW j \in Int,
         Sym(t, c) # "}"
  PROVE  Completes(t, stk, ex, c, j) <=> \E k \in Int : ItemIs(t, "{", c, k) /\ Resume(t, stk, k, j)
<1>1. stk # <<>> /\ Head(stk) = "{" /\ ex \in {"name", "first"}
  BY DEF NameDueAt
<1>2. CASE ex = "name"
  BY <1>2 DEF Completes
<1>3. CASE ex = "first"
  <2>1. Sym(t, c) # Closer(Head(stk))
    BY <1>1 DEF Closer
  <2> QED BY <1>1, <1>3, <2>1, FirstItem
<1> QED BY <1>1, <1>2, <1>3

\* A token that is no mark of the end is in the text.
LEMMA InText ==
  ASSUME NEW t, NEW c, NEW stk, ReadingAt(t, c, stk), Sym(t, c) # "end of text"
  PROVE  c \in 1 .. Len(t) /\ t[c] = Sym(t, c) /\ ReadingAt(t, c + 1, stk)
<1>1. Len(t) \in Nat /\ c \in 1 .. Len(t) + 1 /\ stk \in Seq(Opening)
  BY DEF ReadingAt
<1>2. c <= Len(t)
  BY DEF Sym
<1>3. c \in 1 .. Len(t) /\ c + 1 \in 1 .. Len(t) + 1
  BY <1>1, <1>2, Below
<1> QED BY <1>1, <1>2, <1>3 DEF Sym, ReadingAt

LEMMA ScalarExact ==
  ASSUME NEW t, NEW c, NEW stk, ReadingAt(t, c, stk), NEW ex, DueAt(stk, ex), NEW j \in Int,
         Sym(t, c) \in ValueTokens
  PROVE  Completes(t, stk, ex, c, j) <=> Completes(t, stk, AfterAt(stk), c + 1, j)
<1>1. Sym(t, c) \notin {"]", "end of text"} /\ Sym(t, c) \notin Opening
  BY WordsAreNoMarks DEF Marks, Opening
<1>2. c \in 1 .. Len(t) /\ t[c] = Sym(t, c) /\ Len(t) \in Nat
  BY <1>1, InText DEF ReadingAt
<1>3. ASSUME NEW k \in Int PROVE ValueIs(t, c, k) <=> k = c + 1
  <2>1. c \in 1 .. Len(t) + 1 /\ c + 1 \in 1 .. Len(t) + 1
    BY <1>2
  <2>2. ValueIs(t, c, k) => k \in 1 .. Len(t) + 1
    BY DEF ValueIs
  <2>3. ASSUME NEW m \in 1 .. Len(t) + 1 PROVE ValueIs(t, c, m) <=> m = c + 1
    <3> HIDE <2>2
    <3> QED BY <1>1, <1>2, <2>1, ValueUnfold
  <2> QED BY <2>1, <2>2, <2>3
<1>4. Completes(t, stk, ex, c, j) <=> \E k \in Int : ValueIs(t, c, k) /\ Resume(t, stk, k, j)
  BY <1>1, ValueDueAt
<1>5. Completes(t, stk, AfterAt(stk), c + 1, j) <=> Resume(t, stk, c + 1, j)
  BY DEF Completes, AfterAt
<1>6. c + 1 \in Int
  BY <1>2
<1> QED BY <1>3, <1>4, <1>5, <1>6

LEMMA OpenExact ==
  ASSUME NEW t, NEW c, NEW stk, ReadingAt(t, c, stk), NEW ex, DueAt(stk, ex), NEW j \in Int,
         NEW s \in Opening, Sym(t, c) = s
  PROVE  Completes(t, stk, ex, c, j) <=> Completes(t, <<s>> \o stk, "first", c + 1, j)
<1>1. Sym(t, c) \notin {"]", "end of text"} /\ Sym(t, c) \notin ValueTokens
  BY WordsAreNoMarks DEF Marks, Opening
<1>2. c \in 1 .. Len(t) /\ t[c] = s /\ Len(t) \in Nat /\ stk \in Seq(Opening)
  BY <1>1, InText DEF ReadingAt
<1>3. Head(<<s>> \o stk) = s /\ Tail(<<s>> \o stk) = stk
  BY <1>2
<1>4. ASSUME NEW k \in Int
      PROVE  ValueIs(t, c, k) <=> Sym(t, k - 1) = Closer(s) /\ Inner(t, s, c + 1, k - 1)
  <2>1. ASSUME NEW m \in 1 .. Len(t) + 1
        PROVE  ValueIs(t, c, m) <=> m >= c + 2 /\ t[m - 1] = Closer(s) /\ Inner(t, s, c + 1, m - 1)
    <3>1. c \in 1 .. Len(t) + 1
      BY <1>2
    <3>2. ValueIs(t, c, m) <=>
           \/ m = c + 1 /\ t[c] \in ValueTokens
           \/ /\ t[c] \in Opening /\ m >= c + 2 /\ t[m - 1] = Closer(t[c])
              /\ Inner(t, t[c], c + 1, m - 1)
      BY <1>2, <3>1, ValueUnfold
    <3>3. t[c] = s /\ t[c] \notin ValueTokens
      BY <1>1, <1>2
    <3> QED BY <3>2, <3>3
  <2>2. ASSUME ValueIs(t, c, k) PROVE Sym(t, k - 1) = Closer(s) /\ Inner(t, s, c + 1, k - 1)
    <3>1. k \in 1 .. Len(t) + 1
      BY <2>2 DEF ValueIs
    <3>2. t[k - 1] = Closer(s) /\ Inner(t, s, c + 1, k - 1)
      BY <2>1, <2>2, <3>1
    <3>3. k - 1 <= Len(t)
      BY <1>2, <3>1
    <3> QED BY <3>2, <3>3 DEF Sym
  <2>3. ASSUME Sym(t, k - 1) = Closer(s), Inner(t, s, c + 1, k - 1) PROVE ValueIs(t, c, k)
    <3>1. k - 1 <= Len(t) /\ t[k - 1] = Closer(s)
      BY <2>3 DEF Sym, Closer
    <3>2. c + 1 <= k - 1
      <4>1. CASE c + 1 = k - 1
        BY <1>2, <4>1
      <4>2. CASE ItemsAre(t, s, c + 1, k - 1)
        <5>1. k - 1 \in (c + 1) + 1 .. Len(t) + 1
          BY <1>2, <4>2, ItemsSpan
        <5> QED BY <1>2, <5>1
      <4> QED BY <2>3, <4>1, <4>2 DEF Inner
    <3>3. k \in 1 .. Len(t) + 1 /\ k >= c + 2
      BY <1>2, <3>1, <3>2
    <3> QED BY <2>1, <2>3, <3>1, <3>3
  <2> QED BY <2>2, <2>3
<1>5. Completes(t, stk, ex, c, j) <=> \E k \in Int : ValueIs(t, c, k) /\ Resume(t, stk, k, j)
  BY <1>1, ValueDueAt
<1>6. Completes(t, <<s>> \o stk, "first", c + 1, j) <=>
        \E q \in Int : Sym(t, q - 1) = Closer(s) /\ Inner(t, s, c + 1, q - 1) /\ Resume(t, stk, q, j)
  BY <1>3 DEF Completes
<1> QED BY <1>4, <1>5, <1>6

LEMMA CloseExact ==
  ASSUME NEW t, NEW c, NEW stk, ReadingAt(t, c, stk), stk # <<>>, NEW j \in Int,
         NEW ex \in {"first", "after"}, Sym(t, c) = Closer(Head(stk))
  PROVE  Completes(t, stk, ex, c, j) <=> Completes(t, Tail(stk), AfterAt(Tail(stk)), c + 1, j)
<1>1. Completes(t, Tail(stk), AfterAt(Tail(stk)), c + 1, j) <=> Resume(t, Tail(stk), c + 1, j)
  BY DEF Completes, AfterAt
<1> QED BY <1>1, AtCloser

LEMMA NameExact ==
  ASSUME NEW t, NEW c, NEW stk, ReadingAt(t, c, stk), NEW ex, NameDueAt(stk, ex), NEW j \in Int,
         Sym(t, c) \in DOMAIN Decoded
  PROVE  Completes(t, stk, ex, c, j) <=> Completes(t, stk, "colon", c + 1, j)
<1>1. Sym(t, c) \notin {"}", "end of text"}
  BY WordsAreNoMarks DEF Marks, ValueTokens
<1>2. c \in 1 .. Len(t) /\ t[c] = Sym(t, c)
  BY <1>1, InText
<1>3. Completes(t, stk, ex, c, j) <=> \E k \in Int : ItemIs(t, "{", c, k) /\ Resume(t, stk, k, j)
  BY <1>1, NameDue
<1>4. (c + 1) + 1 = c + 2
  BY <1>2
<1>5. \A k : ItemIs(t, "{", c, k) <=> Sym(t, c + 1) = ":" /\ ValueIs(t, (c + 1) + 1, k)
  BY <1>2, <1>4 DEF ItemIs
<1>6. Completes(t, stk, "colon", c + 1, j) <=>
        Sym(t, c + 1) = ":" /\ \E k \in Int : ValueIs(t, (c + 1) + 1, k) /\ Resume(t, stk, k, j)
  BY DEF Completes
<1> QED BY <1>3, <1>5, <1>6

LEMMA ColonExact ==
  ASSUME NEW t, NEW c, NEW stk, NEW j, Sym(t, c) = ":"
  PROVE  Completes(t, stk, "colon", c, j) <=> Completes(t, stk, "value", c + 1, j)
  BY DEF Completes

LEMMA CommaExact ==
  ASSUME NEW t, NEW c, NEW stk, ReadingAt(t, c, stk), stk # <<>>, NEW j \in Int, Sym(t, c) = ","
  PROVE  Completes(t, stk, "after", c, j)
         <=> Completes(t, stk, IF Head(stk) = "{" THEN "name" ELSE "value", c + 1, j)
<1>1. c \in 1 .. Len(t) /\ c <= Len(t)
  <2>1. c \in 1 .. Len(t) /\ Len(t) \in Nat
    BY InText DEF ReadingAt
  <2> QED BY <2>1, Below0
<1>2. Completes(t, stk, "after", c, j)
         <=> \E k \in Int : ItemIs(t, Head(stk), c + 1, k) /\ Resume(t, stk, k, j)
  BY <1>1, AfterComma
<1>3. CASE Head(stk) = "{"
  BY <1>2, <1>3 DEF Completes
<1>4. CASE Head(stk) # "{"
  <2>1. \A k : ItemIs(t, Head(stk), c + 1, k) <=> ValueIs(t, c + 1, k)
    BY <1>4 DEF ItemIs
  <2> QED BY <1>2, <1>4, <2>1 DEF Completes
<1> QED BY <1>3, <1>4

-----------------------------------------------------------------------------
(* JSON: nesting.                                                          *)

Brackets(t, S, i, j) == {k \in i .. j - 1 : t[k] \in S}
Count(t, S, i, j) == Cardinality(Brackets(t, S, i, j))
Closing == {"}", "]"}
Nest(t, i) == Count(t, Opening, 1, i) - Count(t, Closing, 1, i)

LEMMA CountType ==
  ASSUME NEW t, NEW S, NEW i \in Int, NEW j \in Int
  PROVE  Count(t, S, i, j) \in Nat /\ IsFiniteSet(Brackets(t, S, i, j))
<1>1. IsFiniteSet(i .. j - 1)
  BY FS_Interval
<1>2. IsFiniteSet(Brackets(t, S, i, j))
  BY <1>1, FS_Subset DEF Brackets
<1> QED BY <1>2, FS_CardinalityType DEF Count

LEMMA CountSplit ==
  ASSUME NEW t, NEW S, NEW i \in Int, NEW m \in Int, NEW j \in Int, i <= m, m <= j
  PROVE  Count(t, S, i, j) = Count(t, S, i, m) + Count(t, S, m, j)
<1> DEFINE A == Brackets(t, S, i, m)
           B == Brackets(t, S, m, j)
<1>1. A \cup B = Brackets(t, S, i, j) /\ A \cap B = {}
  BY DEF Brackets
<1>2. IsFiniteSet(A) /\ IsFiniteSet(B)
  BY CountType
<1>3. Cardinality(A) \in Nat /\ Cardinality(B) \in Nat
  BY <1>2, FS_CardinalityType
<1> HIDE DEF A, B
<1>4. Cardinality(A \cup B) = Cardinality(A) + Cardinality(B) - Cardinality(A \cap B)
  BY <1>2, FS_Union
<1>5. Cardinality(A \cap B) = 0
  BY <1>1, FS_EmptySet
<1>6. Cardinality(A \cup B) = Cardinality(A) + Cardinality(B)
  BY <1>3, <1>4, <1>5
<1> QED BY <1>1, <1>6 DEF Count, A, B

LEMMA CountOne ==
  ASSUME NEW t, NEW S, NEW i \in Int
  PROVE  /\ Count(t, S, i, i) = 0
         /\ t[i] \in S => Count(t, S, i, i + 1) = 1
         /\ t[i] \notin S => Count(t, S, i, i + 1) = 0
<1>1. Brackets(t, S, i, i) = {}
  BY DEF Brackets
<1>2. i .. (i + 1) - 1 = {i}
  OBVIOUS
<1>3. t[i] \in S => Brackets(t, S, i, i + 1) = {i}
  BY <1>2 DEF Brackets
<1>4. t[i] \notin S => Brackets(t, S, i, i + 1) = {}
  BY <1>2 DEF Brackets
<1>5. Cardinality({i}) = 1 /\ Cardinality({}) = 0
  BY FS_EmptySet, FS_Singleton
<1> QED BY <1>1, <1>3, <1>4, <1>5 DEF Count

LEMMA NestStep ==
  ASSUME NEW t, NEW i \in Nat, 1 <= i
  PROVE  /\ Nest(t, i) \in Int /\ Nest(t, i + 1) \in Int
         /\ t[i] \in Opening => Nest(t, i + 1) = Nest(t, i) + 1
         /\ t[i] \in Closing => Nest(t, i + 1) = Nest(t, i) - 1
         /\ t[i] \notin Opening \union Closing => Nest(t, i + 1) = Nest(t, i)
<1> DEFINE o == Count(t, Opening, 1, i)
           o1 == Count(t, Opening, 1, i + 1)
           do == Count(t, Opening, i, i + 1)
           c == Count(t, Closing, 1, i)
           c1 == Count(t, Closing, 1, i + 1)
           dc == Count(t, Closing, i, i + 1)
<1>1. o1 = o + do /\ c1 = c + dc
  BY CountSplit
<1>2. o \in Nat /\ o1 \in Nat /\ c \in Nat /\ c1 \in Nat /\ do \in Nat /\ dc \in Nat
  BY CountType
<1>3. /\ t[i] \in Opening => do = 1
      /\ t[i] \notin Opening => do = 0
      /\ t[i] \in Closing => dc = 1
      /\ t[i] \notin Closing => dc = 0
  BY CountOne
<1>4. Opening \cap Closing = {}
  BY DEF Opening, Closing
<1>5. Nest(t, i) = o - c /\ Nest(t, i + 1) = o1 - c1
  BY DEF Nest
<1> HIDE DEF o, o1, do, c, c1, dc
<1>6. CASE t[i] \in Opening
  <2>1. do = 1 /\ dc = 0 /\ t[i] \notin Closing
    BY <1>3, <1>4, <1>6
  <2>2. Nest(t, i + 1) = Nest(t, i) + 1 /\ Nest(t, i) \in Int /\ Nest(t, i + 1) \in Int
    BY <1>1, <1>2, <1>5, <2>1
  <2> QED BY <1>6, <2>1, <2>2
<1>7. CASE t[i] \in Closing
  <2>1. do = 0 /\ dc = 1 /\ t[i] \notin Opening
    BY <1>3, <1>4, <1>7
  <2>2. Nest(t, i + 1) = Nest(t, i) - 1 /\ Nest(t, i) \in Int /\ Nest(t, i + 1) \in Int
    BY <1>1, <1>2, <1>5, <2>1
  <2> QED BY <1>7, <2>1, <2>2
<1>8. CASE t[i] \notin Opening \union Closing
  <2>1. do = 0 /\ dc = 0
    BY <1>3, <1>8
  <2>2. Nest(t, i + 1) = Nest(t, i) /\ Nest(t, i) \in Int /\ Nest(t, i + 1) \in Int
    BY <1>1, <1>2, <1>5, <2>1
  <2> QED BY <1>8, <2>2
<1> QED BY <1>6, <1>7, <1>8

LEMMA NestFirst == \A t : Nest(t, 1) = 0
<1>1. \A t : Count(t, Opening, 1, 1) = 0 /\ Count(t, Closing, 1, 1) = 0
  BY CountOne
<1> QED BY <1>1 DEF Nest

\* Words and the marks between items leave the nesting as it is.
LEMMA NestKeeps ==
  ASSUME NEW t, NEW i \in Nat, 1 <= i, t[i] \in ValueTokens \union {",", ":"}
  PROVE  Nest(t, i + 1) = Nest(t, i)
<1>1. t[i] \notin Opening \union Closing
  BY WordsAreNoMarks DEF Opening, Closing, Marks
<1> QED BY <1>1, NestStep

Within(t, i, j) == \A p \in i .. j : Nest(t, p) >= Nest(t, i)
Above(t, i, j) == \A p \in i + 1 .. j - 1 : Nest(t, p) > Nest(t, i)

LEMMA Balanced ==
  ASSUME NEW t, Len(t) \in Nat
  PROVE  /\ \A i, j \in Int : ValueIs(t, i, j) => Nest(t, j) = Nest(t, i) /\ Above(t, i, j)
         /\ \A s \in Opening : \A i, j \in Int :
              ItemsAre(t, s, i, j) => Nest(t, j) = Nest(t, i) /\ Within(t, i, j)
<1> DEFINE BadValue(n) == \E i, j \in Int : /\ n = 2 * (j - i) /\ ValueIs(t, i, j)
                                            /\ ~(Nest(t, j) = Nest(t, i) /\ Above(t, i, j))
           BadItems(n) == \E s \in Opening : \E i, j \in Int :
                            /\ n = 2 * (j - i) + 1 /\ ItemsAre(t, s, i, j)
                            /\ ~(Nest(t, j) = Nest(t, i) /\ Within(t, i, j))
           Bad == {n \in Nat : BadValue(n) \/ BadItems(n)}
<1>0. \A p \in Nat \ {0} : Nest(t, p) \in Int
  BY NestStep
<1>1. ASSUME Bad # {} PROVE FALSE
  <2>1. PICK n \in Bad : \A m \in Bad : n <= m
    <3>1. Bad \subseteq Nat
      OBVIOUS
    <3> HIDE DEF Bad
    <3> QED BY <1>1, <3>1, LeastElement
  <2>2. n \in Nat /\ (BadValue(n) \/ BadItems(n)) /\ \A m \in Nat : m < n => ~BadValue(m) /\ ~BadItems(m)
    BY <2>1
  <2> HIDE DEF Bad
  <2>3. ASSUME NEW i \in Int, NEW j \in Int, ValueIs(t, i, j), 2 * (j - i) < n
        PROVE  Nest(t, j) = Nest(t, i) /\ Above(t, i, j)
    <3>1. i \in 1 .. Len(t) /\ j \in i + 1 .. Len(t) + 1
      BY <2>3, ValueSpan
    <3>2. 2 * (j - i) \in Nat
      BY <3>1
    <3>3. ~BadValue(2 * (j - i))
      BY <2>2, <2>3, <3>2
    <3> QED BY <2>3, <3>3
  <2>4. ASSUME NEW s \in Opening, NEW i \in Int, NEW j \in Int, ItemsAre(t, s, i, j), 2 * (j - i) + 1 < n
        PROVE  Nest(t, j) = Nest(t, i) /\ Within(t, i, j)
    <3>1. i \in 1 .. Len(t) /\ j \in i + 1 .. Len(t) + 1
      BY <2>4, ItemsSpan
    <3>2. 2 * (j - i) + 1 \in Nat
      BY <3>1
    <3>3. ~BadItems(2 * (j - i) + 1)
      BY <2>2, <2>4, <3>2
    <3> QED BY <2>4, <3>3
  <2>5. ASSUME BadValue(n) PROVE FALSE
    <3>1. PICK i \in Int, j \in Int : /\ n = 2 * (j - i) /\ ValueIs(t, i, j)
                                      /\ ~(Nest(t, j) = Nest(t, i) /\ Above(t, i, j))
      BY <2>5
    <3> HIDE DEF BadValue, BadItems
    <3>2. i \in 1 .. Len(t) /\ j \in i + 1 .. Len(t) + 1 /\ i \in 1 .. Len(t) + 1 /\ j \in 1 .. Len(t) + 1
      <4>1. i \in 1 .. Len(t) /\ j \in i + 1 .. Len(t) + 1
        BY <3>1, ValueSpan
      <4> QED BY <4>1, <3>1 DEF ValueIs
    <3>3. i \in Nat /\ 1 <= i /\ j \in Nat /\ i + 1 <= j /\ 1 <= j - 1 /\ j - 1 \in Nat /\ (j - 1) + 1 = j
      BY <3>2
    <3>4. CASE j = i + 1 /\ t[i] \in ValueTokens
      <4>1. Nest(t, j) = Nest(t, i)
        BY <3>3, <3>4, NestKeeps
      <4>2. \A p \in i + 1 .. j - 1 : FALSE
        BY <3>3, <3>4
      <4> QED BY <3>1, <4>1, <4>2 DEF Above
    <3>5. CASE /\ t[i] \in Opening /\ j >= i + 2 /\ t[j - 1] = Closer(t[i])
               /\ Inner(t, t[i], i + 1, j - 1)
      <4>1. Nest(t, i + 1) = Nest(t, i) + 1
        BY <3>3, <3>5, NestStep
      <4>2. t[j - 1] \in Closing
        BY <3>5 DEF Closer, Closing
      <4>3. Nest(t, (j - 1) + 1) = Nest(t, j - 1) - 1
        BY <3>3, <4>2, NestStep
      <4>4. Nest(t, j - 1) = Nest(t, i + 1) /\ \A p \in i + 1 .. j - 1 : Nest(t, p) >= Nest(t, i + 1)
        <5>0. i + 1 \in Nat \ {0} /\ Nest(t, i + 1) \in Int
          BY <1>0, <3>3
        <5>1. CASE i + 1 = j - 1
          <6>1. \A p \in i + 1 .. j - 1 : p = i + 1
            BY <3>3, <5>1
          <6>2. Nest(t, i + 1) >= Nest(t, i + 1)
            BY <5>0
          <6> QED BY <5>1, <6>1, <6>2
        <5>2. CASE ItemsAre(t, t[i], i + 1, j - 1)
          <6>1. 2 * ((j - 1) - (i + 1)) + 1 < n /\ i + 1 \in Int /\ j - 1 \in Int
            BY <3>1, <3>3
          <6>2. Nest(t, j - 1) = Nest(t, i + 1) /\ Within(t, i + 1, j - 1)
            BY <2>4, <3>5, <5>2, <6>1
          <6> QED BY <6>2 DEF Within
        <5> QED BY <3>5, <5>1, <5>2 DEF Inner
      <4>5. Nest(t, i) \in Int /\ Nest(t, j - 1) \in Int
        BY <1>0, <3>3
      <4>6. Nest(t, j) = Nest(t, i)
        BY <3>3, <4>1, <4>3, <4>4, <4>5
      <4>7. ASSUME NEW p \in i + 1 .. j - 1 PROVE Nest(t, p) > Nest(t, i)
        <5>1. p \in Nat \ {0}
          BY <3>3
        <5>2. Nest(t, p) \in Int /\ Nest(t, p) >= Nest(t, i + 1)
          BY <1>0, <4>4, <5>1
        <5> QED BY <4>1, <4>5, <5>2
      <4> QED BY <3>1, <4>6, <4>7 DEF Above
    <3> QED BY <3>1, <3>2, <3>4, <3>5, ValueUnfold
  <2>6. ASSUME BadItems(n) PROVE FALSE
    <3>1. PICK s \in Opening, i \in Int, j \in Int :
                 /\ n = 2 * (j - i) + 1 /\ ItemsAre(t, s, i, j)
                 /\ ~(Nest(t, j) = Nest(t, i) /\ Within(t, i, j))
      BY <2>6
    <3> HIDE DEF BadValue, BadItems
    <3>2. i \in 1 .. Len(t) /\ j \in i + 1 .. Len(t) + 1
      BY <3>1, ItemsSpan
    <3>3. PICK k \in Int : ItemIs(t, s, i, k) /\ Rest(t, s, k, j)
      <4>1. i \in 1 .. Len(t) + 1 /\ j \in 1 .. Len(t) + 1
        BY <3>2
      <4> QED BY <3>1, <4>1, ItemsUnfold
    <3>4. i \in Nat /\ 1 <= i /\ k \in i + 1 .. Len(t) + 1
      <4>1. i \in Nat /\ 1 <= i
        BY <3>2
      <4> QED BY <3>3, <4>1, ItemSpan
    <3>5. k <= j
      <4>1. CASE k = j
        BY <3>4, <4>1
      <4>2. CASE ItemsAre(t, s, k + 1, j)
        <5>1. j \in (k + 1) + 1 .. Len(t) + 1
          BY <4>2, ItemsSpan
        <5> QED BY <3>4, <5>1
      <4> QED BY <3>3, <4>1, <4>2 DEF Rest
    <3>6. Nest(t, k) = Nest(t, i) /\ Within(t, i, k)
      <4>0. Nest(t, i) \in Int
        BY <1>0, <3>4
      <4>1. CASE s = "{"
        <5>1. t[i] \in DOMAIN Decoded /\ Sym(t, i + 1) = ":" /\ ValueIs(t, i + 2, k)
          BY <3>3, <4>1 DEF ItemIs
        <5>2. i + 2 \in 1 .. Len(t) /\ k \in (i + 2) + 1 .. Len(t) + 1
          BY <5>1, ValueSpan
        <5>3. t[i + 1] = ":"
          <6>1. i + 1 <= Len(t)
            BY <3>4, <5>2
          <6> QED BY <5>1, <6>1 DEF Sym
        <5>4. Nest(t, i + 1) = Nest(t, i)
          BY <3>4, <5>1, NestKeeps DEF ValueTokens
        <5>5. Nest(t, (i + 1) + 1) = Nest(t, i + 1)
          <6>1. i + 1 \in Nat /\ 1 <= i + 1
            BY <3>4
          <6> QED BY <5>3, <6>1, NestKeeps
        <5>6. (i + 1) + 1 = i + 2 /\ i + 2 \in Int
          BY <3>4
        <5>7. Nest(t, k) = Nest(t, i + 2) /\ Above(t, i + 2, k)
          <6>1. 2 * (k - (i + 2)) < n
            BY <3>1, <3>2, <3>4, <3>5
          <6> QED BY <2>3, <5>1, <5>6, <6>1
        <5>8. ASSUME NEW p \in i .. k PROVE Nest(t, p) >= Nest(t, i)
          <6>1. CASE p \in {i, i + 1, i + 2, k}
            <7>1. Nest(t, p) = Nest(t, i)
              BY <5>4, <5>5, <5>6, <5>7, <6>1
            <7> QED BY <4>0, <7>1
          <6>2. CASE p \notin {i, i + 1, i + 2, k}
            <7>1. p \in (i + 2) + 1 .. k - 1
              BY <3>4, <6>2
            <7>2. Nest(t, p) > Nest(t, i + 2)
              BY <5>7, <7>1 DEF Above
            <7>3. p \in Nat \ {0}
              BY <3>4
            <7>4. Nest(t, p) \in Int /\ Nest(t, i + 2) = Nest(t, i)
              BY <1>0, <5>4, <5>5, <5>6, <7>3
            <7> QED BY <4>0, <7>2, <7>4
          <6> QED BY <6>1, <6>2
        <5> QED BY <5>4, <5>5, <5>6, <5>7, <5>8 DEF Within
      <4>2. CASE s # "{"
        <5>1. ValueIs(t, i, k)
          BY <3>3, <4>2 DEF ItemIs
        <5>2. 2 * (k - i) < n
          BY <3>1, <3>2, <3>4, <3>5
        <5>3. Nest(t, k) = Nest(t, i) /\ Above(t, i, k)
          BY <2>3, <5>1, <5>2
        <5>4. ASSUME NEW p \in i .. k PROVE Nest(t, p) >= Nest(t, i)
          <6>1. CASE p \in {i, k}
            <7>1. Nest(t, p) = Nest(t, i)
              BY <5>3, <6>1
            <7> QED BY <4>0, <7>1
          <6>2. CASE p \notin {i, k}
            <7>1. p \in i + 1 .. k - 1 /\ p \in Nat \ {0}
              BY <3>4, <6>2
            <7>2. Nest(t, p) > Nest(t, i) /\ Nest(t, p) \in Int
              BY <1>0, <5>3, <7>1 DEF Above
            <7> QED BY <4>0, <7>2
          <6> QED BY <6>1, <6>2
        <5> QED BY <5>3, <5>4 DEF Within
      <4> QED BY <4>1, <4>2
    <3>7. CASE k = j
      BY <3>1, <3>6, <3>7
    <3>8. CASE t[k] = "," /\ ItemsAre(t, s, k + 1, j)
      <4>1. Nest(t, k + 1) = Nest(t, k)
        <5>1. k \in Nat /\ 1 <= k
          BY <3>4
        <5> QED BY <3>8, <5>1, NestKeeps
      <4>2. 2 * (j - (k + 1)) + 1 < n /\ k + 1 \in Int
        BY <3>1, <3>2, <3>4
      <4>3. Nest(t, j) = Nest(t, k + 1) /\ Within(t, k + 1, j)
        BY <2>4, <3>8, <4>2
      <4>4. ASSUME NEW p \in i .. j PROVE Nest(t, p) >= Nest(t, i)
        <5>1. CASE p \in i .. k
          BY <3>6, <5>1 DEF Within
        <5>2. CASE p \notin i .. k
          <6>1. p \in k + 1 .. j
            BY <3>2, <3>4, <5>2
          <6> QED BY <3>6, <4>1, <4>3, <6>1 DEF Within
        <5> QED BY <5>1, <5>2
      <4> QED BY <3>1, <3>6, <4>1, <4>3, <4>4 DEF Within
    <3> QED BY <3>3, <3>7, <3>8 DEF Rest
  <2> QED BY <2>2, <2>5, <2>6
<1>2. ASSUME NEW i \in Int, NEW j \in Int, ValueIs(t, i, j)
      PROVE  Nest(t, j) = Nest(t, i) /\ Above(t, i, j)
  <2>1. i \in 1 .. Len(t) /\ j \in i + 1 .. Len(t) + 1
    BY <1>2, ValueSpan
  <2>2. 2 * (j - i) \in Nat
    BY <2>1
  <2>3. ~BadValue(2 * (j - i))
    BY <1>1, <2>2
  <2> QED BY <1>2, <2>3
<1>3. ASSUME NEW s \in Opening, NEW i \in Int, NEW j \in Int, ItemsAre(t, s, i, j)
      PROVE  Nest(t, j) = Nest(t, i) /\ Within(t, i, j)
  <2>1. i \in 1 .. Len(t) /\ j \in i + 1 .. Len(t) + 1
    BY <1>3, ItemsSpan
  <2>2. 2 * (j - i) + 1 \in Nat
    BY <2>1
  <2>3. ~BadItems(2 * (j - i) + 1)
    BY <1>1, <2>2
  <2> QED BY <1>3, <2>3
<1> QED BY <1>2, <1>3

-----------------------------------------------------------------------------
(* JSON: the state of the parser and what it has read.                     *)

\* What is open, where, and how deep.
Shape(t, c, stk, ex) ==
  /\ ReadingAt(t, c, stk)
  /\ ex \in {"value", "first", "after", "name", "colon", "end"}
  /\ ex \in {"first", "after", "name", "colon"} => stk # <<>>
  /\ ex = "end" => stk = <<>>
  /\ ex \in {"name", "colon"} => Head(stk) = "{"
  /\ ex = "value" /\ stk = <<>> => c = 1
  /\ ex = "colon" => c - 1 \in 1 .. Len(t) /\ t[c - 1] \in DOMAIN Decoded
  /\ Nest(t, c) = Len(stk)

\* What is still expected completes exactly what the grammar allows.
Exact(t, c, stk, ex) == \A j \in Int : Completes(t, stk, ex, c, j) <=> ValueIs(t, 1, j)

\* A header opens no container at the limit.
HeaderFits(t, c) == \A i \in 1 .. c - 1 : t[i] \in Opening => Nest(t, i) < MaxDepth

\* A request has no value at the limit, except that it waits for one.
RequestFits(t, c, stk, ex) ==
  /\ c >= 2 => t[1] = "{"
  /\ Len(stk) <= MaxDepth + 2
  /\ \/ Len(stk) = MaxDepth + 2 /\ ex \in {"colon", "value"}
     \/ /\ Len(stk) = MaxDepth + 2 => ex = "first"
        /\ \A i \in 1 .. c - 1 : Nest(t, i) > MaxDepth + 1 => t[i] \in Closing

\* The names of the outermost object that were read, and those of the text.
IsNameAt(t, i) == t[i] \in DOMAIN Decoded /\ Sym(t, i + 1) = ":"
KeysOf(t) == {i \in 1 .. Len(t) : IsNameAt(t, i) /\ Nest(t, i) = 1}
Done(t, c, stk, ex) ==
  {i \in KeysOf(t) : i + 1 < c} \cup {i \in 1 .. Len(t) : i + 1 = c /\ ex = "colon" /\ Len(stk) = 1}
Different(t, D) ==
  \A i, k \in D : t[i] \notin LongNames /\ (i # k => Decoded[t[i]] # Decoded[t[k]])
KeysFit(t, c, stk, ex, ks) ==
  /\ ks = {Decoded[t[i]] : i \in Done(t, c, stk, ex)}
  /\ Different(t, Done(t, c, stk, ex))
  /\ Cardinality(Done(t, c, stk, ex)) <= KeyLimit

Parse(t, dia, c, stk, ex, dep, ks) ==
  /\ Shape(t, c, stk, ex) /\ Exact(t, c, stk, ex) /\ dep = Len(stk)
  /\ dia = "header" => HeaderFits(t, c)
  /\ dia = "request" => RequestFits(t, c, stk, ex) /\ KeysFit(t, c, stk, ex, ks)

\* The documents a reader is meant to take.
LegalAt(t, dia, j) ==
  /\ ValueIs(t, 1, j)
  /\ dia = "header" => HeaderFits(t, j)
  /\ dia = "request" =>
       /\ t[1] = "{" /\ j = Len(t) + 1
       /\ \A i \in 1 .. j - 1 : Nest(t, i) > MaxDepth + 1 => t[i] \in Closing \/ IsNameAt(t, i)
       /\ Cardinality(KeysOf(t)) <= KeyLimit
       /\ Different(t, KeysOf(t))

LEMMA NestIsInt == \A t : \A i \in Nat \ {0} : Nest(t, i) \in Int
  BY NestStep

LEMMA HeaderStep ==
  ASSUME NEW t, NEW c \in Nat, 1 <= c, HeaderFits(t, c), t[c] \in Opening => Nest(t, c) < MaxDepth
  PROVE  HeaderFits(t, c + 1)
<1>1. ASSUME NEW i \in 1 .. (c + 1) - 1, t[i] \in Opening PROVE Nest(t, i) < MaxDepth
  <2>1. CASE i = c
    BY <1>1, <2>1
  <2>2. CASE i # c
    <3>1. i \in 1 .. c - 1
      BY <2>2
    <3> QED BY <1>1, <3>1 DEF HeaderFits
  <2> QED BY <2>1, <2>2
<1> QED BY <1>1 DEF HeaderFits

\* The innermost container, and the nesting after a token.
LEMMA StackFacts ==
  ASSUME NEW stk \in Seq(Opening)
  PROVE  /\ Len(stk) \in Nat
         /\ stk = <<>> <=> Len(stk) = 0
         /\ \A s \in Opening : /\ <<s>> \o stk \in Seq(Opening) /\ <<s>> \o stk # <<>>
                               /\ Len(<<s>> \o stk) = Len(stk) + 1
                               /\ Head(<<s>> \o stk) = s /\ Tail(<<s>> \o stk) = stk
         /\ stk # <<>> => Tail(stk) \in Seq(Opening) /\ Len(Tail(stk)) = Len(stk) - 1 /\ Head(stk) \in Opening
  OBVIOUS

LEMMA ShapeNow ==
  ASSUME NEW t, NEW c, NEW stk, NEW ex, Shape(t, c, stk, ex)
  PROVE  /\ ReadingAt(t, c, stk) /\ Len(t) \in Nat /\ c \in 1 .. Len(t) + 1 /\ c \in Nat /\ 1 <= c
         /\ stk \in Seq(Opening) /\ Len(stk) \in Nat /\ Nest(t, c) = Len(stk)
         /\ stk # <<>> => c >= 2
<1>1. ReadingAt(t, c, stk) /\ Nest(t, c) = Len(stk)
  BY DEF Shape
<1>2. Len(t) \in Nat /\ c \in 1 .. Len(t) + 1 /\ stk \in Seq(Opening)
  BY <1>1 DEF ReadingAt
<1>3. c \in Nat /\ 1 <= c
  BY <1>2
<1>4. stk # <<>> => c >= 2
  <2>1. stk # <<>> => Len(stk) # 0 /\ Nest(t, 1) = 0
    BY <1>2, NestFirst, StackFacts
  <2>2. stk # <<>> => c # 1
    BY <1>1, <2>1
  <2> QED BY <1>3, <2>2
<1> QED BY <1>1, <1>2, <1>3, <1>4, StackFacts

LEMMA ShapeScalar ==
  ASSUME NEW t, NEW c, NEW stk, NEW ex, Shape(t, c, stk, ex), Sym(t, c) \in ValueTokens
  PROVE  Shape(t, c + 1, stk, AfterAt(stk))
<1>1. ReadingAt(t, c + 1, stk) /\ t[c] = Sym(t, c)
  BY ShapeNow, InText, WordsAreNoMarks DEF Marks
<1>2. Nest(t, c + 1) = Len(stk)
  BY <1>1, ShapeNow, NestKeeps
<1> QED BY <1>1, <1>2 DEF Shape, AfterAt

LEMMA ShapeOpen ==
  ASSUME NEW t, NEW c, NEW stk, NEW ex, Shape(t, c, stk, ex), NEW s \in Opening, Sym(t, c) = s
  PROVE  Shape(t, c + 1, <<s>> \o stk, "first")
<1>1. ReadingAt(t, c + 1, stk) /\ t[c] = s
  BY ShapeNow, InText, WordsAreNoMarks DEF Marks, Opening
<1>2. Nest(t, c + 1) = Len(stk) + 1
  BY <1>1, ShapeNow, NestStep
<1>3. stk \in Seq(Opening)
  BY ShapeNow
<1>4. /\ <<s>> \o stk \in Seq(Opening) /\ <<s>> \o stk # <<>>
      /\ Len(<<s>> \o stk) = Len(stk) + 1
  BY <1>3, StackFacts
<1>5. ReadingAt(t, c + 1, <<s>> \o stk)
  BY <1>1, <1>4 DEF ReadingAt
<1> QED BY <1>2, <1>4, <1>5 DEF Shape

LEMMA ShapeClose ==
  ASSUME NEW t, NEW c, NEW stk, NEW ex, Shape(t, c, stk, ex), stk # <<>>, Sym(t, c) = Closer(Head(stk))
  PROVE  /\ Shape(t, c + 1, Tail(stk), AfterAt(Tail(stk)))
         /\ t[c] \in Closing
<1>1. Sym(t, c) \in Closing
  BY DEF Closer, Closing
<1>2. ReadingAt(t, c + 1, stk) /\ t[c] = Sym(t, c)
  BY <1>1, ShapeNow, InText DEF Closing
<1>3. Nest(t, c + 1) = Len(stk) - 1
  <2>1. t[c] \in Closing
    BY <1>1, <1>2
  <2>2. c \in Nat /\ 1 <= c /\ Nest(t, c) = Len(stk)
    BY ShapeNow
  <2>3. Nest(t, c + 1) = Nest(t, c) - 1
    BY <2>1, <2>2, NestStep
  <2> QED BY <2>2, <2>3
<1>4. stk \in Seq(Opening)
  BY ShapeNow
<1>5. Tail(stk) \in Seq(Opening) /\ Len(Tail(stk)) = Len(stk) - 1
  BY <1>4, StackFacts
<1>6. ReadingAt(t, c + 1, Tail(stk))
  BY <1>2, <1>5 DEF ReadingAt
<1> QED BY <1>1, <1>2, <1>3, <1>5, <1>6 DEF Shape, AfterAt

LEMMA ShapeName ==
  ASSUME NEW t, NEW c, NEW stk, NEW ex, Shape(t, c, stk, ex), NameDueAt(stk, ex), Sym(t, c) \in DOMAIN Decoded
  PROVE  /\ Shape(t, c + 1, stk, "colon")
         /\ c \in 1 .. Len(t) /\ t[c] = Sym(t, c)
<1>1. ReadingAt(t, c + 1, stk) /\ t[c] = Sym(t, c) /\ c \in 1 .. Len(t)
  BY ShapeNow, InText, WordsAreNoMarks DEF Marks, ValueTokens
<1>2. Nest(t, c + 1) = Len(stk)
  BY <1>1, ShapeNow, NestKeeps DEF ValueTokens
<1>3. (c + 1) - 1 = c
  BY ShapeNow
<1> QED BY <1>1, <1>2, <1>3 DEF Shape, NameDueAt

LEMMA ShapeMark ==
  ASSUME NEW t, NEW c, NEW stk, NEW ex, Shape(t, c, stk, ex), stk # <<>>, Sym(t, c) \in {",", ":"},
         NEW to \in {"name", "value"}, to = "name" => Head(stk) = "{"
  PROVE  /\ Shape(t, c + 1, stk, to)
         /\ c \in 1 .. Len(t) /\ t[c] = Sym(t, c)
<1>1. ReadingAt(t, c + 1, stk) /\ t[c] = Sym(t, c) /\ c \in 1 .. Len(t)
  BY ShapeNow, InText
<1>2. Nest(t, c + 1) = Len(stk)
  BY <1>1, ShapeNow, NestKeeps
<1> QED BY <1>1, <1>2 DEF Shape

LEMMA Limits == KeyLimit \in Nat /\ MaxDepth \in Nat
  BY JsonAssumption

LEMMA AtLimit ==
  ASSUME NEW n \in Nat
  PROVE  /\ n <= MaxDepth + 1 => n # MaxDepth + 2 /\ ~(n > MaxDepth + 1) /\ n + 1 <= MaxDepth + 2
                                  /\ n <= MaxDepth + 2
         /\ n <= MaxDepth + 2 /\ n # MaxDepth + 2 => n <= MaxDepth + 1 /\ ~(n > MaxDepth + 1)
         /\ n <= MaxDepth + 2 => n - 1 # MaxDepth + 2 /\ n - 1 <= MaxDepth + 2
  BY Limits

LEMMA IsOne == \A n \in Nat : 1 <= n /\ ~(n >= 2) => n = 1
  OBVIOUS

LEMMA ShapeInside ==
  ASSUME NEW t, NEW c, NEW stk, NEW ex, Shape(t, c, stk, ex), stk # <<>>
  PROVE  /\ c \in Nat /\ 1 <= c /\ c >= 2 /\ Len(stk) \in Nat /\ Nest(t, c) = Len(stk)
         /\ stk \in Seq(Opening)
  BY ShapeNow

\* A token of a request that is a bracket that closes, or is not at the limit.
LEMMA RequestStep ==
  ASSUME NEW t, NEW c \in Nat, 1 <= c,
         \A i \in 1 .. c - 1 : Nest(t, i) > MaxDepth + 1 => t[i] \in Closing,
         Nest(t, c) > MaxDepth + 1 => t[c] \in Closing
  PROVE  \A i \in 1 .. (c + 1) - 1 : Nest(t, i) > MaxDepth + 1 => t[i] \in Closing
<1>1. ASSUME NEW i \in 1 .. (c + 1) - 1, Nest(t, i) > MaxDepth + 1 PROVE t[i] \in Closing
  <2>1. CASE i = c
    BY <1>1, <2>1
  <2>2. CASE i # c
    <3>1. i \in 1 .. c - 1
      BY <2>2
    <3> QED BY <1>1, <3>1
  <2> QED BY <2>1, <2>2
<1> QED BY <1>1

LEMMA RequestNow ==
  ASSUME NEW t, NEW c, NEW stk, NEW ex, RequestFits(t, c, stk, ex), ex \notin {"colon", "value"} \/ Len(stk) # MaxDepth + 2
  PROVE  /\ Len(stk) <= MaxDepth + 2
         /\ Len(stk) = MaxDepth + 2 => ex = "first"
         /\ \A i \in 1 .. c - 1 : Nest(t, i) > MaxDepth + 1 => t[i] \in Closing
  BY DEF RequestFits

\* A scalar, a bracket that opens: only where it may nest.
LEMMA RequestScalar ==
  ASSUME NEW t, NEW c, NEW stk, NEW ex, Shape(t, c, stk, ex), RequestFits(t, c, stk, ex),
         Len(stk) <= MaxDepth + 1, stk # <<>>
  PROVE  RequestFits(t, c + 1, stk, AfterAt(stk))
<1>1. /\ c \in Nat /\ 1 <= c /\ c >= 2 /\ Len(stk) \in Nat /\ Nest(t, c) = Len(stk)
  BY ShapeInside
<1>2. Len(stk) # MaxDepth + 2 /\ ~(Nest(t, c) > MaxDepth + 1) /\ Len(stk) <= MaxDepth + 2
  BY <1>1, AtLimit
<1>3. \A i \in 1 .. c - 1 : Nest(t, i) > MaxDepth + 1 => t[i] \in Closing
  BY <1>2, RequestNow
<1>4. \A i \in 1 .. (c + 1) - 1 : Nest(t, i) > MaxDepth + 1 => t[i] \in Closing
  BY <1>1, <1>2, <1>3, RequestStep
<1>5. t[1] = "{"
  BY <1>1 DEF RequestFits
<1> QED BY <1>2, <1>4, <1>5 DEF RequestFits

LEMMA RequestOpen ==
  ASSUME NEW t, NEW c, NEW stk, NEW ex, Shape(t, c, stk, ex), RequestFits(t, c, stk, ex),
         NEW s \in Opening, Len(stk) <= MaxDepth + 1, stk = <<>> => t[c] = "{"
  PROVE  RequestFits(t, c + 1, <<s>> \o stk, "first")
<1>1. /\ c \in Nat /\ 1 <= c /\ Len(stk) \in Nat /\ Nest(t, c) = Len(stk)
      /\ stk \in Seq(Opening)
  BY ShapeNow
<1>2. Len(stk) # MaxDepth + 2 /\ ~(Nest(t, c) > MaxDepth + 1) /\ Len(stk) + 1 <= MaxDepth + 2
  BY <1>1, AtLimit
<1>3. \A i \in 1 .. c - 1 : Nest(t, i) > MaxDepth + 1 => t[i] \in Closing
  BY <1>2, RequestNow
<1>4. \A i \in 1 .. (c + 1) - 1 : Nest(t, i) > MaxDepth + 1 => t[i] \in Closing
  BY <1>1, <1>2, <1>3, RequestStep
<1>5. t[1] = "{"
  <2>1. CASE c >= 2
    BY <2>1 DEF RequestFits
  <2>2. CASE ~(c >= 2)
    <3>1. stk = <<>>
      BY <2>2, ShapeInside
    <3>2. c = 1
      BY <1>1, <2>2, IsOne
    <3> QED BY <3>1, <3>2
  <2> QED BY <2>1, <2>2
<1>6. Len(<<s>> \o stk) = Len(stk) + 1
  BY <1>1, StackFacts
<1> QED BY <1>2, <1>4, <1>5, <1>6 DEF RequestFits

LEMMA RequestClose ==
  ASSUME NEW t, NEW c, NEW stk, NEW ex \in {"first", "after"}, Shape(t, c, stk, ex),
         RequestFits(t, c, stk, ex), stk # <<>>, t[c] \in Closing, NEW to
  PROVE  RequestFits(t, c + 1, Tail(stk), to)
<1>1. /\ c \in Nat /\ 1 <= c /\ c >= 2 /\ Len(stk) \in Nat /\ stk \in Seq(Opening)
  BY ShapeInside
<1>2. Len(stk) <= MaxDepth + 2 /\ \A i \in 1 .. c - 1 : Nest(t, i) > MaxDepth + 1 => t[i] \in Closing
  BY RequestNow
<1>3. Len(Tail(stk)) = Len(stk) - 1
  BY <1>1, StackFacts
<1>4. Len(Tail(stk)) # MaxDepth + 2 /\ Len(Tail(stk)) <= MaxDepth + 2
  BY <1>1, <1>2, <1>3, AtLimit
<1>5. \A i \in 1 .. (c + 1) - 1 : Nest(t, i) > MaxDepth + 1 => t[i] \in Closing
  BY <1>1, <1>2, RequestStep
<1>6. t[1] = "{"
  BY <1>1 DEF RequestFits
<1> QED BY <1>4, <1>5, <1>6 DEF RequestFits

LEMMA RequestName ==
  ASSUME NEW t, NEW c, NEW stk, NEW ex, Shape(t, c, stk, ex), NameDueAt(stk, ex),
         RequestFits(t, c, stk, ex)
  PROVE  RequestFits(t, c + 1, stk, "colon")
<1>1. /\ c \in Nat /\ 1 <= c /\ c >= 2 /\ Len(stk) \in Nat /\ Nest(t, c) = Len(stk)
  BY ShapeInside DEF NameDueAt
<1>2. Len(stk) <= MaxDepth + 2 /\ \A i \in 1 .. c - 1 : Nest(t, i) > MaxDepth + 1 => t[i] \in Closing
  BY RequestNow DEF NameDueAt
<1>3. t[1] = "{"
  BY <1>1 DEF RequestFits
<1>4. CASE Len(stk) = MaxDepth + 2
  BY <1>2, <1>3, <1>4 DEF RequestFits
<1>5. CASE Len(stk) # MaxDepth + 2
  <2>1. ~(Nest(t, c) > MaxDepth + 1)
    BY <1>1, <1>2, <1>5, AtLimit
  <2>2. \A i \in 1 .. (c + 1) - 1 : Nest(t, i) > MaxDepth + 1 => t[i] \in Closing
    BY <1>1, <1>2, <2>1, RequestStep
  <2> QED BY <1>2, <1>3, <1>5, <2>2 DEF RequestFits
<1> QED BY <1>4, <1>5

LEMMA RequestColon ==
  ASSUME NEW t, NEW c, NEW stk, Shape(t, c, stk, "colon"), RequestFits(t, c, stk, "colon")
  PROVE  RequestFits(t, c + 1, stk, "value")
<1>1. /\ c \in Nat /\ 1 <= c /\ c >= 2 /\ Len(stk) \in Nat /\ Nest(t, c) = Len(stk)
  BY ShapeInside DEF Shape
<1>2. t[1] = "{" /\ Len(stk) <= MaxDepth + 2
  BY <1>1 DEF RequestFits
<1>4. CASE Len(stk) = MaxDepth + 2
  BY <1>2, <1>4 DEF RequestFits
<1>5. CASE Len(stk) # MaxDepth + 2
  <2>1. ~(Nest(t, c) > MaxDepth + 1)
    BY <1>1, <1>2, <1>5, AtLimit
  <2>2. \A i \in 1 .. c - 1 : Nest(t, i) > MaxDepth + 1 => t[i] \in Closing
    BY <1>5, RequestNow
  <2>3. \A i \in 1 .. (c + 1) - 1 : Nest(t, i) > MaxDepth + 1 => t[i] \in Closing
    BY <1>1, <2>1, <2>2, RequestStep
  <2> QED BY <1>2, <1>5, <2>3 DEF RequestFits
<1> QED BY <1>4, <1>5

LEMMA RequestComma ==
  ASSUME NEW t, NEW c, NEW stk, Shape(t, c, stk, "after"), RequestFits(t, c, stk, "after"), NEW to
  PROVE  RequestFits(t, c + 1, stk, to)
<1>1. /\ c \in Nat /\ 1 <= c /\ c >= 2 /\ Len(stk) \in Nat /\ Nest(t, c) = Len(stk)
  BY ShapeInside DEF Shape
<1>2. t[1] = "{" /\ Len(stk) <= MaxDepth + 2
  BY <1>1 DEF RequestFits
<1>3. /\ Len(stk) # MaxDepth + 2
      /\ \A i \in 1 .. c - 1 : Nest(t, i) > MaxDepth + 1 => t[i] \in Closing
  BY RequestNow
<1>4. ~(Nest(t, c) > MaxDepth + 1)
  BY <1>1, <1>2, <1>3, AtLimit
<1>5. \A i \in 1 .. (c + 1) - 1 : Nest(t, i) > MaxDepth + 1 => t[i] \in Closing
  BY <1>1, <1>3, <1>4, RequestStep
<1> QED BY <1>2, <1>3, <1>5 DEF RequestFits

-----------------------------------------------------------------------------
(* JSON: the names of the outermost object.                                *)

LEMMA DoneInKeys ==
  ASSUME NEW t, NEW c, NEW stk, NEW ex, Len(t) \in Nat
  PROVE  /\ IsFiniteSet(Done(t, c, stk, ex)) /\ Done(t, c, stk, ex) \subseteq 1 .. Len(t)
         /\ IsFiniteSet(KeysOf(t)) /\ KeysOf(t) \subseteq 1 .. Len(t)
<1>1. IsFiniteSet(1 .. Len(t))
  BY FS_Interval
<1>2. Done(t, c, stk, ex) \subseteq 1 .. Len(t) /\ KeysOf(t) \subseteq 1 .. Len(t)
  BY DEF Done, KeysOf
<1> QED BY <1>1, <1>2, FS_Subset

\* No name twice: as many names as places.
LEMMA NamesCounted ==
  ASSUME NEW t, NEW D, IsFiniteSet(D), Different(t, D)
  PROVE  /\ Cardinality({Decoded[t[i]] : i \in D}) = Cardinality(D)
         /\ Cardinality(D) \in Nat
<1> DEFINE V == {Decoded[t[i]] : i \in D}
           f == [i \in D |-> Decoded[t[i]]]
<1>1. f \in Bijection(D, V)
  <2>1. f \in [D -> V]
    OBVIOUS
  <2>2. \A i, k \in D : f[i] = f[k] => i = k
    BY DEF Different
  <2>3. \A v \in V : \E i \in D : f[i] = v
    OBVIOUS
  <2> HIDE DEF f, V
  <2>4. f \in Injection(D, V)
    BY <2>1, <2>2, Fun_IsInj
  <2>5. f \in Surjection(D, V)
    BY <2>1, <2>3, Fun_IsSurj
  <2> QED BY <2>4, <2>5, Fun_IsBij
<1>2. ExistsBijection(D, V)
  BY <1>1, Fun_ExistsBij
<1> HIDE DEF V
<1>3. Cardinality(V) = Cardinality(D)
  BY <1>2, FS_Bijection
<1> QED BY <1>3, FS_CardinalityType DEF V

\* A token that is neither a name nor a colon.
LEMMA DoneStays ==
  ASSUME NEW t, NEW c \in Nat, NEW stk, NEW ex, ex # "colon", NEW to, NEW rest, to # "colon" \/ Len(rest) # 1,
         Len(t) \in Nat, Sym(t, c) # ":"
  PROVE  Done(t, c + 1, rest, to) = Done(t, c, stk, ex)
<1>1. ASSUME NEW i \in KeysOf(t) PROVE i + 1 < c + 1 <=> i + 1 < c
  <2>1. i \in 1 .. Len(t) /\ Sym(t, i + 1) = ":"
    BY DEF KeysOf, IsNameAt
  <2>2. i + 1 # c
    BY <2>1
  <2> QED BY <2>1, <2>2
<1>2. Done(t, c, stk, ex) = {i \in KeysOf(t) : i + 1 < c}
  BY DEF Done
<1>3. Done(t, c + 1, rest, to) = {i \in KeysOf(t) : i + 1 < c + 1}
  BY DEF Done
<1> QED BY <1>1, <1>2, <1>3

LEMMA KeysStay ==
  ASSUME NEW t, NEW c \in Nat, NEW stk, NEW ex, ex # "colon", NEW to, NEW rest, to # "colon" \/ Len(rest) # 1,
         Len(t) \in Nat, Sym(t, c) # ":", NEW ks, KeysFit(t, c, stk, ex, ks)
  PROVE  KeysFit(t, c + 1, rest, to, ks)
<1>1. Done(t, c + 1, rest, to) = Done(t, c, stk, ex)
  BY DoneStays
<1> QED BY <1>1 DEF KeysFit

\* The colon after a name.
LEMMA KeysColon ==
  ASSUME NEW t, NEW c, NEW stk, Shape(t, c, stk, "colon"), Sym(t, c) = ":",
         NEW ks, KeysFit(t, c, stk, "colon", ks)
  PROVE  KeysFit(t, c + 1, stk, "value", ks)
<1>1. /\ c \in Nat /\ Nest(t, c) = Len(stk) /\ Len(t) \in Nat
      /\ c - 1 \in 1 .. Len(t) /\ t[c - 1] \in DOMAIN Decoded
  BY ShapeNow DEF Shape
<1>2. c - 1 \in Nat /\ 1 <= c - 1 /\ (c - 1) + 1 = c
  BY <1>1
<1>3. Nest(t, c - 1) = Len(stk)
  <2>1. t[c - 1] \in ValueTokens \union {",", ":"}
    BY <1>1 DEF ValueTokens
  <2>2. Nest(t, (c - 1) + 1) = Nest(t, c - 1)
    BY <1>2, <2>1, NestKeeps
  <2> QED BY <1>1, <1>2, <2>2
<1>4. IsNameAt(t, c - 1)
  BY <1>1, <1>2 DEF IsNameAt
<1>5. c - 1 \in KeysOf(t) <=> Len(stk) = 1
  BY <1>1, <1>3, <1>4 DEF KeysOf
<1>6. Done(t, c + 1, stk, "value") = {i \in KeysOf(t) : i + 1 < c + 1}
  BY DEF Done
<1>7. Done(t, c, stk, "colon") = {i \in KeysOf(t) : i + 1 < c} \cup {i \in 1 .. Len(t) : i + 1 = c /\ Len(stk) = 1}
  BY DEF Done
<1>8. ASSUME NEW i \in 1 .. Len(t)
      PROVE  /\ i + 1 < c + 1 <=> i + 1 < c \/ i = c - 1
             /\ i + 1 = c <=> i = c - 1
  BY <1>1
<1>9. KeysOf(t) \subseteq 1 .. Len(t)
  BY DEF KeysOf
<1>10. Done(t, c + 1, stk, "value") = Done(t, c, stk, "colon")
  BY <1>1, <1>5, <1>6, <1>7, <1>8, <1>9
<1> QED BY <1>10 DEF KeysFit

\* A name of the outermost object that is new.
LEMMA KeysName ==
  ASSUME NEW t, NEW c, NEW stk, NEW ex, Shape(t, c, stk, ex), ex # "colon", Len(stk) = 1,
         c \in 1 .. Len(t), t[c] \in DOMAIN Decoded, t[c] = Sym(t, c),
         NEW ks, KeysFit(t, c, stk, ex, ks), Cardinality(ks) < KeyLimit,
         t[c] \notin LongNames, Decoded[t[c]] \notin ks
  PROVE  KeysFit(t, c + 1, stk, "colon", ks \union {Decoded[t[c]]})
<1> DEFINE D == Done(t, c, stk, ex)
           E == Done(t, c + 1, stk, "colon")
<1>1. Len(t) \in Nat /\ c \in Nat
  BY ShapeNow
<1>2. Sym(t, c) # ":"
  BY WordsAreNoMarks DEF ValueTokens, Marks
<1>3. D = {i \in KeysOf(t) : i + 1 < c}
  BY DEF Done
<1>4. E = {i \in KeysOf(t) : i + 1 < c + 1} \cup {i \in 1 .. Len(t) : i + 1 = c + 1}
  BY DEF Done
<1>5. ASSUME NEW i \in KeysOf(t) PROVE i + 1 < c + 1 <=> i + 1 < c
  <2>1. i \in 1 .. Len(t) /\ Sym(t, i + 1) = ":"
    BY DEF KeysOf, IsNameAt
  <2>2. i + 1 # c
    BY <1>2, <2>1
  <2> QED BY <1>1, <2>1, <2>2
<1>6. \A i \in 1 .. Len(t) : i + 1 = c + 1 <=> i = c
  BY <1>1
<1>7. E = D \cup {c} /\ c \notin D
  <2>1. E = D \cup {c}
    BY <1>3, <1>4, <1>5, <1>6
  <2>2. ~(c + 1 < c)
    BY <1>1
  <2> QED BY <1>3, <2>1, <2>2
<1>8. /\ ks = {Decoded[t[i]] : i \in D} /\ Different(t, D) /\ Cardinality(D) <= KeyLimit
  BY DEF KeysFit
<1>9. IsFiniteSet(D)
  BY <1>1, DoneInKeys
<1> HIDE DEF D, E
<1>10. Cardinality(ks) = Cardinality(D) /\ Cardinality(D) \in Nat
  BY <1>8, <1>9, NamesCounted
<1>11. Cardinality(E) = Cardinality(D) + 1
  BY <1>7, <1>9, FS_AddElement
<1>12. Cardinality(E) <= KeyLimit
  BY <1>10, <1>11, Limits
<1>13. ks \union {Decoded[t[c]]} = {Decoded[t[i]] : i \in E}
  BY <1>7, <1>8
<1>14. Different(t, E)
  BY <1>7, <1>8 DEF Different
<1> QED BY <1>12, <1>13, <1>14 DEF KeysFit, E

\* At the end of the text every name was read.
LEMMA AllDone ==
  ASSUME NEW t, Len(t) \in Nat, NEW stk, NEW ex, ex # "colon"
  PROVE  Done(t, Len(t) + 1, stk, ex) = KeysOf(t)
<1>1. ASSUME NEW i \in KeysOf(t) PROVE i + 1 < Len(t) + 1
  <2>1. i \in 1 .. Len(t) /\ Sym(t, i + 1) = ":"
    BY DEF KeysOf, IsNameAt
  <2>2. i + 1 <= Len(t)
    BY <2>1 DEF Sym
  <2> QED BY <2>1, <2>2
<1> QED BY <1>1 DEF Done

-----------------------------------------------------------------------------
(* JSON: each action keeps the state of the parser exact.                  *)

LEMMA ParseNow ==
  ASSUME NEW t, NEW dia, NEW c, NEW stk, NEW ex, NEW dep, NEW ks, Parse(t, dia, c, stk, ex, dep, ks)
  PROVE  /\ Shape(t, c, stk, ex) /\ Exact(t, c, stk, ex) /\ dep = Len(stk)
         /\ dia = "header" => HeaderFits(t, c)
         /\ dia = "request" => RequestFits(t, c, stk, ex) /\ KeysFit(t, c, stk, ex, ks)
         /\ ReadingAt(t, c, stk) /\ c \in Nat /\ 1 <= c /\ Len(t) \in Nat /\ stk \in Seq(Opening)
         /\ Len(stk) \in Nat /\ Nest(t, c) = Len(stk)
  BY ShapeNow DEF Parse

LEMMA ParseScalar ==
  ASSUME NEW t, NEW dia, NEW c, NEW stk, NEW ex, NEW dep, NEW ks, Parse(t, dia, c, stk, ex, dep, ks),
         DueAt(stk, ex), Sym(t, c) \in ValueTokens,
         dia = "request" => Len(stk) <= MaxDepth + 1 /\ stk # <<>>
  PROVE  Parse(t, dia, c + 1, stk, AfterAt(stk), dep, ks)
<1>1. /\ Shape(t, c, stk, ex) /\ ReadingAt(t, c, stk) /\ c \in Nat /\ 1 <= c /\ Len(t) \in Nat
      /\ dep = Len(stk)
  BY ParseNow
<1>2. Shape(t, c + 1, stk, AfterAt(stk))
  BY <1>1, ShapeScalar
<1>3. Exact(t, c + 1, stk, AfterAt(stk))
  <2>1. \A j \in Int : Completes(t, stk, ex, c, j) <=> Completes(t, stk, AfterAt(stk), c + 1, j)
    BY <1>1, ScalarExact
  <2>2. Exact(t, c, stk, ex)
    BY ParseNow
  <2> QED BY <2>1, <2>2 DEF Exact
<1>4. t[c] = Sym(t, c) /\ t[c] \notin Opening /\ Sym(t, c) # ":"
  BY <1>1, InText, WordsAreNoMarks DEF Marks, Opening
<1>5. dia = "header" => HeaderFits(t, c + 1)
  BY <1>1, <1>4, ParseNow, HeaderStep
<1>6. dia = "request" => RequestFits(t, c + 1, stk, AfterAt(stk))
  BY <1>1, ParseNow, RequestScalar
<1>7. dia = "request" => KeysFit(t, c + 1, stk, AfterAt(stk), ks)
  <2>1. ex # "colon" /\ AfterAt(stk) # "colon"
    BY DEF DueAt, AfterAt
  <2> QED BY <1>1, <1>4, <2>1, ParseNow, KeysStay
<1> QED BY <1>1, <1>2, <1>3, <1>5, <1>6, <1>7 DEF Parse

LEMMA ParseOpen ==
  ASSUME NEW t, NEW dia, NEW c, NEW stk, NEW ex, NEW dep, NEW ks, Parse(t, dia, c, stk, ex, dep, ks),
         DueAt(stk, ex), NEW s \in Opening, Sym(t, c) = s,
         dia = "request" => Len(stk) <= MaxDepth + 1 /\ (stk = <<>> => s = "{"),
         dia = "header" => dep < MaxDepth
  PROVE  Parse(t, dia, c + 1, <<s>> \o stk, "first", dep + 1, ks)
<1>1. /\ Shape(t, c, stk, ex) /\ ReadingAt(t, c, stk) /\ c \in Nat /\ 1 <= c /\ Len(t) \in Nat
      /\ dep = Len(stk) /\ Nest(t, c) = Len(stk) /\ stk \in Seq(Opening)
  BY ParseNow
<1>2. Shape(t, c + 1, <<s>> \o stk, "first")
  BY <1>1, ShapeOpen
<1>3. Exact(t, c + 1, <<s>> \o stk, "first")
  <2>1. \A j \in Int : Completes(t, stk, ex, c, j) <=> Completes(t, <<s>> \o stk, "first", c + 1, j)
    BY <1>1, OpenExact
  <2>2. Exact(t, c, stk, ex)
    BY ParseNow
  <2> QED BY <2>1, <2>2 DEF Exact
<1>4. t[c] = s /\ Sym(t, c) # ":"
  BY <1>1, InText, WordsAreNoMarks DEF Marks, Opening
<1>5. dia = "header" => HeaderFits(t, c + 1)
  <2>1. dia = "header" => HeaderFits(t, c) /\ Nest(t, c) < MaxDepth
    BY <1>1, ParseNow
  <2> QED BY <1>1, <2>1, HeaderStep
<1>6. dia = "request" => RequestFits(t, c + 1, <<s>> \o stk, "first")
  <2>1. dia = "request" => RequestFits(t, c, stk, ex) /\ (stk = <<>> => t[c] = "{")
    BY <1>4, ParseNow
  <2> QED BY <1>1, <2>1, RequestOpen
<1>7. dia = "request" => KeysFit(t, c + 1, <<s>> \o stk, "first", ks)
  <2>1. ex # "colon"
    BY DEF DueAt
  <2> QED BY <1>1, <1>4, <2>1, ParseNow, KeysStay
<1>8. dep + 1 = Len(<<s>> \o stk)
  BY <1>1, StackFacts
<1> QED BY <1>2, <1>3, <1>5, <1>6, <1>7, <1>8 DEF Parse

LEMMA ParseClose ==
  ASSUME NEW t, NEW dia, NEW c, NEW stk, NEW ex, NEW dep, NEW ks, Parse(t, dia, c, stk, ex, dep, ks),
         ex \in {"first", "after"}, stk # <<>>, Sym(t, c) = Closer(Head(stk))
  PROVE  Parse(t, dia, c + 1, Tail(stk), AfterAt(Tail(stk)), dep - 1, ks)
<1>1. /\ Shape(t, c, stk, ex) /\ ReadingAt(t, c, stk) /\ c \in Nat /\ 1 <= c /\ Len(t) \in Nat
      /\ dep = Len(stk) /\ stk \in Seq(Opening)
  BY ParseNow
<1>2. Shape(t, c + 1, Tail(stk), AfterAt(Tail(stk))) /\ t[c] \in Closing
  BY <1>1, ShapeClose
<1>3. Exact(t, c + 1, Tail(stk), AfterAt(Tail(stk)))
  <2>1. \A j \in Int : Completes(t, stk, ex, c, j) <=> Completes(t, Tail(stk), AfterAt(Tail(stk)), c + 1, j)
    BY <1>1, CloseExact
  <2>2. Exact(t, c, stk, ex)
    BY ParseNow
  <2> QED BY <2>1, <2>2 DEF Exact
<1>4. t[c] \notin Opening /\ Sym(t, c) # ":" /\ ex # "colon" /\ AfterAt(Tail(stk)) # "colon"
  BY <1>2 DEF Opening, Closing, Closer, AfterAt
<1>5. dia = "header" => HeaderFits(t, c + 1)
  BY <1>1, <1>4, ParseNow, HeaderStep
<1>6. dia = "request" => RequestFits(t, c + 1, Tail(stk), AfterAt(Tail(stk)))
  BY <1>1, <1>2, ParseNow, RequestClose
<1>7. dia = "request" => KeysFit(t, c + 1, Tail(stk), AfterAt(Tail(stk)), ks)
  BY <1>1, <1>4, ParseNow, KeysStay
<1>8. dep - 1 = Len(Tail(stk))
  BY <1>1, StackFacts
<1> QED BY <1>2, <1>3, <1>5, <1>6, <1>7, <1>8 DEF Parse

LEMMA ParseName ==
  ASSUME NEW t, NEW dia, NEW c, NEW stk, NEW ex, NEW dep, NEW ks, Parse(t, dia, c, stk, ex, dep, ks),
         NameDueAt(stk, ex), Sym(t, c) \in DOMAIN Decoded, NEW ls,
         dia = "request" /\ Len(stk) = 1 =>
           /\ Cardinality(ks) < KeyLimit /\ Sym(t, c) \notin LongNames /\ Decoded[Sym(t, c)] \notin ks
           /\ ls = ks \union {Decoded[Sym(t, c)]},
         Len(stk) # 1 => ls = ks
  PROVE  Parse(t, dia, c + 1, stk, "colon", dep, ls)
<1>1. /\ Shape(t, c, stk, ex) /\ ReadingAt(t, c, stk) /\ c \in Nat /\ 1 <= c /\ Len(t) \in Nat
      /\ dep = Len(stk)
  BY ParseNow
<1>2. Shape(t, c + 1, stk, "colon") /\ c \in 1 .. Len(t) /\ t[c] = Sym(t, c)
  BY <1>1, ShapeName
<1>3. Exact(t, c + 1, stk, "colon")
  <2>1. \A j \in Int : Completes(t, stk, ex, c, j) <=> Completes(t, stk, "colon", c + 1, j)
    BY <1>1, NameExact
  <2>2. Exact(t, c, stk, ex)
    BY ParseNow
  <2> QED BY <2>1, <2>2 DEF Exact
<1>4. t[c] \notin Opening /\ Sym(t, c) # ":" /\ ex # "colon" /\ stk # <<>>
  BY <1>2, WordsAreNoMarks DEF Marks, Opening, ValueTokens, NameDueAt
<1>5. dia = "header" => HeaderFits(t, c + 1)
  BY <1>1, <1>4, ParseNow, HeaderStep
<1>6. dia = "request" => RequestFits(t, c + 1, stk, "colon")
  BY <1>1, ParseNow, RequestName
<1>7. ASSUME dia = "request" PROVE KeysFit(t, c + 1, stk, "colon", ls)
  <2>1. KeysFit(t, c, stk, ex, ks)
    BY <1>7, ParseNow
  <2>2. CASE Len(stk) = 1
    <3>1. /\ Cardinality(ks) < KeyLimit /\ t[c] \notin LongNames /\ Decoded[t[c]] \notin ks
          /\ ls = ks \union {Decoded[t[c]]} /\ t[c] \in DOMAIN Decoded
      BY <1>2, <1>7, <2>2
    <3> QED BY <1>1, <1>2, <1>4, <2>1, <2>2, <3>1, KeysName
  <2>3. CASE Len(stk) # 1
    BY <1>1, <1>4, <2>1, <2>3, KeysStay
  <2> QED BY <2>2, <2>3
<1> QED BY <1>1, <1>2, <1>3, <1>5, <1>6, <1>7 DEF Parse

LEMMA ParseColon ==
  ASSUME NEW t, NEW dia, NEW c, NEW stk, NEW dep, NEW ks, Parse(t, dia, c, stk, "colon", dep, ks),
         Sym(t, c) = ":"
  PROVE  Parse(t, dia, c + 1, stk, "value", dep, ks)
<1>1. /\ Shape(t, c, stk, "colon") /\ ReadingAt(t, c, stk) /\ c \in Nat /\ 1 <= c /\ Len(t) \in Nat
      /\ dep = Len(stk) /\ stk # <<>>
  BY ParseNow DEF Shape
<1>2. Shape(t, c + 1, stk, "value") /\ t[c] = Sym(t, c)
  BY <1>1, ShapeMark
<1>3. Exact(t, c + 1, stk, "value")
  <2>1. \A j \in Int : Completes(t, stk, "colon", c, j) <=> Completes(t, stk, "value", c + 1, j)
    BY ColonExact
  <2>2. Exact(t, c, stk, "colon")
    BY ParseNow
  <2> QED BY <2>1, <2>2 DEF Exact
<1>4. t[c] \notin Opening
  BY <1>2 DEF Opening
<1>5. dia = "header" => HeaderFits(t, c + 1)
  BY <1>1, <1>4, ParseNow, HeaderStep
<1>6. dia = "request" => RequestFits(t, c + 1, stk, "value")
  BY <1>1, ParseNow, RequestColon
<1>7. dia = "request" => KeysFit(t, c + 1, stk, "value", ks)
  BY <1>1, ParseNow, KeysColon
<1> QED BY <1>1, <1>2, <1>3, <1>5, <1>6, <1>7 DEF Parse

LEMMA ParseComma ==
  ASSUME NEW t, NEW dia, NEW c, NEW stk, NEW dep, NEW ks, Parse(t, dia, c, stk, "after", dep, ks),
         Sym(t, c) = ",", NEW to, to = IF Head(stk) = "{" THEN "name" ELSE "value"
  PROVE  Parse(t, dia, c + 1, stk, to, dep, ks)
<1>1. /\ Shape(t, c, stk, "after") /\ ReadingAt(t, c, stk) /\ c \in Nat /\ 1 <= c /\ Len(t) \in Nat
      /\ dep = Len(stk) /\ stk # <<>>
  BY ParseNow DEF Shape
<1>0. to \in {"name", "value"} /\ (to = "name" => Head(stk) = "{") /\ to # "colon"
  OBVIOUS
<1>2. Shape(t, c + 1, stk, to) /\ t[c] = Sym(t, c)
  BY <1>0, <1>1, ShapeMark
<1>3. Exact(t, c + 1, stk, to)
  <2>1. \A j \in Int : Completes(t, stk, "after", c, j) <=> Completes(t, stk, to, c + 1, j)
    BY <1>1, CommaExact
  <2>2. Exact(t, c, stk, "after")
    BY ParseNow
  <2> QED BY <2>1, <2>2 DEF Exact
<1>4. t[c] \notin Opening /\ Sym(t, c) # ":"
  BY <1>2 DEF Opening
<1>5. dia = "header" => HeaderFits(t, c + 1)
  BY <1>1, <1>4, ParseNow, HeaderStep
<1>6. dia = "request" => RequestFits(t, c + 1, stk, to)
  BY <1>1, ParseNow, RequestComma
<1>7. dia = "request" => KeysFit(t, c + 1, stk, to, ks)
  BY <1>0, <1>1, <1>4, ParseNow, KeysStay
<1> QED BY <1>1, <1>2, <1>3, <1>5, <1>6, <1>7 DEF Parse

-----------------------------------------------------------------------------
(* JSON: the first state, and the verdict.                                 *)

LEMMA ParseFirst ==
  ASSUME NEW t, Len(t) \in Nat, NEW dia
  PROVE  Parse(t, dia, 1, <<>>, "value", 0, {})
<1>1. Nest(t, 1) = 0 /\ MaxDepth \in Nat /\ KeyLimit \in Nat
  BY NestFirst, Limits
<1>2. Len(<<>>) = 0 /\ <<>> \in Seq(Opening) /\ 1 \in 1 .. Len(t) + 1
  OBVIOUS
<1>3. Shape(t, 1, <<>>, "value")
  BY <1>1, <1>2 DEF Shape, ReadingAt
<1>4. Exact(t, 1, <<>>, "value")
  <2>1. ASSUME NEW j \in Int PROVE Completes(t, <<>>, "value", 1, j) <=> ValueIs(t, 1, j)
    <3>1. Completes(t, <<>>, "value", 1, j) <=> \E k \in Int : ValueIs(t, 1, k) /\ Resume(t, <<>>, k, j)
      BY DEF Completes
    <3>2. \A k \in Int : Resume(t, <<>>, k, j) <=> k = j
      BY <1>2, ResumeEmpty
    <3> QED BY <3>1, <3>2
  <2> QED BY <2>1 DEF Exact
<1>5. HeaderFits(t, 1)
  BY DEF HeaderFits
<1>6. RequestFits(t, 1, <<>>, "value")
  <2>1. ~(1 >= 2) /\ 0 <= MaxDepth + 2 /\ 0 # MaxDepth + 2
    BY <1>1
  <2>2. \A i \in 1 .. 1 - 1 : FALSE
    OBVIOUS
  <2> QED BY <1>2, <2>1, <2>2 DEF RequestFits
<1>7. KeysFit(t, 1, <<>>, "value", {})
  <2>1. \A i \in 1 .. Len(t) : ~(i + 1 < 1)
    OBVIOUS
  <2>2. Done(t, 1, <<>>, "value") = {}
    BY <2>1 DEF Done, KeysOf
  <2>3. Cardinality({}) <= KeyLimit
    BY <1>1, FS_EmptySet
  <2> QED BY <2>2, <2>3 DEF KeysFit, Different
<1> QED BY <1>2, <1>3, <1>4, <1>5, <1>6, <1>7 DEF Parse

LEMMA AcceptedIsLegal ==
  ASSUME NEW t, NEW dia, NEW c, NEW stk, NEW dep, NEW ks, Parse(t, dia, c, stk, "end", dep, ks),
         dia = "request" => c = Len(t) + 1
  PROVE  LegalAt(t, dia, c)
<1>0. c \in Nat /\ Len(t) \in Nat /\ stk = <<>>
  <2>1. Shape(t, c, stk, "end") /\ c \in Nat /\ Len(t) \in Nat
    BY ParseNow
  <2>2. stk = <<>>
    BY <2>1 DEF Shape
  <2> QED BY <2>1, <2>2
<1>1. c \in Nat /\ Len(t) \in Nat /\ stk = <<>> /\ c \in Int
  <2>1. \A n \in Nat : n \in Int
    OBVIOUS
  <2> QED BY <1>0, <2>1
<1>2. ValueIs(t, 1, c)
  <2>1. Completes(t, stk, "end", c, c) <=> Resume(t, stk, c, c)
    BY DEF Completes
  <2>2. Len(stk) = 0
    BY <1>1
  <2>3. Resume(t, stk, c, c)
    BY <1>1, <2>2, ResumeEmpty
  <2>4. Exact(t, c, stk, "end")
    BY ParseNow
  <2> QED BY <1>1, <2>1, <2>3, <2>4 DEF Exact
<1>3. c >= 2
  <2>1. c \in 1 + 1 .. Len(t) + 1
    BY <1>1, <1>2, ValueSpan
  <2> QED BY <1>1, <2>1
<1>4. dia = "header" => HeaderFits(t, c)
  BY ParseNow
<1>5. ASSUME dia = "request"
      PROVE  /\ t[1] = "{" /\ c = Len(t) + 1
             /\ \A i \in 1 .. c - 1 : Nest(t, i) > MaxDepth + 1 => t[i] \in Closing
             /\ Cardinality(KeysOf(t)) <= KeyLimit
             /\ Different(t, KeysOf(t))
  <2>1. RequestFits(t, c, stk, "end") /\ KeysFit(t, c, stk, "end", ks)
    BY <1>5, ParseNow
  <2>2. t[1] = "{" /\ \A i \in 1 .. c - 1 : Nest(t, i) > MaxDepth + 1 => t[i] \in Closing
    BY <1>3, <2>1 DEF RequestFits
  <2>3. Done(t, c, stk, "end") = KeysOf(t)
    BY <1>1, <1>5, AllDone
  <2> QED BY <1>5, <2>1, <2>2, <2>3 DEF KeysFit
<1> QED BY <1>2, <1>4, <1>5 DEF LegalAt

\* What remains after an item does not end before it.
LEMMA ResumeForward ==
  ASSUME NEW t, Len(t) \in Nat, NEW stk \in Seq(Opening), NEW k \in Int, NEW j \in Int, Resume(t, stk, k, j)
  PROVE  k <= j
<1> DEFINE n == Len(stk)
<1>1. n \in Nat /\ \A d \in 1 .. n : stk[d] \in Opening
  OBVIOUS
<1>2. PICK e \in [0 .. n -> Int] : /\ e[0] = k /\ e[n] = j
                                   /\ \A d \in 1 .. n : Link(t, stk[d], e[d - 1], e[d])
  BY DEF Resume
<1> DEFINE Bad == {d \in 0 .. n : ~(k <= e[d])}
<1>3. ASSUME Bad # {} PROVE FALSE
  <2>1. PICK d \in Bad : \A m \in Bad : d <= m
    <3>1. Bad \subseteq Nat
      BY <1>1
    <3> HIDE DEF Bad
    <3> QED BY <1>3, <3>1, LeastElement
  <2>2. d \in 0 .. n /\ ~(k <= e[d])
    OBVIOUS
  <2>3. d # 0
    BY <1>2, <2>2
  <2>4. d - 1 \in 0 .. n /\ d \in 1 .. n /\ ~(d <= d - 1)
    BY <1>1, <2>2, <2>3
  <2>5. k <= e[d - 1] /\ e[d - 1] \in Int /\ e[d] \in Int
    BY <1>2, <2>1, <2>4
  <2>6. Rest(t, stk[d], e[d - 1], e[d] - 1)
    BY <1>2, <2>4 DEF Link
  <2> DEFINE a == e[d - 1]
             b == e[d] - 1
  <2>7. a <= b
    <3>0. a \in Int /\ b \in Int /\ Rest(t, stk[d], a, b)
      BY <2>5, <2>6
    <3> HIDE DEF a, b
    <3>1. CASE a = b
      BY <3>0, <3>1
    <3>2. CASE ItemsAre(t, stk[d], a + 1, b)
      <4>1. b \in (a + 1) + 1 .. Len(t) + 1
        BY <1>1, <2>4, <3>2, ItemsSpan
      <4> QED BY <3>0, <4>1
    <3> QED BY <3>0, <3>1, <3>2 DEF Rest
  <2> QED BY <2>2, <2>5, <2>7
<1>4. n \in 0 .. n /\ n \notin Bad
  BY <1>1, <1>3
<1> QED BY <1>2, <1>4

\* No value may begin at c.
ValueBarred(t, dia, c, stk, dep) ==
  /\ Sym(t, c) \in ValueTokens => dia = "request" /\ (~(Len(stk) <= MaxDepth + 1) \/ stk = <<>>)
  /\ Sym(t, c) \in Opening =>
       \/ dia = "request" /\ (~(Len(stk) <= MaxDepth + 1) \/ (stk = <<>> /\ Sym(t, c) # "{"))
       \/ dia = "header" /\ ~(dep < MaxDepth)

LEMMA NoValue ==
  ASSUME NEW t, NEW dia \in {"request", "header"}, NEW c, NEW stk, NEW ex, NEW dep, NEW ks,
         Parse(t, dia, c, stk, ex, dep, ks), DueAt(stk, ex), Sym(t, c) # "]",
         ValueBarred(t, dia, c, stk, dep), NEW j \in Int, LegalAt(t, dia, j)
  PROVE  FALSE
<1>1. /\ ReadingAt(t, c, stk) /\ c \in Nat /\ 1 <= c /\ Len(t) \in Nat /\ stk \in Seq(Opening)
      /\ Len(stk) \in Nat /\ Nest(t, c) = Len(stk) /\ dep = Len(stk) /\ MaxDepth \in Nat
  BY ParseNow, Limits
<1>2. PICK k \in Int : ValueIs(t, c, k) /\ Resume(t, stk, k, j)
  <2>1. Completes(t, stk, ex, c, j)
    BY ParseNow DEF LegalAt, Exact
  <2> QED BY <1>1, <2>1, ValueDueAt
<1>3. c \in 1 .. Len(t) /\ k \in c + 1 .. Len(t) + 1
  BY <1>1, <1>2, ValueSpan
<1>4. k <= j
  BY <1>1, <1>2, ResumeForward
<1>5. c \in 1 .. j - 1
  BY <1>1, <1>3, <1>4
<1>6. Sym(t, c) = t[c]
  BY <1>1, <1>3 DEF Sym
<1>7. /\ t[c] \in ValueTokens \union Opening
      /\ t[c] \in ValueTokens => k = c + 1
  <2>1. c \in 1 .. Len(t) + 1 /\ k \in 1 .. Len(t) + 1
    BY <1>1, <1>3
  <2>2. \/ k = c + 1 /\ t[c] \in ValueTokens
        \/ t[c] \in Opening
    BY <1>1, <1>2, <2>1, ValueUnfold
  <2> QED BY <2>2, WordsAreNoMarks DEF Opening, Marks
<1>8. ASSUME dia = "request", stk = <<>> PROVE t[c] = "{"
  <2>1. ex = "value"
    BY <1>8 DEF DueAt
  <2>3. Shape(t, c, stk, ex)
    BY ParseNow
  <2>2. c = 1
    BY <1>8, <2>1, <2>3 DEF Shape
  <2> QED BY <1>8, <2>2 DEF LegalAt
<1>9. ASSUME dia = "request", ~(Len(stk) <= MaxDepth + 1) PROVE FALSE
  <2>1. Nest(t, c) > MaxDepth + 1
    BY <1>1, <1>9
  <2>2. t[c] \in Closing \/ IsNameAt(t, c)
    BY <1>5, <1>9, <2>1 DEF LegalAt
  <2>3. t[c] \notin Closing
    BY <1>7, WordsAreNoMarks DEF Closing
  <2>4. t[c] \in ValueTokens /\ Sym(t, c + 1) = ":"
    BY <2>2, <2>3 DEF IsNameAt, ValueTokens
  <2>5. k = c + 1
    BY <1>7, <2>4
  <2>6. stk # <<>>
    <3>1. Len(stk) # 0
      BY <1>1, <1>9
    <3> QED BY <1>1, <3>1, StackFacts
  <2>7. ReadingAt(t, k, stk)
    <3>1. k \in 1 .. Len(t) + 1
      BY <1>1, <1>3
    <3> QED BY <1>1, <3>1 DEF ReadingAt
  <2>8. Sym(t, k) \in {",", Closer(Head(stk))}
    BY <1>2, <2>6, <2>7, AfterItem
  <2> QED BY <2>4, <2>5, <2>8 DEF Closer
<1>10. CASE t[c] \in ValueTokens
  <2>1. dia = "request" /\ stk = <<>>
    BY <1>6, <1>9, <1>10 DEF ValueBarred
  <2> QED BY <1>8, <1>10, <2>1, WordsAreNoMarks DEF Marks
<1>11. CASE t[c] \in Opening
  <2>1. CASE dia = "request"
    BY <1>6, <1>8, <1>9, <1>11, <2>1 DEF ValueBarred
  <2>2. CASE dia = "header"
    <3>1. ~(dep < MaxDepth)
      BY <1>6, <1>11, <2>2 DEF ValueBarred
    <3>2. Nest(t, c) < MaxDepth
      BY <1>5, <1>11, <2>2 DEF LegalAt, HeaderFits
    <3> QED BY <1>1, <3>1, <3>2
  <2> QED BY <2>1, <2>2
<1> QED BY <1>7, <1>10, <1>11

\* No name may stand at c.
NameBarred(t, dia, c, stk, ks) ==
  Sym(t, c) \in DOMAIN Decoded =>
    /\ dia = "request" /\ Len(stk) = 1
    /\ \/ ~(Cardinality(ks) < KeyLimit) \/ Sym(t, c) \in LongNames
       \/ Decoded[Sym(t, c)] \in ks

LEMMA NatFacts ==
  /\ \A c \in Nat : c \in Int /\ ~(c + 1 < c)
  /\ \A c, n \in Nat : 1 <= c /\ c <= n => c \in 1 .. n
  /\ \A a, b, l \in Nat : a + 1 <= b /\ b <= l => a < l
  OBVIOUS

LEMMA NoName ==
  ASSUME NEW t, NEW dia \in {"request", "header"}, NEW c, NEW stk, NEW ex, NEW dep, NEW ks,
         Parse(t, dia, c, stk, ex, dep, ks), NameDueAt(stk, ex), Sym(t, c) # "}",
         NameBarred(t, dia, c, stk, ks), NEW j \in Int, LegalAt(t, dia, j)
  PROVE  FALSE
<1>1. /\ ReadingAt(t, c, stk) /\ c \in Nat /\ 1 <= c /\ Len(t) \in Nat /\ Nest(t, c) = Len(stk)
  BY ParseNow
<1>2. PICK k \in Int : ItemIs(t, "{", c, k)
  <2>1. Completes(t, stk, ex, c, j)
    BY ParseNow DEF LegalAt, Exact
  <2> QED BY <1>1, <2>1, NameDue
<1>3. t[c] \in DOMAIN Decoded /\ Sym(t, c + 1) = ":"
  BY <1>2 DEF ItemIs
<1>4. c <= Len(t)
  <2>1. "{" \in Opening /\ c \in Int
    BY <1>1, NatFacts DEF Opening
  <2> QED BY <1>1, <1>2, <2>1, ItemStarts
<1>5. Sym(t, c) = t[c]
  BY <1>4 DEF Sym
<1>6. /\ dia = "request" /\ Len(stk) = 1
      /\ \/ ~(Cardinality(ks) < KeyLimit) \/ t[c] \in LongNames
         \/ Decoded[t[c]] \in ks
  BY <1>3, <1>5 DEF NameBarred
<1>7. c \in KeysOf(t)
  <2>1. c \in 1 .. Len(t)
    BY <1>1, <1>4, NatFacts
  <2> QED BY <1>1, <1>3, <1>6, <2>1 DEF KeysOf, IsNameAt
<1>8. Different(t, KeysOf(t)) /\ Cardinality(KeysOf(t)) <= KeyLimit
  BY <1>6 DEF LegalAt
<1> DEFINE D == Done(t, c, stk, ex)
<1>9. D = {i \in KeysOf(t) : i + 1 < c}
  BY DEF Done, NameDueAt
<1>10. c \notin D
  <2>1. ~(c + 1 < c)
    BY <1>1, NatFacts
  <2> QED BY <1>9, <2>1
<1>11. ks = {Decoded[t[i]] : i \in D} /\ Different(t, D)
  <2>1. KeysFit(t, c, stk, ex, ks)
    BY <1>6, ParseNow
  <2> QED BY <2>1 DEF KeysFit
<1>12. IsFiniteSet(D) /\ IsFiniteSet(KeysOf(t)) /\ D \cup {c} \subseteq KeysOf(t)
  BY <1>1, <1>7, <1>9, DoneInKeys
<1> HIDE DEF D
<1>13. CASE t[c] \in LongNames
  BY <1>7, <1>8, <1>13 DEF Different
<1>14. CASE Decoded[t[c]] \in ks
  <2>1. PICK i \in D : Decoded[t[c]] = Decoded[t[i]]
    BY <1>11, <1>14
  <2>2. i \in KeysOf(t) /\ i # c
    BY <1>10, <1>12
  <2> QED BY <1>7, <1>8, <2>1, <2>2 DEF Different
<1>15. CASE ~(Cardinality(ks) < KeyLimit)
  <2>1. Cardinality(ks) = Cardinality(D) /\ Cardinality(D) \in Nat
    BY <1>11, <1>12, NamesCounted
  <2>2. Cardinality(D \cup {c}) = Cardinality(D) + 1
    BY <1>10, <1>12, FS_AddElement
  <2>3. Cardinality(D \cup {c}) <= Cardinality(KeysOf(t)) /\ Cardinality(KeysOf(t)) \in Nat
    BY <1>12, FS_Subset, FS_CardinalityType
  <2>4. Cardinality(D) < KeyLimit
    BY <1>8, <2>1, <2>2, <2>3, Limits, NatFacts
  <2> QED BY <1>15, <2>1, <2>4
<1> QED BY <1>6, <1>13, <1>14, <1>15

Stuck(t, dia, c, stk, ex, dep, ks) ==
  /\ ~(ex = "end" /\ (dia = "request" => c = Len(t) + 1))
  /\ ~(/\ DueAt(stk, ex) /\ (dia = "request" => Len(stk) <= MaxDepth + 1)
       /\ (dia = "request" => stk # <<>>) /\ Sym(t, c) \in ValueTokens)
  /\ ~(/\ DueAt(stk, ex) /\ (dia = "request" => Len(stk) <= MaxDepth + 1)
       /\ (dia = "request" /\ stk = <<>> => Sym(t, c) = "{")
       /\ (dia = "header" => dep < MaxDepth) /\ Sym(t, c) \in Opening)
  /\ ~(ex \in {"first", "after"} /\ stk # <<>> /\ Sym(t, c) = Closer(Head(stk)))
  /\ ~(/\ NameDueAt(stk, ex) /\ Sym(t, c) \in DOMAIN Decoded
       /\ (dia = "request" /\ Len(stk) = 1 =>
             Cardinality(ks) < KeyLimit /\ Sym(t, c) \notin LongNames /\ Decoded[Sym(t, c)] \notin ks))
  /\ ~(ex = "colon" /\ Sym(t, c) = ":")
  /\ ~(ex = "after" /\ Sym(t, c) = ",")

LEMMA RejectedIsIllegal ==
  ASSUME NEW t, NEW dia \in {"request", "header"}, NEW c, NEW stk, NEW ex, NEW dep, NEW ks,
         Parse(t, dia, c, stk, ex, dep, ks), Stuck(t, dia, c, stk, ex, dep, ks), NEW j \in Int
  PROVE  ~LegalAt(t, dia, j)
<1> SUFFICES ASSUME LegalAt(t, dia, j) PROVE FALSE
  OBVIOUS
<1>1. /\ ReadingAt(t, c, stk) /\ c \in Nat /\ Len(t) \in Nat /\ Shape(t, c, stk, ex) /\ stk \in Seq(Opening)
  BY ParseNow
<1>2. Completes(t, stk, ex, c, j)
  BY ParseNow DEF LegalAt, Exact
<1>3. ex = "first" => stk # <<>> /\ Head(stk) \in Opening
  BY <1>1, StackFacts DEF Shape
<1>4. CASE DueAt(stk, ex)
  <2>1. CASE Sym(t, c) = "]"
    <3>1. ex = "value"
      BY <1>4, <2>1 DEF DueAt, Closer, Stuck
    <3>2. PICK k \in Int : ValueIs(t, c, k)
      BY <1>2, <3>1 DEF Completes
    <3>3. c \in 1 .. Len(t) /\ c \in 1 .. Len(t) + 1 /\ k \in 1 .. Len(t) + 1
      <4>1. c \in 1 .. Len(t)
        BY <1>1, <3>2, ValueSpan
      <4> QED BY <3>2, <4>1 DEF ValueIs
    <3>4. t[c] \in ValueTokens \union Opening
      BY <1>1, <3>2, <3>3, ValueUnfold
    <3>5. Sym(t, c) = t[c]
      BY <1>1, <3>3, Below0 DEF Sym
    <3> QED BY <2>1, <3>4, <3>5, WordsAreNoMarks
  <2>2. CASE Sym(t, c) # "]"
    <3>1. ValueBarred(t, dia, c, stk, dep)
      BY <1>4 DEF ValueBarred, Stuck
    <3> QED BY <1>4, <2>2, <3>1, NoValue
  <2> QED BY <2>1, <2>2
<1>5. CASE NameDueAt(stk, ex)
  <2>1. CASE Sym(t, c) = "}"
    <3>1. ex = "name"
      BY <1>5, <2>1 DEF NameDueAt, Closer, Stuck
    <3>2. PICK k \in Int : ItemIs(t, "{", c, k)
      BY <1>2, <3>1 DEF Completes
    <3>0. "{" \in Opening /\ c \in Int
      BY <1>1, NatFacts DEF Opening
    <3>3. c <= Len(t) /\ t[c] \in DOMAIN Decoded
      BY <1>1, <3>0, <3>2, ItemStarts
    <3>5. Sym(t, c) = t[c]
      BY <3>3 DEF Sym
    <3> QED BY <2>1, <3>3, <3>5, WordsAreNoMarks DEF ValueTokens, Marks
  <2>2. CASE Sym(t, c) # "}"
    <3>1. NameBarred(t, dia, c, stk, ks)
      BY <1>5 DEF NameBarred, Stuck
    <3> QED BY <1>5, <2>2, <3>1, NoName
  <2> QED BY <2>1, <2>2
<1>6. CASE ex = "colon"
  BY <1>2, <1>6 DEF Completes, Stuck
<1>7. CASE ex = "after"
  <2>1. Resume(t, stk, c, j) /\ stk # <<>>
    BY <1>1, <1>2, <1>7 DEF Completes, Shape
  <2>2. Sym(t, c) \in {",", Closer(Head(stk))}
    BY <1>1, <2>1, AfterItem
  <2> QED BY <1>7, <2>1, <2>2 DEF Stuck
<1>8. CASE ex = "end"
  <2>1. Resume(t, stk, c, j) /\ stk = <<>>
    BY <1>1, <1>2, <1>8 DEF Completes, Shape
  <2>2. c = j
    <3>1. Len(stk) = 0 /\ c \in Int
      BY <1>1, <2>1
    <3> QED BY <2>1, <3>1, ResumeEmpty
  <2> QED BY <1>8, <2>2 DEF LegalAt, Stuck
<1>9. ex \in {"value", "first", "after", "name", "colon", "end"} /\ (ex = "name" => stk # <<>> /\ Head(stk) = "{")
  BY <1>1 DEF Shape
<1> QED BY <1>3, <1>4, <1>5, <1>6, <1>7, <1>8, <1>9 DEF DueAt, NameDueAt, Opening

-----------------------------------------------------------------------------
(* JSON: the lookup.                                                       *)

SkipOf(t, i) == CHOOSE j \in i + 1 .. Len(t) :
  /\ Count(t, Opening, i, j) = Count(t, Closing, i, j)
  /\ \A k \in i + 1 .. j - 1 : Count(t, Opening, i, k) # Count(t, Closing, i, k)

LEMMA CountsDiffer ==
  ASSUME NEW t, NEW i \in Nat \ {0}, NEW p \in Int, i <= p
  PROVE  Count(t, Opening, i, p) = Count(t, Closing, i, p) <=> Nest(t, p) = Nest(t, i)
<1>1. /\ Count(t, Opening, 1, p) = Count(t, Opening, 1, i) + Count(t, Opening, i, p)
      /\ Count(t, Closing, 1, p) = Count(t, Closing, 1, i) + Count(t, Closing, i, p)
  BY CountSplit
<1>2. /\ Count(t, Opening, 1, i) \in Nat /\ Count(t, Opening, i, p) \in Nat
      /\ Count(t, Closing, 1, i) \in Nat /\ Count(t, Closing, i, p) \in Nat
  BY CountType
<1> QED BY <1>1, <1>2 DEF Nest

\* Skipping a value ends where the grammar ends it.
LEMMA SkipsValue ==
  ASSUME NEW t, Len(t) \in Nat, NEW i, NEW k, ValueIs(t, i, k), k <= Len(t)
  PROVE  SkipOf(t, i) = k
<1>1. i \in 1 .. Len(t) /\ k \in i + 1 .. Len(t) + 1
  BY ValueSpan
<1>2. i \in Nat \ {0} /\ i \in Int /\ k \in Int /\ k \in i + 1 .. Len(t)
  BY <1>1
<1>3. Nest(t, k) = Nest(t, i) /\ Above(t, i, k)
  BY <1>2, Balanced
<1> DEFINE Ends(j) == /\ Count(t, Opening, i, j) = Count(t, Closing, i, j)
                      /\ \A m \in i + 1 .. j - 1 : Count(t, Opening, i, m) # Count(t, Closing, i, m)
<1>4. ASSUME NEW m \in i + 1 .. k - 1 PROVE Count(t, Opening, i, m) # Count(t, Closing, i, m)
  <2>1. Nest(t, m) > Nest(t, i)
    BY <1>3 DEF Above
  <2>2. m \in Nat \ {0} /\ i <= m
    BY <1>2
  <2>3. Nest(t, m) \in Int /\ Nest(t, i) \in Int
    BY <1>2, <2>2, NestIsInt
  <2>4. Nest(t, m) # Nest(t, i)
    BY <2>1, <2>3
  <2> QED BY <1>2, <2>2, <2>4, CountsDiffer
<1>5. Ends(k)
  <2>1. i <= k
    BY <1>2
  <2> QED BY <1>2, <1>3, <1>4, <2>1, CountsDiffer
<1>6. ASSUME NEW j \in i + 1 .. Len(t), Ends(j) PROVE j = k
  <2>1. ~(j < k)
    <3>1. ASSUME j < k PROVE FALSE
      <4>1. j \in i + 1 .. k - 1
        BY <1>2, <3>1
      <4> QED BY <1>4, <1>6, <4>1
    <3> QED BY <3>1
  <2>2. ~(k < j)
    <3>1. ASSUME k < j PROVE FALSE
      <4>1. k \in i + 1 .. j - 1
        BY <1>2, <3>1
      <4> QED BY <1>5, <1>6, <4>1
    <3> QED BY <3>1
  <2> QED BY <1>2, <2>1, <2>2
<1>7. SkipOf(t, i) = CHOOSE j \in i + 1 .. Len(t) : Ends(j)
  BY DEF SkipOf
<1> HIDE DEF Ends
<1> QED BY <1>2, <1>5, <1>6, <1>7

\* The cursor is at a member, or at the end; w is none of the names before it.
Without(t, w) == \A i \in KeysOf(t) : Decoded[t[i]] # w
Seeking(t, c, w) ==
  /\ Len(t) \in Nat /\ c \in Nat /\ 2 <= c /\ c <= Len(t) /\ t[Len(t)] = "}"
  /\ c = Len(t) \/ ItemsAre(t, "{", c, Len(t))
  /\ Nest(t, c) = 1
  /\ \A i \in KeysOf(t) : i < c => Decoded[t[i]] # w

LEMMA SeekFirst ==
  ASSUME NEW t, Len(t) \in Nat, NEW j, LegalAt(t, "request", j), NEW w
  PROVE  Seeking(t, 2, w)
<1>1. ValueIs(t, 1, Len(t) + 1) /\ t[1] = "{"
  BY DEF LegalAt
<1>2. t[1] \in Opening /\ t[1] \notin ValueTokens /\ Closer("{") = "}"
  BY <1>1, WordsAreNoMarks DEF Opening, Marks, Closer
<1>3. 1 \in 1 .. Len(t) + 1 /\ Len(t) + 1 \in 1 .. Len(t) + 1
  OBVIOUS
<1>4. Len(t) + 1 >= 1 + 2 /\ t[(Len(t) + 1) - 1] = "}" /\ Inner(t, "{", 1 + 1, (Len(t) + 1) - 1)
  BY <1>1, <1>2, <1>3, ValueUnfold
<1>10. Len(t) + 1 >= 1 + 2
  BY <1>4
<1>5. (Len(t) + 1) - 1 = Len(t) /\ 1 + 1 = 2 /\ 2 <= Len(t)
  BY <1>10
<1>11. 2 \in Nat /\ 2 <= 2 /\ 1 \in Nat /\ 1 <= 1
  OBVIOUS
<1>6. 2 = Len(t) \/ ItemsAre(t, "{", 2, Len(t))
  BY <1>4, <1>5 DEF Inner
<1>7. Nest(t, 2) = 1
  <2>0. t[1] \in Opening
    BY <1>2
  <2>1. Nest(t, 1 + 1) = Nest(t, 1) + 1
    BY <1>11, <2>0, NestStep
  <2>2. Nest(t, 1) = 0
    BY NestFirst
  <2> QED BY <1>5, <2>1, <2>2
<1>8. ASSUME NEW i \in KeysOf(t), i < 2 PROVE FALSE
  <2>1. i \in 1 .. Len(t) /\ t[i] \in ValueTokens
    BY DEF KeysOf, IsNameAt, ValueTokens
  <2>2. i = 1
    BY <1>8, <2>1
  <2> QED BY <1>2, <2>1, <2>2
<1>9. t[Len(t)] = "}"
  BY <1>4, <1>5
<1> QED BY <1>5, <1>6, <1>7, <1>8, <1>9, <1>11 DEF Seeking

LEMMA SeekNow ==
  ASSUME NEW t, NEW c, NEW w, Seeking(t, c, w)
  PROVE  /\ Len(t) \in Nat /\ c \in Nat /\ c \in 1 .. Len(t) /\ 1 <= c /\ c <= Len(t)
         /\ Sym(t, c) = t[c] /\ t[Len(t)] = "}" /\ t[Len(t)] \notin ValueTokens
         /\ KeysOf(t) \subseteq 1 .. Len(t) /\ Len(t) \notin KeysOf(t)
         /\ t[c] \in DOMAIN Decoded => ItemsAre(t, "{", c, Len(t))
         /\ c # Len(t) => t[c] \in DOMAIN Decoded
<1>1. /\ Len(t) \in Nat /\ c \in Nat /\ c \in 1 .. Len(t) /\ 1 <= c /\ c <= Len(t)
      /\ t[Len(t)] = "}"
  <2>1. Len(t) \in Nat /\ c \in Nat /\ 2 <= c /\ c <= Len(t)
    BY DEF Seeking
  <2>2. 1 <= c /\ c \in 1 .. Len(t)
    BY <2>1
  <2>3. t[Len(t)] = "}"
    BY DEF Seeking
  <2> QED BY <2>1, <2>2, <2>3
<1>2. t[Len(t)] \notin ValueTokens
  BY <1>1, WordsAreNoMarks DEF Marks
<1>3. Sym(t, c) = t[c]
  BY <1>1 DEF Sym
<1>4. KeysOf(t) \subseteq 1 .. Len(t) /\ Len(t) \notin KeysOf(t)
  BY <1>2 DEF KeysOf, IsNameAt, ValueTokens
<1>5. t[c] \in DOMAIN Decoded => ItemsAre(t, "{", c, Len(t))
  BY <1>2 DEF Seeking, ValueTokens
<1>6. c # Len(t) => t[c] \in DOMAIN Decoded
  <2>1. c # Len(t) => ItemsAre(t, "{", c, Len(t))
    BY DEF Seeking
  <2>2. "{" \in Opening
    BY DEF Opening
  <2> QED BY <1>1, <2>1, <2>2, ItemsStart
<1> QED BY <1>1, <1>2, <1>3, <1>4, <1>5, <1>6

\* There is no other member.
LEMMA SeekEnds ==
  ASSUME NEW t, NEW c, NEW w, Seeking(t, c, w), Sym(t, c) \notin DOMAIN Decoded
  PROVE  Without(t, w)
<1>1. c = Len(t) /\ Len(t) \in Nat /\ Len(t) \notin KeysOf(t) /\ KeysOf(t) \subseteq 1 .. Len(t)
  BY SeekNow
<1>2. ASSUME NEW i \in KeysOf(t) PROVE i < c
  <2>1. i \in 1 .. Len(t) /\ i # Len(t)
    BY <1>1
  <2> QED BY <1>1, <2>1
<1> QED BY <1>2 DEF Without, Seeking

\* A member, its value, and what follows.
LEMMA MemberAt ==
  ASSUME NEW t, NEW c, NEW w, Seeking(t, c, w), Sym(t, c) \in DOMAIN Decoded
  PROVE  \E k \in Int : /\ ValueIs(t, c + 2, k) /\ Rest(t, "{", k, Len(t)) /\ Sym(t, c + 1) = ":"
                        /\ c + 2 \in 1 .. Len(t) /\ k \in c + 3 .. Len(t) /\ c \in KeysOf(t)
<1>1. /\ Len(t) \in Nat /\ c \in Nat /\ c \in 1 .. Len(t) /\ 1 <= c /\ c <= Len(t)
      /\ t[c] \in DOMAIN Decoded
  BY SeekNow
<1>9. ItemsAre(t, "{", c, Len(t))
  BY SeekNow
<1>2. "{" \in Opening /\ c \in 1 .. Len(t) + 1 /\ Len(t) \in 1 .. Len(t) + 1
  <2>1. c \in 1 .. Len(t) + 1 /\ Len(t) \in 1 .. Len(t) + 1
    BY <1>1
  <2> QED BY <2>1 DEF Opening
<1>3. PICK k \in Int : ItemIs(t, "{", c, k) /\ Rest(t, "{", k, Len(t))
  BY <1>1, <1>2, <1>9, ItemsUnfold
<1>10. k \in Int
  OBVIOUS
<1>4. Sym(t, c + 1) = ":" /\ ValueIs(t, c + 2, k)
  BY <1>3 DEF ItemIs
<1>5. c + 2 \in 1 .. Len(t) /\ k \in (c + 2) + 1 .. Len(t) + 1
  BY <1>1, <1>4, ValueSpan
<1>6. k <= Len(t)
  <2>1. CASE k = Len(t)
    BY <1>1, <2>1
  <2>2. CASE ItemsAre(t, "{", k + 1, Len(t))
    <3>1. k + 1 \in 1 .. Len(t)
      BY <1>1, <1>2, <2>2, ItemsSpan
    <3> QED BY <1>1, <1>10, <3>1
  <2> QED BY <1>3, <2>1, <2>2 DEF Rest
<1>7. k \in c + 3 .. Len(t)
  BY <1>1, <1>5, <1>6
<1>8. c \in KeysOf(t)
  BY <1>1, <1>4 DEF KeysOf, IsNameAt, Seeking
<1> QED BY <1>3, <1>4, <1>5, <1>7, <1>8

LEMMA SeekHits ==
  ASSUME NEW t, NEW c, NEW w, Seeking(t, c, w), Sym(t, c) \in DOMAIN Decoded, Decoded[Sym(t, c)] = w
  PROVE  c \in KeysOf(t) /\ Decoded[t[c]] = w /\ c + 2 \in 1 .. Len(t) /\ c \in Nat /\ 1 <= c
  BY MemberAt, SeekNow

LEMMA SeekBounds ==
  /\ \A n, k \in Nat : k + 1 \in 1 .. n /\ 1 <= k => k + 1 \in Nat /\ 2 <= k + 1 /\ k + 1 <= n
  /\ \A n \in Nat : \A i \in 1 .. n : i # n => i < n
  OBVIOUS

LEMMA SeekSkips ==
  ASSUME NEW t, NEW c, NEW w, Seeking(t, c, w), Sym(t, c) \in DOMAIN Decoded, Decoded[Sym(t, c)] # w
  PROVE  /\ Sym(t, SkipOf(t, c + 2)) = "," => Seeking(t, SkipOf(t, c + 2) + 1, w)
         /\ Sym(t, SkipOf(t, c + 2)) # "," => Without(t, w)
<1>1. /\ Len(t) \in Nat /\ c \in Nat /\ 1 <= c /\ c <= Len(t) /\ t[c] = Sym(t, c)
      /\ KeysOf(t) \subseteq 1 .. Len(t) /\ Len(t) \notin KeysOf(t)
  BY SeekNow
<1>10. t[Len(t)] = "}"
  BY SeekNow
<1>2. PICK k \in Int : /\ ValueIs(t, c + 2, k) /\ Rest(t, "{", k, Len(t)) /\ Sym(t, c + 1) = ":"
                       /\ c + 2 \in 1 .. Len(t) /\ k \in c + 3 .. Len(t) /\ c \in KeysOf(t)
  BY MemberAt
<1>11. c + 2 \in 1 .. Len(t) /\ k \in c + 3 .. Len(t)
  BY <1>2
<1>0. k \in Nat /\ 1 <= k /\ k <= Len(t) /\ c + 2 <= Len(t) /\ c + 1 <= Len(t) /\ c + 3 <= k
  BY <1>1, <1>11
<1>3. SkipOf(t, c + 2) = k
  BY <1>0, <1>1, <1>2, SkipsValue
<1>4. t[c + 1] = ":" /\ Sym(t, k) = t[k]
  BY <1>0, <1>2 DEF Sym
<1>5. Nest(t, c + 2) = 1 /\ Nest(t, k) = 1 /\ Above(t, c + 2, k)
  <2>1. Nest(t, c) = 1
    BY DEF Seeking
  <2>2. Nest(t, c + 1) = Nest(t, c)
    BY <1>1, NestKeeps DEF ValueTokens
  <2>3. Nest(t, (c + 1) + 1) = Nest(t, c + 1)
    <3>1. c + 1 \in Nat /\ 1 <= c + 1
      BY <1>1
    <3> QED BY <1>4, <3>1, NestKeeps
  <2>4. (c + 1) + 1 = c + 2 /\ c + 2 \in Int
    BY <1>1
  <2>5. Nest(t, k) = Nest(t, c + 2) /\ Above(t, c + 2, k)
    BY <1>1, <1>2, <2>4, Balanced
  <2> QED BY <2>1, <2>2, <2>3, <2>4, <2>5
<1>6. ASSUME NEW i \in KeysOf(t), c < i, i < k PROVE FALSE
  <2>1. i \in 1 .. Len(t) /\ t[i] \in ValueTokens /\ Sym(t, i + 1) = ":" /\ Nest(t, i) = 1
    BY DEF KeysOf, IsNameAt, ValueTokens
  <2>0. i \in 1 .. Len(t)
    BY <2>1
  <2>2. i = c + 1 \/ i = c + 2 \/ i \in (c + 2) + 1 .. k - 1
    BY <1>0, <1>1, <1>6, <2>0
  <2>3. CASE i = c + 1
    BY <1>4, <2>1, <2>3, WordsAreNoMarks DEF Marks
  <2>4. CASE i = c + 2
    <3>1. c + 2 \in 1 .. Len(t) + 1 /\ k \in 1 .. Len(t) + 1
      BY <1>0, <1>1
    <3>2. t[c + 2] \notin Opening
      BY <2>1, <2>4, WordsAreNoMarks DEF Opening, Marks
    <3>3. k = (c + 2) + 1
      BY <1>1, <1>2, <3>1, <3>2, ValueUnfold
    <3>4. Sym(t, k) = ":"
      BY <2>1, <2>4, <3>3
    <3>5. t[k] \in {"}", ","}
      BY <1>2, <1>10 DEF Rest
    <3> QED BY <1>4, <3>4, <3>5
  <2>5. CASE i \in (c + 2) + 1 .. k - 1
    <3>1. Nest(t, i) > Nest(t, c + 2)
      BY <1>5, <2>5 DEF Above
    <3> QED BY <1>5, <2>1, <3>1
  <2> QED BY <2>2, <2>3, <2>4, <2>5
<1>7. ASSUME NEW i \in KeysOf(t), i < k PROVE Decoded[t[i]] # w
  <2>1. i \in 1 .. Len(t)
    BY <1>1
  <2>2. i < c \/ i = c \/ (c < i /\ i < k)
    BY <1>1, <1>7, <2>1
  <2>3. i < c => Decoded[t[i]] # w
    BY DEF Seeking
  <2> QED BY <1>1, <1>6, <2>2, <2>3
<1>8. ASSUME Sym(t, k) = "," PROVE Seeking(t, k + 1, w)
  <2>1. t[k] = ","
    BY <1>4, <1>8
  <2>2. ItemsAre(t, "{", k + 1, Len(t))
    BY <1>2, <1>10, <2>1 DEF Rest
  <2>3. Nest(t, k + 1) = 1
    BY <1>0, <1>5, <2>1, NestKeeps
  <2>4. ASSUME NEW i \in KeysOf(t), i < k + 1 PROVE Decoded[t[i]] # w
    <3>1. i \in 1 .. Len(t) /\ t[i] \in ValueTokens
      BY DEF KeysOf, IsNameAt, ValueTokens
    <3>2. i # k
      BY <2>1, <3>1, WordsAreNoMarks DEF Marks
    <3>3. i < k
      BY <1>0, <2>4, <3>1, <3>2
    <3> QED BY <1>7, <3>3
  <2>5. k + 1 \in Nat /\ 2 <= k + 1 /\ k + 1 <= Len(t)
    <3>0. "{" \in Opening
      BY DEF Opening
    <3>1. k + 1 \in 1 .. Len(t)
      BY <1>1, <2>2, <3>0, ItemsSpan
    <3> QED BY <1>0, <1>1, <3>1, SeekBounds
  <2> QED BY <1>1, <1>10, <2>2, <2>3, <2>4, <2>5 DEF Seeking
<1>9. ASSUME Sym(t, k) # "," PROVE Without(t, w)
  <2>1. k = Len(t)
    BY <1>2, <1>4, <1>9 DEF Rest
  <2>2. ASSUME NEW i \in KeysOf(t) PROVE i < k
    <3>1. i \in 1 .. Len(t) /\ i # Len(t)
      BY <1>1
    <3> QED BY <1>1, <2>1, <3>1, SeekBounds
  <2> QED BY <1>7, <2>2 DEF Without
<1> QED BY <1>3, <1>8, <1>9

-----------------------------------------------------------------------------
(* JSON: the invariant.                                                    *)

Result(t, w, f) ==
  \/ f = -1 /\ Without(t, w)
  \/ f # -1 /\ f - 2 \in KeysOf(t) /\ Decoded[t[f - 2]] = w /\ f \in 1 .. Len(t)
NoneLegal(t, dia) == \A j \in 2 .. Len(t) + 1 : ~LegalAt(t, dia, j)

JsonInv ==
  /\ dialect \in {"request", "header"} /\ Len(text) \in Nat /\ verdict \in {"none", "ok", "bad"}
  /\ verdict = "none" =>
       want = "" /\ found = 0 /\ Parse(text, dialect, cursor, stack, expect, depth, keys)
  /\ verdict = "bad" => want = "" /\ found = 0 /\ NoneLegal(text, dialect)
  /\ verdict = "ok" /\ want = "" =>
       found = 0 /\ cursor \in 1 .. Len(text) + 1 /\ LegalAt(text, dialect, cursor)
  /\ verdict = "ok" /\ want # "" /\ found = 0 => Seeking(text, cursor, want)
  /\ verdict = "ok" /\ want # "" /\ found # 0 => Result(text, want, found)

LEMMA SizeIs == \A S : Json!Cardinality(S) = Cardinality(S)
  BY DEF Json!Cardinality, Cardinality

LEMMA TokenIs == Json!Token = Sym(text, cursor) /\ \A i : Json!At(i) = Sym(text, i)
  BY DEF Json!Token, Json!At, Sym

LEMMA JsonInit ==
  ASSUME Json!Init
  PROVE  JsonInv
<1>1. /\ dialect \in {"request", "header"} /\ text \in Texts /\ cursor = 1 /\ stack = <<>> /\ depth = 0
      /\ expect = "value" /\ keys = {} /\ verdict = "none" /\ want = "" /\ found = 0
  BY DEF Json!Init, Json!Unknown
<1>2. Len(text) \in Nat
  BY <1>1, JsonAssumption
<1>3. Parse(text, dialect, 1, <<>>, "value", 0, {})
  BY <1>2, ParseFirst
<1>4. Parse(text, dialect, cursor, stack, expect, depth, keys)
  BY <1>1, <1>3
<1> QED BY <1>1, <1>2, <1>4 DEF JsonInv

\* The parser goes on.
LEMMA JsonGoesOn ==
  ASSUME JsonInv, Json!Advance, Parse(text, dialect, cursor + 1, stack', expect', depth', keys')
  PROVE  JsonInv'
<1>1. /\ verdict = "none" /\ cursor' = cursor + 1
      /\ dialect' = dialect /\ text' = text /\ verdict' = verdict /\ want' = want /\ found' = found
  BY DEF Json!Advance
<1>2. dialect \in {"request", "header"} /\ Len(text) \in Nat /\ want = "" /\ found = 0
  BY <1>1 DEF JsonInv
<1>3. Parse(text', dialect', cursor', stack', expect', depth', keys')
  BY <1>1
<1> QED BY <1>1, <1>2, <1>3 DEF JsonInv

LEMMA JsonParsing ==
  ASSUME JsonInv, verdict = "none"
  PROVE  /\ Parse(text, dialect, cursor, stack, expect, depth, keys)
         /\ stack \in Seq(Opening) /\ dialect \in {"request", "header"}
         /\ want = "" /\ found = 0 /\ Len(text) \in Nat
  BY ParseNow DEF JsonInv

LEMMA JsonScalar ==
  ASSUME JsonInv, Json!Scalar
  PROVE  JsonInv'
<1>1. /\ Json!ValueDue /\ Json!MayNest /\ (dialect = "request" => stack # <<>>)
      /\ Json!Token \in Literals \union Json!Strings
      /\ Json!Advance /\ expect' = Json!After(stack)
      /\ stack' = stack /\ depth' = depth /\ keys' = keys
  BY DEF Json!Scalar, Json!ScalarHere
<1>2. Parse(text, dialect, cursor, stack, expect, depth, keys)
  BY <1>1, JsonParsing DEF Json!Advance
<1>3. DueAt(stack, expect)
  BY <1>1 DEF Json!ValueDue, Json!Inside, DueAt
<1>4. Sym(text, cursor) \in ValueTokens
  BY <1>1, TokenIs DEF ValueTokens, Json!Strings
<1>5. dialect = "request" => Len(stack) <= MaxDepth + 1 /\ stack # <<>>
  BY <1>1 DEF Json!MayNest
<1>6. expect' = AfterAt(stack)
  BY <1>1 DEF Json!After, AfterAt
<1>7. Parse(text, dialect, cursor + 1, stack, AfterAt(stack), depth, keys)
  BY <1>2, <1>3, <1>4, <1>5, ParseScalar
<1>8. Parse(text, dialect, cursor + 1, stack', expect', depth', keys')
  BY <1>1, <1>6, <1>7
<1> QED BY <1>1, <1>8, JsonGoesOn

LEMMA JsonOpen ==
  ASSUME JsonInv, Json!Open
  PROVE  JsonInv'
<1>1. /\ Json!ValueDue /\ Json!MayOpen /\ Json!Token \in {"{", "["}
      /\ Json!Advance /\ stack' = <<Json!Token>> \o stack
      /\ expect' = "first" /\ depth' = depth + 1 /\ keys' = keys
  BY DEF Json!Open, Json!OpenHere
<1>2. Parse(text, dialect, cursor, stack, expect, depth, keys)
  BY <1>1, JsonParsing DEF Json!Advance
<1>3. DueAt(stack, expect)
  BY <1>1 DEF Json!ValueDue, Json!Inside, DueAt
<1>4. Json!Token = Sym(text, cursor) /\ Json!Token \in Opening
  BY <1>1, TokenIs DEF Opening
<1>5. /\ dialect = "request" => Len(stack) <= MaxDepth + 1 /\ (stack = <<>> => Json!Token = "{")
      /\ dialect = "header" => depth < MaxDepth
  BY <1>1 DEF Json!MayOpen, Json!MayNest
<1>7. Parse(text, dialect, cursor + 1, <<Json!Token>> \o stack, "first", depth + 1, keys)
  BY <1>2, <1>3, <1>4, <1>5, ParseOpen
<1>8. Parse(text, dialect, cursor + 1, stack', expect', depth', keys')
  BY <1>1, <1>7
<1> QED BY <1>1, <1>8, JsonGoesOn

LEMMA JsonClose ==
  ASSUME JsonInv, Json!Close
  PROVE  JsonInv'
<1>1. /\ expect \in {"first", "after"}
      /\ \/ Json!Inside("{") /\ Json!Token = "}"
         \/ Json!Inside("[") /\ Json!Token = "]"
      /\ Json!Advance /\ stack' = Tail(stack) /\ expect' = Json!After(Tail(stack))
      /\ depth' = depth - 1 /\ keys' = keys
  BY DEF Json!Close, Json!CloseHere
<1>2. Parse(text, dialect, cursor, stack, expect, depth, keys)
  BY <1>1, JsonParsing DEF Json!Advance
<1>3. stack # <<>> /\ Sym(text, cursor) = Closer(Head(stack))
  BY <1>1, TokenIs DEF Json!Inside, Closer
<1>6. expect' = AfterAt(Tail(stack))
  BY <1>1 DEF Json!After, AfterAt
<1>7. Parse(text, dialect, cursor + 1, Tail(stack), AfterAt(Tail(stack)), depth - 1, keys)
  BY <1>1, <1>2, <1>3, ParseClose
<1>8. Parse(text, dialect, cursor + 1, stack', expect', depth', keys')
  BY <1>1, <1>6, <1>7
<1> QED BY <1>1, <1>8, JsonGoesOn

LEMMA JsonName ==
  ASSUME JsonInv, Json!Name
  PROVE  JsonInv'
<1>1. /\ expect = "name" \/ (expect = "first" /\ Json!Inside("{"))
      /\ Json!Token \in Json!Strings
      /\ Json!OuterName => /\ Cardinality(keys) < KeyLimit
                           /\ Json!Token \notin LongNames
                           /\ Decoded[Json!Token] \notin keys
      /\ Json!Advance /\ expect' = "colon"
      /\ keys' = IF Json!OuterName THEN keys \union {Decoded[Json!Token]} ELSE keys
      /\ stack' = stack /\ depth' = depth
  <2>1. Json!NameHere /\ Json!Advance
    BY DEF Json!Name
  <2>2. expect' = "colon" /\ stack' = stack /\ depth' = depth
    BY DEF Json!Name
  <2>3. keys' = IF Json!OuterName THEN keys \union {Decoded[Json!Token]} ELSE keys
    BY DEF Json!Name
  <2>4. /\ expect = "name" \/ (expect = "first" /\ Json!Inside("{"))
        /\ Json!Token \in Json!Strings
        /\ Json!OuterName => /\ Cardinality(keys) < KeyLimit
                             /\ Json!Token \notin LongNames
                             /\ Decoded[Json!Token] \notin keys
    BY <2>1, SizeIs DEF Json!NameHere
  <2> QED BY <2>1, <2>2, <2>3, <2>4
<1>2. Parse(text, dialect, cursor, stack, expect, depth, keys)
  BY <1>1, JsonParsing DEF Json!Advance
<1>3. NameDueAt(stack, expect)
  <2>1. Shape(text, cursor, stack, expect)
    BY <1>2, ParseNow
  <2> QED BY <1>1, <2>1 DEF Json!Inside, NameDueAt, Shape
<1>4. Json!Token = Sym(text, cursor) /\ Sym(text, cursor) \in DOMAIN Decoded
  BY <1>1, TokenIs DEF Json!Strings
<1>5. Json!OuterName <=> dialect = "request" /\ Len(stack) = 1
  BY DEF Json!OuterName
<1>6. dialect = "request" /\ Len(stack) = 1 =>
           /\ Cardinality(keys) < KeyLimit /\ Sym(text, cursor) \notin LongNames
           /\ Decoded[Sym(text, cursor)] \notin keys
           /\ keys' = keys \union {Decoded[Sym(text, cursor)]}
  BY <1>1, <1>4, <1>5
<1>7. Len(stack) # 1 => keys' = keys
  BY <1>1, <1>5
<1>8. Parse(text, dialect, cursor + 1, stack, "colon", depth, keys')
  BY <1>2, <1>3, <1>4, <1>6, <1>7, ParseName
<1>9. Parse(text, dialect, cursor + 1, stack', expect', depth', keys')
  BY <1>1, <1>8
<1> QED BY <1>1, <1>9, JsonGoesOn

LEMMA JsonColon ==
  ASSUME JsonInv, Json!Colon
  PROVE  JsonInv'
<1>1. /\ expect = "colon" /\ Json!Token = ":" /\ Json!Advance /\ expect' = "value"
      /\ stack' = stack /\ depth' = depth /\ keys' = keys
  BY DEF Json!Colon, Json!ColonHere
<1>2. Parse(text, dialect, cursor, stack, "colon", depth, keys)
  BY <1>1, JsonParsing DEF Json!Advance
<1>3. Parse(text, dialect, cursor + 1, stack, "value", depth, keys)
  BY <1>1, <1>2, TokenIs, ParseColon
<1> QED BY <1>1, <1>3, JsonGoesOn

LEMMA JsonComma ==
  ASSUME JsonInv, Json!Comma
  PROVE  JsonInv'
<1>1. /\ expect = "after" /\ Json!Token = "," /\ Json!Advance
      /\ expect' = IF Json!Inside("{") THEN "name" ELSE "value"
      /\ stack' = stack /\ depth' = depth /\ keys' = keys
  BY DEF Json!Comma, Json!CommaHere
<1>2. Parse(text, dialect, cursor, stack, "after", depth, keys)
  BY <1>1, JsonParsing DEF Json!Advance
<1>3. stack # <<>>
  <2>1. Shape(text, cursor, stack, "after")
    BY <1>2, ParseNow
  <2> QED BY <2>1 DEF Shape
<1>4. expect' = IF Head(stack) = "{" THEN "name" ELSE "value"
  BY <1>1, <1>3 DEF Json!Inside
<1>5. Parse(text, dialect, cursor + 1, stack, expect', depth, keys)
  BY <1>1, <1>2, <1>4, TokenIs, ParseComma
<1>6. Parse(text, dialect, cursor + 1, stack', expect', depth', keys')
  BY <1>1, <1>5
<1> QED BY <1>1, <1>6, JsonGoesOn

LEMMA JsonAccept ==
  ASSUME JsonInv, Json!Accept
  PROVE  JsonInv'
<1>1. /\ verdict = "none" /\ expect = "end" /\ (dialect = "request" => cursor = Len(text) + 1)
      /\ verdict' = "ok" /\ dialect' = dialect /\ text' = text /\ cursor' = cursor
      /\ want' = want /\ found' = found
  BY DEF Json!Accept, Json!Accepted
<1>2. /\ Parse(text, dialect, cursor, stack, "end", depth, keys)
      /\ dialect \in {"request", "header"} /\ want = "" /\ found = 0 /\ Len(text) \in Nat
  BY <1>1, JsonParsing
<1>3. LegalAt(text, dialect, cursor)
  BY <1>1, <1>2, AcceptedIsLegal
<1>4. cursor \in 1 .. Len(text) + 1
  BY <1>2, ParseNow DEF ReadingAt
<1> QED BY <1>1, <1>2, <1>3, <1>4 DEF JsonInv

LEMMA JsonReject ==
  ASSUME JsonInv, Json!Reject
  PROVE  JsonInv'
<1>1. /\ verdict = "none" /\ ~Json!Accepted
      /\ ~(\/ Json!ScalarHere \/ Json!OpenHere \/ Json!CloseHere
           \/ Json!NameHere \/ Json!ColonHere \/ Json!CommaHere)
      /\ verdict' = "bad" /\ dialect' = dialect /\ text' = text
      /\ want' = want /\ found' = found
  BY DEF Json!Reject
<1>2. /\ Parse(text, dialect, cursor, stack, expect, depth, keys)
      /\ dialect \in {"request", "header"} /\ want = "" /\ found = 0 /\ Len(text) \in Nat
      /\ stack \in Seq(Opening)
  BY <1>1, JsonParsing
<1> DEFINE tok == Sym(text, cursor)
<1>0. Json!Token = tok
  BY TokenIs
<1> HIDE DEF tok
<1>3. ~(expect = "end" /\ (dialect = "request" => cursor = Len(text) + 1))
  BY <1>1 DEF Json!Accepted
<1>10. Json!ValueDue <=> DueAt(stack, expect)
  BY DEF Json!ValueDue, DueAt, Json!Inside
<1>4. ~(/\ DueAt(stack, expect) /\ (dialect = "request" => Len(stack) <= MaxDepth + 1)
        /\ (dialect = "request" => stack # <<>>) /\ tok \in ValueTokens)
  BY <1>0, <1>1, <1>10 DEF Json!ScalarHere, Json!MayNest, ValueTokens, Json!Strings
<1>5. ~(/\ DueAt(stack, expect) /\ (dialect = "request" => Len(stack) <= MaxDepth + 1)
        /\ (dialect = "request" /\ stack = <<>> => tok = "{")
        /\ (dialect = "header" => depth < MaxDepth) /\ tok \in Opening)
  BY <1>0, <1>1, <1>10 DEF Json!OpenHere, Json!MayOpen, Json!MayNest, Opening
<1>6. ~(expect \in {"first", "after"} /\ stack # <<>> /\ tok = Closer(Head(stack)))
  <2>1. stack # <<>> => Head(stack) \in Opening
    BY <1>2, StackFacts
  <2> QED BY <1>0, <1>1, <2>1 DEF Json!CloseHere, Json!Inside, Closer, Opening
<1>7. ~(/\ NameDueAt(stack, expect) /\ tok \in DOMAIN Decoded
        /\ (dialect = "request" /\ Len(stack) = 1 =>
              Cardinality(keys) < KeyLimit /\ tok \notin LongNames /\ Decoded[tok] \notin keys))
  <2>1. ASSUME NameDueAt(stack, expect), tok \in DOMAIN Decoded,
               dialect = "request" /\ Len(stack) = 1 =>
                 Cardinality(keys) < KeyLimit /\ tok \notin LongNames /\ Decoded[tok] \notin keys
        PROVE  FALSE
    <3>1. expect = "name" \/ (expect = "first" /\ Json!Inside("{"))
      BY <2>1 DEF NameDueAt, Json!Inside
    <3>2. Json!Token \in Json!Strings
      BY <1>0, <2>1 DEF Json!Strings
    <3>3. Json!OuterName => /\ Cardinality(keys) < KeyLimit
                            /\ Json!Token \notin LongNames
                            /\ Decoded[Json!Token] \notin keys
      BY <1>0, <2>1 DEF Json!OuterName
    <3>4. Json!NameHere
      BY <3>1, <3>2, <3>3, SizeIs DEF Json!NameHere
    <3> QED BY <1>1, <3>4
  <2> QED BY <2>1
<1>8. ~(expect = "colon" /\ tok = ":") /\ ~(expect = "after" /\ tok = ",")
  BY <1>0, <1>1 DEF Json!ColonHere, Json!CommaHere
<1>9. Stuck(text, dialect, cursor, stack, expect, depth, keys)
  BY <1>3, <1>4, <1>5, <1>6, <1>7, <1>8 DEF Stuck, tok
<1>11. \A j \in Int : ~LegalAt(text, dialect, j)
  BY <1>2, <1>9, RejectedIsIllegal
<1>12. NoneLegal(text, dialect)
  <2>1. \A j \in 2 .. Len(text) + 1 : j \in Int
    OBVIOUS
  <2> QED BY <1>11, <2>1 DEF NoneLegal
<1> QED BY <1>1, <1>2, <1>12 DEF JsonInv

LEMMA JsonLookup ==
  ASSUME JsonInv, NEW key \in {Decoded[t] : t \in Json!Strings} \ {""}, Json!Lookup(key)
  PROVE  JsonInv'
<1>1. /\ dialect = "request" /\ verdict = "ok" /\ want = "" /\ want' = key /\ key # "" /\ cursor' = 2
      /\ dialect' = dialect /\ text' = text /\ verdict' = verdict /\ found' = found
  BY DEF Json!Lookup
<1>2. found = 0 /\ LegalAt(text, "request", cursor) /\ Len(text) \in Nat
  BY <1>1 DEF JsonInv
<1>3. Seeking(text, 2, key)
  BY <1>2, SeekFirst
<1>4. Seeking(text', cursor', want')
  BY <1>1, <1>3
<1> QED BY <1>1, <1>2, <1>4 DEF JsonInv

LEMMA BracketsAre ==
  \A a, b : /\ Json!Opens(a, b - 1) = Count(text, Opening, a, b)
            /\ Json!Closes(a, b - 1) = Count(text, Closing, a, b)
<1>1. ASSUME NEW a, NEW b
      PROVE  /\ Json!Opens(a, b - 1) = Count(text, Opening, a, b)
             /\ Json!Closes(a, b - 1) = Count(text, Closing, a, b)
  <2>1. {k \in a .. b - 1 : text[k] \in {"{", "["}} = Brackets(text, Opening, a, b)
    BY DEF Brackets, Opening
  <2>2. {k \in a .. b - 1 : text[k] \in {"}", "]"}} = Brackets(text, Closing, a, b)
    BY DEF Brackets, Closing
  <2> QED BY <2>1, <2>2, SizeIs DEF Json!Opens, Json!Closes, Count
<1> QED BY <1>1

LEMMA NestingIs == \A i : Json!Nesting(i) = Nest(text, i)
  BY BracketsAre DEF Json!Nesting, Nest

LEMMA SkipIs ==
  ASSUME NEW i
  PROVE  Json!Skip(i) = SkipOf(text, i)
  BY BracketsAre DEF Json!Skip, SkipOf

LEMMA JsonSeek ==
  ASSUME JsonInv, Json!Seek
  PROVE  JsonInv'
<1>1. /\ want # "" /\ found = 0
      /\ dialect' = dialect /\ text' = text /\ verdict' = verdict /\ want' = want
  BY DEF Json!Seek, Json!Unknown
<1> DEFINE tok == Sym(text, cursor)
           next == SkipOf(text, cursor + 2)
<1>0. Json!Token = tok /\ Json!Skip(cursor + 2) = next
  BY TokenIs, SkipIs
<1>2. /\ dialect \in {"request", "header"} /\ Len(text) \in Nat /\ verdict = "ok"
      /\ Seeking(text, cursor, want)
  BY <1>1 DEF JsonInv
<1>3. \/ tok \notin DOMAIN Decoded /\ found' = -1
      \/ tok \in DOMAIN Decoded /\ Decoded[tok] = want /\ found' = cursor + 2
      \/ tok \in DOMAIN Decoded /\ Decoded[tok] # want /\ Sym(text, next) = "," /\ cursor' = next + 1 /\ found' = found
      \/ tok \in DOMAIN Decoded /\ Decoded[tok] # want /\ Sym(text, next) # "," /\ found' = -1
  <2> HIDE DEF tok, next
  <2>1. Json!At(next) = Sym(text, next)
    BY TokenIs
  <2> QED BY <1>0, <2>1 DEF Json!Seek, Json!Strings, Json!Absent
<1>9. ASSUME found' # 0, Result(text, want, found') PROVE JsonInv'
  <2>1. Result(text', want', found')
    BY <1>1, <1>9
  <2> QED BY <1>1, <1>2, <1>9, <2>1 DEF JsonInv
<1>10. -1 # 0
  OBVIOUS
<1>4. CASE tok \notin DOMAIN Decoded /\ found' = -1
  <2>1. Without(text, want)
    BY <1>2, <1>4, SeekEnds
  <2> QED BY <1>4, <1>9, <1>10, <2>1 DEF Result
<1>5. CASE tok \in DOMAIN Decoded /\ Decoded[tok] = want /\ found' = cursor + 2
  <2>1. /\ cursor \in KeysOf(text) /\ Decoded[text[cursor]] = want /\ cursor + 2 \in 1 .. Len(text)
        /\ cursor \in Nat /\ 1 <= cursor
    BY <1>2, <1>5, SeekHits
  <2>2. cursor \in Nat
    BY <2>1
  <2>3. (cursor + 2) - 2 = cursor /\ cursor + 2 # 0 /\ cursor + 2 # -1
    BY <2>2
  <2>4. Result(text, want, found')
    BY <1>5, <2>1, <2>3 DEF Result
  <2> QED BY <1>5, <1>9, <2>3, <2>4
<1>6. CASE tok \in DOMAIN Decoded /\ Decoded[tok] # want /\ Sym(text, next) = "," /\ cursor' = next + 1 /\ found' = found
  <2>1. Seeking(text, next + 1, want)
    BY <1>2, <1>6, SeekSkips
  <2>2. Seeking(text', cursor', want')
    BY <1>1, <1>6, <2>1
  <2> QED BY <1>1, <1>2, <1>6, <2>2 DEF JsonInv
<1>7. CASE tok \in DOMAIN Decoded /\ Decoded[tok] # want /\ Sym(text, next) # "," /\ found' = -1
  <2>1. Without(text, want)
    BY <1>2, <1>7, SeekSkips
  <2> QED BY <1>7, <1>9, <1>10, <2>1 DEF Result
<1> QED BY <1>3, <1>4, <1>5, <1>6, <1>7

LEMMA JsonStutter ==
  ASSUME JsonInv, UNCHANGED json
  PROVE  JsonInv'
<1>1. /\ dialect' = dialect /\ text' = text /\ cursor' = cursor /\ stack' = stack /\ expect' = expect
      /\ depth' = depth /\ keys' = keys /\ verdict' = verdict /\ want' = want /\ found' = found
  BY DEF json
<1> QED BY <1>1 DEF JsonInv

LEMMA JsonStep ==
  ASSUME JsonInv, Json!Next
  PROVE  JsonInv'
<1>1. CASE Json!Finished
  BY <1>1, JsonStutter DEF Json!Finished, Json!vars, json
<1> QED BY <1>1, JsonScalar, JsonOpen, JsonClose, JsonName, JsonColon, JsonComma, JsonAccept,
           JsonReject, JsonLookup, JsonSeek DEF Json!Next

\* The invariant is what the property asks.
LEMMA LegalIs ==
  ASSUME Len(text) \in Nat, NEW j \in 1 .. Len(text) + 1
  PROVE  Json!Legal(j) <=> LegalAt(text, dialect, j)
<1>1. Json!Derives[<<"value", 1, j>>] <=> ValueIs(text, 1, j)
  <2>1. 1 \in 1 .. Len(text) + 1
    OBVIOUS
  <2> QED BY <2>1, DerivesPhrases DEF ValueIs
<1>2. \A i : Json!Nesting(i) = Nest(text, i)
  BY NestingIs
<1>3. \A i : Json!IsName(i) <=> IsNameAt(text, i)
  BY TokenIs DEF Json!IsName, IsNameAt, Json!Strings
<1>4. Json!Keys = KeysOf(text)
  BY <1>2, <1>3 DEF Json!Keys, KeysOf
<1>5. (\A i \in 1 .. j - 1 : text[i] \in {"{", "["} => Json!Nesting(i) < MaxDepth) <=> HeaderFits(text, j)
  BY <1>2 DEF HeaderFits, Opening
<1>6. (\A i \in 1 .. j - 1 : Json!Nesting(i) > MaxDepth + 1 => text[i] \in {"}", "]"} \/ Json!IsName(i))
      <=> \A i \in 1 .. j - 1 : Nest(text, i) > MaxDepth + 1 => text[i] \in Closing \/ IsNameAt(text, i)
  BY <1>2, <1>3 DEF Closing
<1>7. (\A i, k \in Json!Keys : text[i] \notin LongNames /\ (i # k => Decoded[text[i]] # Decoded[text[k]]))
      <=> Different(text, KeysOf(text))
  BY <1>4 DEF Different
<1> QED BY <1>1, <1>4, <1>5, <1>6, <1>7, SizeIs DEF Json!Legal, LegalAt

LEMMA JsonIsRead ==
  ASSUME JsonInv
  PROVE  Json!ReadsWhatIsWritten
<1>1. Len(text) \in Nat /\ verdict \in {"none", "ok", "bad"}
  BY DEF JsonInv
<1>2. verdict = "ok" /\ want = "" => Json!Legal(cursor)
  BY <1>1, LegalIs DEF JsonInv
<1>3. ASSUME verdict = "bad", NEW j \in 2 .. Len(text) + 1 PROVE ~Json!Legal(j)
  <2>1. j \in 1 .. Len(text) + 1
    BY <1>1
  <2>2. ~LegalAt(text, dialect, j)
    BY <1>3 DEF JsonInv, NoneLegal
  <2> QED BY <1>1, <2>1, <2>2, LegalIs
<1>4. found # 0 => Result(text, want, found)
  BY <1>1 DEF JsonInv
<1>5. Json!Keys = KeysOf(text)
  <2>2. \A i : Json!Nesting(i) = Nest(text, i)
    BY NestingIs
  <2>3. \A i : Json!IsName(i) <=> IsNameAt(text, i)
    BY TokenIs DEF Json!IsName, IsNameAt, Json!Strings
  <2> QED BY <2>2, <2>3 DEF Json!Keys, KeysOf
<1>6. found # 0 => IF found = -1 THEN \A i \in Json!Keys : Decoded[text[i]] # want
                   ELSE found - 2 \in Json!Keys /\ Decoded[text[found - 2]] = want
  BY <1>4, <1>5 DEF Result, Without
<1>7. ASSUME found # 0, Json!OptionalU64 = 1 PROVE \E i \in Json!Keys : text[i + 2] \in Integral
  <2>1. found # -1 /\ Json!At(found) \in Integral
    BY <1>7 DEF Json!OptionalU64, Json!Absent
  <2>2. found - 2 \in Json!Keys /\ found \in 1 .. Len(text)
    BY <1>4, <1>5, <1>7, <2>1 DEF Result
  <2>3. (found - 2) + 2 = found /\ found <= Len(text)
    BY <1>1, <2>2
  <2>4. text[(found - 2) + 2] \in Integral
    BY <2>1, <2>3 DEF Json!At
  <2> QED BY <2>2, <2>4
<1> QED BY <1>2, <1>3, <1>6, <1>7 DEF Json!ReadsWhatIsWritten, Json!Unknown, Json!Absent

(* Of any text, however deep and long: a reader accepts exactly the        *)
(* documents of JSON's grammar within the limits and ends where the        *)
(* grammar ends them, a request has no key twice however it is spelled,    *)
(* and a lookup, which knows of values only how their brackets balance,    *)
(* finds the value of the outermost member of that name and nothing inside *)
(* another value (nya_json_validate, nya_json_skip_value and the readers   *)
(* of format_safetensors.c; nya_json_value, nya_json_optional_u64).        *)
THEOREM TextsAreReadExactly == InputsSpec => []ReadsWhatIsWritten
<1> DEFINE Inv == driven = "json" => JsonInv
<1>1. InputsInit => Inv
  BY JsonInit DEF InputsInit
<1>2. Inv /\ [InputsNext]_all => Inv'
  <2> SUFFICES ASSUME Inv, [InputsNext]_all, (driven = "json")' PROVE JsonInv'
    OBVIOUS
  <2>1. driven = "json" /\ (Json!Next \/ UNCHANGED json)
    BY DEF InputsNext, all
  <2> QED BY <2>1, JsonStep, JsonStutter
<1>3. Inv => ReadsWhatIsWritten
  BY JsonIsRead DEF ReadsWhatIsWritten
<1> QED BY <1>1, <1>2, <1>3, PTL DEF InputsSpec
=============================================================================
