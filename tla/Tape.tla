-------------------------------- MODULE Tape --------------------------------
(***************************************************************************)
(* Reverse-mode differentiation (training.c).  Operations record nodes on  *)
(* a graph in the order of their construction; backward walks them from    *)
(* the last to the first, and each adds to the gradients of its operands.  *)
(* Leaves borrow the values and the gradient of a parameter, which add up  *)
(* over leaves and graphs until they are zeroed.  Numbers are integers,    *)
(* finite up to a bound, and the operations are those with an integer      *)
(* derivative.  A tensor is a sequence, row after row.                     *)
(***************************************************************************)
EXTENDS Integers, Sequences, Folds

CONSTANTS Parameters,  \* [rows, columns, data] of each parameter, by its name
          Inputs,      \* [rows, columns, data] of what is not learnt
          Frozen,      \* mapped matrices, likewise
          Identifiers, \* sequences of table rows (from 1) to look up
          Slices,      \* [first, count]
          Shapes,      \* <<rows, columns>> that reshape is asked for
          Scalars,     \* factors of scale
          Allowance,   \* numbers that a graph may allocate
          Finite,      \* the largest finite number
          MaxNodes     \* the nodes of each graph in turn; no more steps of the
                       \* optimizer than graphs (bounds)

VARIABLES
  phase,        \* "none" (no graph), "build", "walk", "walked"
  evaluation,   \* the graph was created for evaluation
  nodes,        \* the list that ends in nya_train_graph.last
  used, error,
  loss, at,     \* where backward began, the node it visits next
  gradient,     \* by cell: <<"node", i>> or <<"parameter", p>>
  before,       \* the parameters' gradients when the graph was created
  values,       \* the parameters' data
  steps, applied, \* AdamW steps, and how many reached each parameter
  graphs

graph == <<phase, evaluation, nodes, used, error, loss, at>>
learnt == <<values, steps, applied>>
vars  == <<graph, gradient, before, learnt, graphs>>

Names    == DOMAIN Parameters
Count(t) == t.rows * t.columns
Zeros(n) == [i \in 1 .. n |-> 0]
Sum(f)   == MapThenFoldSet(LAMBDA a, b : a + b, 0, LAMBDA i : f[i], LAMBDA S : CHOOSE x \in S : TRUE, DOMAIN f)
IsFinite(data) == \A i \in DOMAIN data : data[i] \in -Finite .. Finite

Init == /\ phase = "none" /\ evaluation = FALSE /\ nodes = <<>> /\ used = 0
        /\ error = FALSE /\ loss = 0 /\ at = 0
        /\ gradient = [cell \in {"parameter"} \X Names |-> Zeros(Count(Parameters[cell[2]]))]
        /\ before = gradient
        /\ values = [p \in Names |-> Parameters[p].data]
        /\ steps = 0 /\ applied = [p \in Names |-> 0]
        /\ graphs = 0

-----------------------------------------------------------------------------
(* What the operations compute.  Element k of a tensor of c columns is in  *)
(* row Row(k, c) and column Column(k, c), all counted from 1.              *)

Row(k, c)      == ((k - 1) \div c) + 1
Column(k, c)   == ((k - 1) % c) + 1
Element(t, row, column) == (row - 1) * t.columns + column

\* tr_index: one row, one column stand for all.
Broadcast(t, k, c) == Element(t, IF t.rows = 1 THEN 1 ELSE Row(k, c),
                                 IF t.columns = 1 THEN 1 ELSE Column(k, c))

\* The value of t where its operands have the values x and y; a and b are their
\* shapes.  It is linear in both together, or in each of them.
Value(t, a, x, b, y) ==
  [k \in 1 .. Count(t) |->
     LET row == Row(k, t.columns)
         column == Column(k, t.columns)
     IN  CASE t.op = "add"     -> x[Broadcast(a, k, t.columns)] + y[Broadcast(b, k, t.columns)]
           [] t.op = "mul"     -> x[Broadcast(a, k, t.columns)] * y[Broadcast(b, k, t.columns)]
           [] t.op = "scale"   -> t.of * x[k]
           [] t.op = "reshape" -> x[k]
           [] t.op = "slice"   -> x[Element(a, row, t.of + column)]
           [] t.op = "embed"   -> x[Element(a, t.of[row], column)]
           [] t.op = "linear"  -> Sum([i \in 1 .. a.columns |-> x[Element(a, row, i)] * y[Element(b, column, i)]])
           [] t.op = "mapped"  -> Sum([i \in 1 .. a.columns |->
                                         x[Element(a, row, i)] * Frozen[t.of].data[Element(a, column, i)]])]

\* nya_train_rope, _rms_norm, _gelu, _attention, _logprob and _dpo are left out.

-----------------------------------------------------------------------------
(* Building                                                                *)

NewGraph(e) == /\ phase = "none" /\ graphs < Len(MaxNodes)
               /\ phase' = "build" /\ evaluation' = e /\ graphs' = graphs + 1
               /\ before' = gradient
               /\ UNCHANGED <<nodes, used, error, loss, at, gradient, learnt>>

\* tr_node, what else the operation allocates, and tr_finite.  A node that was
\* allocated stays on the graph's list; an error makes all later calls fail.
Record(op, a, b, rows, columns, of, learns, data, extra) ==
  LET t == [op |-> op, a |-> a, b |-> b, rows |-> rows, columns |-> columns, of |-> of,
            learns |-> learns /\ ~evaluation, data |-> data]
      owned == IF op = "leaf" THEN 0 ELSE Count(t) * (IF t.learns THEN 2 ELSE 1)
      node == <<"node", Len(nodes) + 1>>
  IN  /\ phase = "build" /\ ~error /\ Len(nodes) < MaxNodes[graphs]
      /\ IF used + owned + extra > Allowance
         THEN error' = TRUE /\ UNCHANGED <<nodes, used, gradient>>
         ELSE /\ nodes' = Append(nodes, t)
              /\ used' = used + owned + extra
              /\ error' = ~IsFinite(data)
              /\ gradient' = IF ~t.learns \/ op = "leaf" THEN gradient
                             ELSE [cell \in DOMAIN gradient \cup {node} |->
                                     IF cell = node THEN Zeros(Count(t)) ELSE gradient[cell]]
      /\ UNCHANGED <<phase, evaluation, loss, at, before, learnt, graphs>>

\* tr_error: an operation does not take these operands, or comes after backward.
Refuse == error' = TRUE /\ UNCHANGED <<phase, evaluation, nodes, used, loss, at, gradient, before, learnt, graphs>>

Computed(op, i, j, rows, columns, of, extra) ==
  LET a == nodes[i]
      b == nodes[j]
      t == [op |-> op, rows |-> rows, columns |-> columns, of |-> of]
  IN  Record(op, i, j, rows, columns, of, a.learns \/ b.learns, Value(t, a, a.data, b, b.data), extra)

Input(i) == Record("input", 0, 0, Inputs[i].rows, Inputs[i].columns, 0, FALSE, Inputs[i].data, 0)
Leaf(p)  == Record("leaf", 0, 0, Parameters[p].rows, Parameters[p].columns, p, TRUE, values[p], 0)

\* nya_train_add, nya_train_mul.
Larger(m, n) == IF m > n THEN m ELSE n
Matches(m, n) == m = n \/ m = 1 \/ n = 1

Binary(op, i, j) ==
  LET a == nodes[i]
      b == nodes[j]
  IN  IF Matches(a.rows, b.rows) /\ Matches(a.columns, b.columns)
      THEN Computed(op, i, j, Larger(a.rows, b.rows), Larger(a.columns, b.columns), 0, 0)
      ELSE Refuse

Scale(i, s) == Computed("scale", i, i, nodes[i].rows, nodes[i].columns, s, 0)

\* nya_train_slice_columns.
Slice(i, s) == IF s.first < nodes[i].columns /\ s.count <= nodes[i].columns - s.first
               THEN Computed("slice", i, i, nodes[i].rows, s.count, s.first, 0)
               ELSE Refuse

Reshape(i, shape) == IF shape[1] * shape[2] = Count(nodes[i])
                     THEN Computed("reshape", i, i, shape[1], shape[2], 0, 0)
                     ELSE Refuse

Linear(i, j) == IF nodes[i].columns = nodes[j].columns
                THEN Computed("linear", i, j, nodes[i].rows, nodes[j].rows, 0, 0)
                ELSE Refuse

\* nya_train_linear_mapped.
Mapped(i, m) == IF nodes[i].columns = Frozen[m].columns
                THEN Computed("mapped", i, i, nodes[i].rows, Frozen[m].rows, m, 0)
                ELSE Refuse

\* nya_train_embedding; the identifiers are kept for backward.
Embedding(i, ids) == IF \A n \in 1 .. Len(ids) : ids[n] <= nodes[i].rows
                     THEN Computed("embed", i, i, Len(ids), nodes[i].columns, ids,
                                   IF evaluation THEN 0 ELSE Len(ids))
                     ELSE Refuse

-----------------------------------------------------------------------------
(* Backward                                                                *)

Cell(i) == IF nodes[i].op = "leaf" THEN <<"parameter", nodes[i].of>> ELSE <<"node", i>>

\* nya_train_backward: once for a graph, from a scalar that learns.
Backward(i) == IF Count(nodes[i]) = 1 /\ nodes[i].learns
               THEN /\ phase' = "walk" /\ loss' = i /\ at' = Len(nodes)
                    /\ gradient' = [gradient EXCEPT ![Cell(i)][1] = @ + 1]
                    /\ UNCHANGED <<evaluation, nodes, used, error, before, learnt, graphs>>
               ELSE Refuse

UseAgain == phase = "walked" /\ ~error /\ Refuse

\* The operands of t that have a gradient.
Sides(t) == {side \in {"a", "b"} :
               /\ t.op \notin {"input", "leaf"}
               /\ side = "b" => t.op \in {"add", "mul", "linear"}
               /\ nodes[t[side]].learns}

\* What element e of an operand gets, dy being the gradient of t.
Adds(t, side, e, dy) ==
  LET o == nodes[t[side]]
      y == nodes[t[IF side = "a" THEN "b" ELSE "a"]]
      row == Row(e, o.columns)
      column == Column(e, o.columns)
      over(K, factor(_)) == Sum([k \in K |-> dy[k] * factor(k)])
      all == 1 .. Count(t)
  IN  CASE t.op = "add" -> over({k \in all : Broadcast(o, k, t.columns) = e}, LAMBDA k : 1)
        [] t.op = "mul" -> over({k \in all : Broadcast(o, k, t.columns) = e},
                                LAMBDA k : y.data[Broadcast(y, k, t.columns)])
        [] t.op = "scale"   -> dy[e] * t.of
        [] t.op = "reshape" -> dy[e]
        [] t.op = "slice"   -> IF column \in t.of + 1 .. t.of + t.columns
                               THEN dy[Element(t, row, column - t.of)] ELSE 0
        [] t.op = "embed"   -> over({Element(t, n, column) : n \in {n \in 1 .. t.rows : t.of[n] = row}}, LAMBDA k : 1)
        [] t.op = "mapped"  -> over({Element(t, row, c) : c \in 1 .. t.columns},
                                    LAMBDA k : Frozen[t.of].data[Element(o, Column(k, t.columns), column)])
        [] t.op = "linear" /\ side = "a" -> over({Element(t, row, c) : c \in 1 .. t.columns},
                                    LAMBDA k : y.data[Element(y, Column(k, t.columns), column)])
        [] t.op = "linear" /\ side = "b" -> over({Element(t, n, row) : n \in 1 .. t.rows},
                                    LAMBDA k : y.data[Element(y, Row(k, t.columns), column)])

\* Mutant: an operand that comes twice is added to once.
AccumulateOnce(t, dy) ==
  [cell \in DOMAIN gradient |->
     LET sides == {side \in Sides(t) : Cell(t[side]) = cell}
     IN  IF sides = {} THEN gradient[cell]
         ELSE LET side == CHOOSE s \in sides : TRUE
              IN  [e \in DOMAIN gradient[cell] |-> gradient[cell][e] + Adds(t, side, e, dy)]]

Accumulate(t, dy) ==
  [cell \in DOMAIN gradient |->
     LET sides == {side \in Sides(t) : Cell(t[side]) = cell}
     IN  [e \in DOMAIN gradient[cell] |->
            gradient[cell][e] + Sum([side \in sides |-> Adds(t, side, e, dy)])]]

\* One node, after all those that could have used it.
Visit == LET t == nodes[at]
         IN  /\ phase = "walk" /\ ~error
             /\ IF ~t.learns THEN UNCHANGED <<gradient, error>>
                ELSE IF ~IsFinite(gradient[Cell(at)]) THEN error' = TRUE /\ UNCHANGED gradient
                ELSE gradient' = Accumulate(t, gradient[Cell(at)]) /\ UNCHANGED error
             /\ at' = at - 1
             /\ phase' = IF at = 1 THEN "walked" ELSE "walk"
             /\ UNCHANGED <<evaluation, nodes, used, loss, before, learnt, graphs>>

\* The graph goes, with the gradients that are its own.
FreeGraph == /\ phase # "none"
             /\ phase' = "none" /\ nodes' = <<>> /\ used' = 0 /\ error' = FALSE
             /\ loss' = 0 /\ at' = 0 /\ evaluation' = FALSE
             /\ gradient' = [cell \in {"parameter"} \X Names |-> gradient[cell]]
             /\ UNCHANGED <<before, learnt, graphs>>

-----------------------------------------------------------------------------
(* The optimizer                                                           *)

ZeroGrad(p) == /\ phase = "none"
               /\ gradient' = [gradient EXCEPT ![<<"parameter", p>>] = Zeros(Count(Parameters[p]))]
               /\ UNCHANGED <<graph, before, learnt, graphs>>

\* The arithmetic of AdamW is a plain descent here.
Next0(p) == [e \in DOMAIN values[p] |-> values[p][e] - gradient[<<"parameter", p>>][e]]

Usable(p) == IsFinite(gradient[<<"parameter", p>>]) /\ IsFinite(Next0(p))

\* nya_train_adamw_step: all of the new values are staged, and one that is not
\* finite means that none is written.
Reached == IF \A p \in Names : Usable(p) THEN Names ELSE {}

Step == /\ phase = "none" /\ steps < graphs
        /\ values' = [p \in Names |-> IF p \in Reached THEN Next0(p) ELSE values[p]]
        /\ applied' = [p \in Names |-> IF p \in Reached THEN applied[p] + 1 ELSE applied[p]]
        /\ steps' = IF Reached = Names THEN steps + 1 ELSE steps
        /\ UNCHANGED <<graph, gradient, before, graphs>>

-----------------------------------------------------------------------------

Build == /\ phase = "build" /\ ~error
         /\ \E i \in 1 .. Len(nodes) :
           \/ \E j \in 1 .. Len(nodes) : \/ \E op \in {"add", "mul"} : Binary(op, i, j)
                                         \/ Linear(i, j)
           \/ \E s \in Scalars : Scale(i, s)
           \/ \E s \in Slices : Slice(i, s)
           \/ \E s \in Shapes : Reshape(i, s)
           \/ \E m \in DOMAIN Frozen : Mapped(i, m)
           \/ \E ids \in Identifiers : Embedding(i, ids)
           \/ Backward(i)

Next == \/ \E e \in BOOLEAN : NewGraph(e)
        \/ \E i \in DOMAIN Inputs : Input(i)
        \/ \E p \in Names : Leaf(p) \/ ZeroGrad(p)
        \/ Build \/ Visit \/ UseAgain \/ FreeGraph \/ Step

Spec == Init /\ [][Next]_vars

-----------------------------------------------------------------------------
(* Properties                                                              *)

\* The derivative of every node for element e of parameter p, by the rules of
\* forward differentiation: of what is linear in both operands together, the
\* value for their derivatives; else one operand after the other.
Tangent(p, e) ==
  LET d[i \in 1 .. Len(nodes)] ==
        LET t == nodes[i]
            a == nodes[t.a]
            b == nodes[t.b]
        IN  IF t.op \in {"input", "leaf"}
            THEN [k \in 1 .. Count(t) |-> IF t.op = "leaf" /\ t.of = p /\ k = e THEN 1 ELSE 0]
            ELSE IF t.op \in {"mul", "linear"}
            THEN LET first == Value(t, a, d[t.a], b, b.data)
                     second == Value(t, a, a.data, b, d[t.b])
                 IN  [k \in 1 .. Count(t) |-> first[k] + second[k]]
            ELSE Value(t, a, d[t.a], b, d[t.b])
  IN  d[loss][1]

(* After the walk each parameter's gradient has grown by the derivative of *)
(* the loss for it, over every path and every leaf that borrows it; until  *)
(* backward is called, and in evaluation, it has not changed.  A step of   *)
(* the optimizer reaches all parameters or none.                           *)
GradientsAreExact ==
  /\ phase = "walked" /\ ~error =>
       \A p \in Names : \A e \in 1 .. Count(Parameters[p]) :
         gradient[<<"parameter", p>>][e] = before[<<"parameter", p>>][e] + Tangent(p, e)
  /\ phase = "build" \/ evaluation =>
       \A p \in Names : gradient[<<"parameter", p>>] = before[<<"parameter", p>>]
  /\ \A p \in Names : applied[p] = steps
=============================================================================
