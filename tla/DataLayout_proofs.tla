-------------------------- MODULE DataLayout_proofs --------------------------
(***************************************************************************)
(* Proofs about DataLayout, whatever the numbers of points, features and   *)
(* components: no loop leaves an array, every place of an output holds     *)
(* what the header promises, and the replacement of the ML25 features puts *)
(* a derivative in the place of the very same derivative.                  *)
(***************************************************************************)
EXTENDS DataLayout, TLAPS

(* A product grows with its first factor. *)
LEMMA TimesMonotone ==
  ASSUME NEW a \in Nat, NEW b \in Nat, NEW k \in Nat, a =< b
  PROVE  a * k =< b * k
<1> DEFINE d == b - a
<1>1. d \in Nat /\ b = a + d
  OBVIOUS
<1>2. b * k = a * k + d * k /\ d * k \in Nat /\ a * k \in Nat
  BY <1>1
<1> QED
  BY <1>2

(* An index into rows of equal length stays within them. *)
LEMMA RowIndex ==
  ASSUME NEW n \in Nat, NEW m \in Nat, NEW i \in 0..n-1, NEW j \in 0..m-1
  PROVE  i * m + j \in 0..(n * m)-1
<1>1. (i + 1) * m =< n * m
  BY TimesMonotone
<1>2. (i + 1) * m = i * m + m /\ i * m \in Nat /\ n * m \in Nat
  OBVIOUS
<1> QED
  BY <1>1, <1>2

(* The two indexings of points, features and components, in the caller's
   layout and in that of the generated code. *)
LEMMA CellIndex ==
  ASSUME NEW P \in Nat, NEW F \in Nat, NEW C \in Nat,
         NEW p \in 0..P-1, NEW f \in 0..F-1, NEW c \in 0..C-1
  PROVE  /\ (p * F + f) * C + c \in 0..(P * F * C)-1
         /\ (p * F * C) + (c * F + f) \in 0..(P * F * C)-1
<1>1. p * F + f \in 0..(P * F)-1 /\ P * F \in Nat
  BY RowIndex
<1>2. (p * F + f) * C + c \in 0..(P * F * C)-1
  BY <1>1, RowIndex
<1>3. c * F + f \in 0..(C * F)-1 /\ C * F \in Nat
  BY RowIndex
<1>4. p * (C * F) + (c * F + f) \in 0..(P * (C * F))-1
  BY <1>3, RowIndex
<1>5. p * (C * F) = p * F * C /\ P * (C * F) = P * F * C
  OBVIOUS
<1> QED
  BY <1>2, <1>4, <1>5
-----------------------------------------------------------------------------
(* Where the loop counters are in each phase: at a turn of the loops, or all
   back at zero after the last of them. *)
AtTurn(features) ==
  \/ point < shape.points /\ feature < features /\ comp < shape.components
  \/ point = shape.points /\ feature = 0 /\ comp = 0

IsSum == shape.target = "INTEGRAL" /\ ~shape.derivative
IsReplaced == shape.set = "ML26" /\ shape.derivative

LoopType ==
  /\ shape \in Shapes
  /\ level \in {"call", "prefix"}
  /\ phase \in {"transpose", "copy", "sum", "replace", "done"}
  /\ point \in Nat /\ feature \in Nat /\ comp \in Nat

LoopInv ==
  /\ LoopType
  /\ level = "prefix" => phase \in {"transpose", "copy"} /\ IsReplaced
  /\ phase = "transpose" =>
       /\ feature = 0 /\ point < shape.points /\ comp =< shape.dim
       /\ comp = shape.dim => point = 0
  /\ phase = "copy" => ~IsSum /\ AtTurn(NF)
  /\ phase = "sum" => IsSum /\ comp = 0 /\ point < shape.points /\ feature =< NF
  /\ phase = "replace" => IsReplaced /\ AtTurn(N25)

(* The sizes of the loops are positive numbers. *)
LEMMA Sizes ==
  ASSUME LoopType
  PROVE  /\ shape.points \in Nat \ {0} /\ shape.components \in Nat \ {0}
         /\ shape.dim \in Nat \ {0}
         /\ N25 \in Nat \ {0} /\ N26 \in Nat \ {0} /\ N25 =< N26
         /\ NF \in Nat \ {0} /\ Count(shape.set) \in Nat \ {0}
         /\ shape.derivative \in BOOLEAN
         /\ ~shape.derivative => shape.components = 1
<1>1. shape \in ShapeType /\ (shape.derivative \/ shape.components = 1)
  BY LayoutAssumption DEF LoopType
<1>2. N25 \in Nat \ {0} /\ N26 \in Nat \ {0} /\ N25 =< N26
  BY LayoutAssumption
<1> QED
  BY <1>1, <1>2 DEF ShapeType, NF, Count

(* The three nested loops go from turn to turn. *)
LEMMA TurnToTurn ==
  ASSUME LoopType, NEW features \in Nat \ {0}, shape' = shape,
         AtTurn(features), point < shape.points, NextCounters(features)
  PROVE  /\ point' \in Nat /\ feature' \in Nat /\ comp' \in Nat
         /\ AtTurn(features)'
<1>1. /\ point \in Nat /\ feature \in Nat /\ comp \in Nat
      /\ shape.points \in Nat \ {0} /\ shape.components \in Nat \ {0}
  BY Sizes DEF LoopType
<1> QED
  BY <1>1 DEF AtTurn, NextCounters

(* The counters of the loops stay where LoopInv says: every turn of every loop
   keeps it, the last turns included, which hand over to the next loop. *)
THEOREM LoopInvariant == Spec => []LoopInv
<1>1. Init => LoopInv
  <2> SUFFICES ASSUME Init PROVE LoopInv
    OBVIOUS
  <2>1. LoopType
    BY DEF Init, LoopType
  <2> QED
    BY <2>1, Sizes DEF Init, LoopInv
<1>2. LoopInv /\ [Next]_vars => LoopInv'
  <2> SUFFICES ASSUME LoopInv, [Next]_vars PROVE LoopInv'
    OBVIOUS
  <2> USE DEF LoopInv
  <2>1. /\ shape.points \in Nat \ {0} /\ shape.components \in Nat \ {0}
        /\ shape.dim \in Nat \ {0} /\ NF \in Nat \ {0} /\ N25 \in Nat \ {0}
        /\ point \in Nat /\ feature \in Nat /\ comp \in Nat
    BY Sizes DEF LoopType
  <2>2. CASE TransposeValue
    BY <2>1, <2>2 DEF TransposeValue, LoopType, IsReplaced, IsSum
  <2>3. CASE InputsTransposed
    BY <2>1, <2>3 DEF InputsTransposed, LoopType, IsReplaced, IsSum, AtTurn,
                      NF, RunningSet
  <2>4. CASE CopyValue
    <3>1. shape' = shape /\ level' = level /\ phase' = phase /\ NF' = NF
      BY <2>4 DEF CopyValue, NF, RunningSet
    <3>2. AtTurn(NF) /\ point < shape.points /\ NextCounters(NF)
      BY <2>4 DEF CopyValue
    <3>3. /\ point' \in Nat /\ feature' \in Nat /\ comp' \in Nat
          /\ AtTurn(NF)'
      BY <2>1, <3>1, <3>2, TurnToTurn DEF AtTurn
    <3> QED
      BY <2>4, <3>1, <3>3 DEF CopyValue, LoopType, IsReplaced, IsSum
  <2>5. CASE AddPoint
    BY <2>1, <2>5 DEF AddPoint, LoopType, IsReplaced, IsSum, NF, RunningSet
  <2>6. CASE EntrySummed
    BY <2>6 DEF EntrySummed, LoopType, Counters
  <2>7. CASE EntryCopied
    BY <2>1, <2>7 DEF EntryCopied, LoopType, IsReplaced, AtTurn
  <2>8. CASE ReplaceValue
    <3>1. shape' = shape /\ level' = level /\ phase' = phase
      BY <2>8 DEF ReplaceValue
    <3>2. AtTurn(N25) /\ point < shape.points /\ NextCounters(N25)
      BY <2>8 DEF ReplaceValue
    <3>3. /\ point' \in Nat /\ feature' \in Nat /\ comp' \in Nat
          /\ AtTurn(N25)'
      BY <2>1, <3>1, <3>2, TurnToTurn
    <3> QED
      BY <2>8, <3>1, <3>3 DEF ReplaceValue, LoopType, IsReplaced
  <2>9. CASE EntryReplaced
    BY <2>9 DEF EntryReplaced, LoopType, Counters
  <2>10. CASE UNCHANGED vars
    BY <2>10 DEF vars, LoopType, AtTurn, IsSum, IsReplaced, NF, RunningSet
  <2> QED
    BY <2>2, <2>3, <2>4, <2>5, <2>6, <2>7, <2>8, <2>9, <2>10 DEF Next
<1> QED
  BY <1>1, <1>2, PTL DEF Spec

(* With the counters there, every access of every loop stays in its array. *)
LEMMA InLoops ==
  ASSUME LoopInv
  PROVE  InBounds
<1> DEFINE P == shape.points
           C == shape.components
           D == shape.dim
<1>1. /\ P \in Nat \ {0} /\ C \in Nat \ {0} /\ D \in Nat \ {0}
      /\ N25 \in Nat \ {0} /\ N26 \in Nat \ {0} /\ N25 =< N26
      /\ NF \in Nat \ {0} /\ Count(shape.set) \in Nat \ {0}
      /\ point \in Nat /\ feature \in Nat /\ comp \in Nat
      /\ ~shape.derivative => C = 1
  BY Sizes DEF LoopInv, LoopType
<1>2. ASSUME phase = "transpose", comp < D
      PROVE  /\ point * D + comp \in 0..InputCells-1
             /\ comp * P + point \in 0..InputCells-1
  <2>1. point \in 0..P-1 /\ comp \in 0..D-1
    BY <1>1, <1>2 DEF LoopInv
  <2>2. point * D + comp \in 0..(P * D)-1 /\ comp * P + point \in 0..(D * P)-1
    BY <1>1, <2>1, RowIndex
  <2>3. P * D = D * P
    BY <1>1
  <2> QED
    BY <2>2, <2>3 DEF InputCells
<1>3. ASSUME phase = "copy", point < P
      PROVE  /\ Source \in 0..BufferCells-1
             /\ Dest \in 0..(IF level = "prefix" THEN PrefixCells
                              ELSE OutputCells(shape))-1
  <2>1. point \in 0..P-1 /\ feature \in 0..NF-1 /\ comp \in 0..C-1
    BY <1>1, <1>3 DEF LoopInv, AtTurn
  <2>2. /\ (point * NF + feature) * C + comp \in 0..(P * NF * C)-1
        /\ (point * NF * C) + (comp * NF + feature) \in 0..(P * NF * C)-1
    BY <1>1, <2>1, CellIndex
  <2>3. Source \in 0..BufferCells-1
    BY <2>2 DEF Source, BufferCells
  <2>4. Dest \in 0..(P * NF * C)-1
    <3>1. CASE shape.derivative
      BY <2>2, <3>1 DEF Dest
    <3>2. CASE ~shape.derivative
      <4>1. point * NF + feature \in 0..(P * NF)-1 /\ P * NF \in Nat
        BY <1>1, <2>1, RowIndex
      <4>2. P * NF * C = P * NF
        BY <1>1, <3>2, <4>1
      <4> QED
        BY <3>2, <4>1, <4>2 DEF Dest
    <3> QED
      BY <3>1, <3>2
  <2>5. CASE level = "prefix"
    <3>1. NF = N25
      BY <2>5 DEF NF, RunningSet, Count
    <3>2. PrefixCells = P * NF * C
      BY <3>1 DEF PrefixCells
    <3> QED
      BY <2>3, <2>4, <2>5, <3>2
  <2>6. CASE level # "prefix"
    <3>1. OutputCells(shape) = NF * C * P
      BY <1>3, <2>6 DEF LoopInv, IsSum, OutputCells, NF, RunningSet
    <3>2. NF * C * P = P * NF * C
      BY <1>1
    <3> QED
      BY <2>3, <2>4, <2>6, <3>1, <3>2
  <2> QED
    BY <2>5, <2>6
<1>4. ASSUME phase = "sum", feature < NF
      PROVE  /\ point * NF + feature \in 0..BufferCells-1
             /\ feature \in 0..OutputCells(shape)-1
  <2>1. point \in 0..P-1 /\ feature \in 0..NF-1 /\ IsSum /\ level = "call"
    BY <1>1, <1>4 DEF LoopInv, LoopType
  <2>2. point * NF + feature \in 0..(P * NF)-1 /\ P * NF \in Nat
    BY <1>1, <2>1, RowIndex
  <2>3. BufferCells = P * NF
    BY <1>1, <2>1, <2>2 DEF IsSum, BufferCells
  <2>4. OutputCells(shape) = NF
    BY <2>1 DEF IsSum, OutputCells, NF, RunningSet
  <2> QED
    BY <2>1, <2>2, <2>3, <2>4
<1>5. ASSUME phase = "replace", point < P
      PROVE  /\ PrefixSource \in 0..PrefixCells-1
             /\ PrefixDest \in 0..OutputCells(shape)-1
  <2>1. /\ point \in 0..P-1 /\ feature \in 0..N25-1 /\ feature \in 0..N26-1
        /\ comp \in 0..C-1
    BY <1>1, <1>5 DEF LoopInv, AtTurn
  <2>2. /\ (point * N25 + feature) * C + comp \in 0..(P * N25 * C)-1
        /\ (point * N26 + feature) * C + comp \in 0..(P * N26 * C)-1
    BY <1>1, <2>1, CellIndex
  <2>3. OutputCells(shape) = N26 * C * P
    BY <1>5 DEF LoopInv, IsReplaced, OutputCells, Count
  <2>4. N26 * C * P = P * N26 * C
    BY <1>1
  <2> QED
    BY <2>2, <2>3, <2>4 DEF PrefixSource, PrefixDest, PrefixCells
<1> QED
  BY <1>2, <1>3, <1>4, <1>5 DEF InBounds

(* Whatever the sizes, the loops stay in their arrays. *)
THEOREM AccessesInBounds == Spec => []InBounds
BY InLoops, LoopInvariant, PTL
-----------------------------------------------------------------------------
(* The quotient and the remainder of an index into rows of length m. *)
LEMMA Division ==
  ASSUME NEW q \in Nat, NEW m \in Nat \ {0}, NEW r \in 0..m-1
  PROVE  (q * m + r) \div m = q /\ (q * m + r) % m = r
<1>. DEFINE a == q * m + r
            d == a \div m
            e == a % m
<1>1. a \in Nat /\ q * m \in Nat
  OBVIOUS
<1>2. d \in Int /\ e \in 0..m-1 /\ a = d * m + e
  BY <1>1
<1>. HIDE DEF d, e
<1>3. d >= 0
  <2>1. SUFFICES ASSUME d =< -1 PROVE FALSE
    BY <1>2
  <2>2. d * m =< -m
    BY <1>2, <2>1
  <2>3. QED
    BY <1>1, <1>2, <2>2
<1>4. ~(d < q)
  <2>1. SUFFICES ASSUME d + 1 =< q PROVE FALSE
    BY <1>2
  <2>2. (d + 1) * m =< q * m
    BY <1>2, <1>3, <2>1, TimesMonotone
  <2>3. (d + 1) * m = d * m + m
    BY <1>2
  <2>4. QED
    BY <1>1, <1>2, <2>2, <2>3
<1>5. ~(q < d)
  <2>1. SUFFICES ASSUME q + 1 =< d PROVE FALSE
    BY <1>2
  <2>2. (q + 1) * m =< d * m
    BY <1>2, <1>3, <2>1, TimesMonotone
  <2>3. (q + 1) * m = q * m + m
    OBVIOUS
  <2>4. QED
    BY <1>1, <1>2, <2>2, <2>3
<1>6. d = q /\ e = r
  BY <1>1, <1>2, <1>4, <1>5
<1>7. QED
  BY <1>6 DEF d, e

(* A place of the transposed input, a cell of an output, and where the generated
   code adds a value, of D inputs, F features and C components per point. *)
Place(p, k, D) == p * D + k
Cell(p, f, c, F, C) == (p * F + f) * C + c
BufferCell(p, f, c, F, C) == (p * F * C) + (c * F + f)

(* Two places of the transposed input are the same only for the same point and
   component ... *)
LEMMA PlacesDiffer ==
  ASSUME NEW D \in Nat \ {0}, NEW p \in Nat, NEW k \in 0..D-1,
         NEW p2 \in Nat, NEW k2 \in 0..D-1, Place(p, k, D) = Place(p2, k2, D)
  PROVE  p = p2 /\ k = k2
<1>1. (p * D + k) \div D = p /\ (p * D + k) % D = k
  BY Division
<1>2. (p2 * D + k2) \div D = p2 /\ (p2 * D + k2) % D = k2
  BY Division
<1>3. QED
  BY <1>1, <1>2 DEF Place

(* ... and two cells of an output only for the same point, feature and
   component. *)
LEMMA CellsDiffer ==
  ASSUME NEW F \in Nat \ {0}, NEW C \in Nat \ {0},
         NEW p \in Nat, NEW f \in 0..F-1, NEW c \in 0..C-1,
         NEW p2 \in Nat, NEW f2 \in 0..F-1, NEW c2 \in 0..C-1,
         Cell(p, f, c, F, C) = Cell(p2, f2, c2, F, C)
  PROVE  p = p2 /\ f = f2 /\ c = c2
<1>. DEFINE row == p * F + f
            row2 == p2 * F + f2
<1>1. row \in Nat /\ row2 \in Nat
  OBVIOUS
<1>2. row * C + c = row2 * C + c2
  BY DEF Cell
<1>3. row = row2 /\ c = c2
  <2>. HIDE DEF row, row2
  <2>1. (row * C + c) \div C = row /\ (row * C + c) % C = c
    BY <1>1, Division
  <2>2. (row2 * C + c2) \div C = row2 /\ (row2 * C + c2) % C = c2
    BY <1>1, Division
  <2>3. QED
    BY <1>2, <2>1, <2>2
<1>4. p = p2 /\ f = f2
  <2>1. (p * F + f) \div F = p /\ (p * F + f) % F = f
    BY Division
  <2>2. (p2 * F + f2) \div F = p2 /\ (p2 * F + f2) % F = f2
    BY Division
  <2>3. QED
    BY <1>3, <2>1, <2>2
<1>5. QED
  BY <1>3, <1>4

(* What BufferValue reads off an index of the private buffer. *)
ReadBack(i, p, f, c, F, C) ==
  LET k == i % (F * C)
  IN  i \div (F * C) = p /\ k % F = f /\ k \div F = c

(* Where the generated code adds a value is read back by BufferValue. *)
LEMMA Decoded ==
  ASSUME NEW F \in Nat \ {0}, NEW C \in Nat \ {0},
         NEW p \in Nat, NEW f \in 0..F-1, NEW c \in 0..C-1
  PROVE  ReadBack(BufferCell(p, f, c, F, C), p, f, c, F, C)
<1>. DEFINE i == (p * F * C) + (c * F + f)
            m == F * C
            r == c * F + f
<1>1. r \in 0..m-1 /\ m \in Nat \ {0}
  <2>1. r \in 0..(C * F)-1
    BY RowIndex
  <2>2. C * F = F * C /\ C * F \in Nat
    OBVIOUS
  <2>3. QED
    BY <2>1, <2>2
<1>2. i = p * m + r
  OBVIOUS
<1>3. i \div m = p /\ i % m = r
  <2>. HIDE DEF i, m, r
  <2>. QED
    BY <1>1, <1>2, Division
<1>4. r % F = f /\ r \div F = c
  BY Division
<1>5. QED
  BY <1>3, <1>4 DEF ReadBack, BufferCell
-----------------------------------------------------------------------------
(* What the code of a set computes for a place, before and after the features
   of ML25 are replaced. *)
Computed(set, p, f, c) == [Promised(p, f, c) EXCEPT !.set = set]

(* The turns of the three nested loops that are over. *)
Before(p, f, c) ==
  \/ p < point
  \/ p = point /\ f < feature
  \/ p = point /\ f = feature /\ c < comp

Points == 0..shape.points-1
Components == 0..shape.components-1

(* The input is transposed as far as the loops have come ... *)
InputInv ==
  /\ tm = [i \in 0..InputCells-1 |-> tm[i]]
  /\ \A p \in Points, k \in 0..shape.dim-1 :
       phase # "transpose" \/ k < comp \/ (k = comp /\ p < point) =>
         tm[p * shape.dim + k] = k * shape.points + p

(* ... the cells of a buffer hold what the code of its set computed ... *)
Holds(array, set, p, f, c) ==
  array[Cell(p, f, c, Count(set), shape.components)] = <<Computed(set, p, f, c)>>

OutInv ==
  /\ out = [i \in 0..OutputCells(shape)-1 |-> out[i]]
  /\ phase = "copy" /\ level = "call" =>
       \A p \in Points, f \in 0..NF-1, c \in Components :
         Before(p, f, c) => Holds(out, shape.set, p, f, c)
  /\ level = "prefix" =>
       \A p \in Points, f \in 0..N26-1, c \in Components :
         Holds(out, "ML26", p, f, c)

PrefixInv ==
  /\ level = "prefix" \/ phase = "replace" =>
       prefix = [i \in 0..PrefixCells-1 |-> prefix[i]]
  /\ phase = "copy" /\ level = "prefix" =>
       \A p \in Points, f \in 0..N25-1, c \in Components :
         Before(p, f, c) => Holds(prefix, "ML25", p, f, c)

(* ... the cells behind the turn of the replacement are those of ML25 ... *)
ReplaceInv ==
  phase = "replace" =>
    /\ \A p \in Points, f \in 0..N25-1, c \in Components :
         Holds(prefix, "ML25", p, f, c)
    /\ \A p \in Points, f \in 0..N26-1, c \in Components :
         IF f < N25 /\ Before(p, f, c)
         THEN out[Cell(p, f, c, N26, shape.components)] = <<Computed("ML25", p, f, c)>>
         ELSE Holds(out, "ML26", p, f, c)

(* ... and the local variable of an integral holds the points added so far. *)
Total(n, f) == [p \in 1..n |-> Promised(p - 1, f, 0)]

SumInv ==
  /\ phase = "transpose" /\ level = "call" => sum = << >>
  /\ phase = "sum" =>
       /\ \A n, f \in Nat : n = point /\ f = feature => sum = Total(n, f)
       /\ \A f \in 0..NF-1 : f < feature => out[f] = Total(shape.points, f)

ContentInv == InputInv /\ OutInv /\ PrefixInv /\ ReplaceInv /\ SumInv /\ LayoutCorrect
-----------------------------------------------------------------------------
(* What is promised depends on the entry alone. *)
LEMMA SameShape ==
  ASSUME shape' = shape
  PROVE  /\ \A set, p, f, c : Computed(set, p, f, c)' = Computed(set, p, f, c)
         /\ \A p, f, c : Promised(p, f, c)' = Promised(p, f, c)
         /\ \A n, f : Total(n, f)' = Total(n, f)
         /\ Points' = Points /\ Components' = Components
         /\ InputCells' = InputCells /\ OutputCells(shape)' = OutputCells(shape)
         /\ PrefixCells' = PrefixCells
<1>1. \A p, f, c : Promised(p, f, c)' = Promised(p, f, c)
  BY DEF Promised
<1>2. \A set, p, f, c : Computed(set, p, f, c)' = Computed(set, p, f, c)
  BY <1>1 DEF Computed
<1>3. \A n, f : Total(n, f)' = Total(n, f)
  BY <1>1 DEF Total
<1>4. QED
  BY <1>1, <1>2, <1>3 DEF Points, Components, InputCells, OutputCells, PrefixCells

(* A turn of the three nested loops is over after it and not before. *)
LEMMA TurnIsOver ==
  ASSUME LoopType, NEW features \in Nat \ {0}, shape' = shape,
         AtTurn(features), point < shape.points, NextCounters(features),
         NEW p \in Points, NEW f \in 0..features-1, NEW c \in Components
  PROVE  Before(p, f, c)' <=>
           Before(p, f, c) \/ (p = point /\ f = feature /\ c = comp)
<1>1. /\ point \in Nat /\ feature \in Nat /\ comp \in Nat
      /\ shape.points \in Nat \ {0} /\ shape.components \in Nat \ {0}
  BY Sizes DEF LoopType
<1>2. feature < features /\ comp < shape.components
  BY <1>1 DEF AtTurn
<1>3. p \in Nat /\ f \in 0..features-1 /\ c \in 0..shape.components-1
  BY <1>1 DEF Points, Components
<1>4. QED
  BY <1>1, <1>2, <1>3 DEF NextCounters, Before

(* The private buffer holds, where the loops read it, the value of the feature
   and component they are at, computed from the input of the point. *)
LEMMA ReadsItsValue ==
  ASSUME LoopInv, InputInv, phase # "transpose",
         NEW p \in Points, NEW f \in 0..NF-1, NEW c \in Components
  PROVE  BufferValue((p * NF * shape.components) + (c * NF + f))
         = [set |-> RunningSet, feature |-> f, component |-> c,
            inputs |-> [k \in 0..shape.dim-1 |-> k * shape.points + p],
            weight |-> NoWeight, density |-> {}]
<1>. DEFINE C == shape.components
            i == (p * NF * C) + (c * NF + f)
            k == i % (NF * C)
<1>1. /\ shape.points \in Nat \ {0} /\ C \in Nat \ {0} /\ shape.dim \in Nat \ {0}
      /\ NF \in Nat \ {0}
  BY Sizes DEF LoopInv, LoopType
<1>2. p \in Nat /\ c \in 0..C-1
  BY <1>1 DEF Points, Components
<1>3. i \div (NF * C) = p /\ k % NF = f /\ k \div NF = c
  <2>1. ReadBack(BufferCell(p, f, c, NF, C), p, f, c, NF, C)
    BY <1>1, <1>2, Decoded
  <2>2. QED
    BY <2>1 DEF ReadBack, BufferCell
<1>4. \A j \in 0..shape.dim-1 : tm[p * shape.dim + j] = j * shape.points + p
  BY DEF InputInv
<1>5. shape.components * NF = NF * C /\ NF * shape.components = NF * C
  BY <1>1
<1>. HIDE DEF i
<1>6. BufferValue(i) = [set |-> RunningSet, feature |-> k % NF, component |-> k \div NF,
       inputs |-> [j \in 0..shape.dim-1 |-> tm[(i \div (NF * C)) * shape.dim + j]],
       weight |-> NoWeight, density |-> {}]
  BY DEF BufferValue
<1>7. BufferValue(i) = [set |-> RunningSet, feature |-> f, component |-> c,
       inputs |-> [j \in 0..shape.dim-1 |-> tm[p * shape.dim + j]],
       weight |-> NoWeight, density |-> {}]
  BY <1>3, <1>6
<1>8. [j \in 0..shape.dim-1 |-> tm[p * shape.dim + j]]
      = [j \in 0..shape.dim-1 |-> j * shape.points + p]
  BY <1>4
<1>9. QED
  BY <1>7, <1>8 DEF i

(* What is computed, written out. *)
LEMMA ComputedRecord ==
  ASSUME NEW set, NEW p, NEW f, NEW c
  PROVE  Computed(set, p, f, c)
         = [set |-> set, feature |-> f, component |-> c,
            inputs |-> [k \in 0..shape.dim-1 |-> k * shape.points + p],
            weight |-> IF shape.target = "INTEGRAL" THEN p ELSE NoWeight,
            density |-> IF shape.derivative THEN {}
                        ELSE {k * shape.points + p : k \in 0..shape.dim-1}]
<1>. DEFINE inputs == [k \in 0..shape.dim-1 |-> k * shape.points + p]
            here == {k * shape.points + p : k \in 0..shape.dim-1}
            record(s) == [set |-> s, feature |-> f, component |-> c, inputs |-> inputs,
                          weight |-> IF shape.target = "INTEGRAL" THEN p ELSE NoWeight,
                          density |-> IF shape.derivative THEN {} ELSE here]
<1>1. Computed(set, p, f, c)
      = [record(IF shape.derivative /\ f < N25 THEN "ML25" ELSE shape.set)
           EXCEPT !.set = set]
  BY Zenon DEF Computed, Promised
<1>2. \A s : [record(s) EXCEPT !.set = set] = record(set)
  <2>. HIDE DEF inputs, here
  <2>. QED
    OBVIOUS
<1>3. QED
  BY <1>1, <1>2

(* What is promised is what the code of the right set computes. *)
LEMMA PromisedIsComputed ==
  ASSUME NEW p, NEW f, NEW c
  PROVE  Promised(p, f, c) =
           Computed(IF shape.derivative /\ f < N25 THEN "ML25" ELSE shape.set, p, f, c)
<1>. DEFINE inputs == [k \in 0..shape.dim-1 |-> k * shape.points + p]
            here == {k * shape.points + p : k \in 0..shape.dim-1}
            set == IF shape.derivative /\ f < N25 THEN "ML25" ELSE shape.set
            record == [set |-> set, feature |-> f, component |-> c, inputs |-> inputs,
                       weight |-> IF shape.target = "INTEGRAL" THEN p ELSE NoWeight,
                       density |-> IF shape.derivative THEN {} ELSE here]
<1>1. Promised(p, f, c) = record
  BY Zenon DEF Promised
<1>2. record = Computed(set, p, f, c)
  BY ComputedRecord, Zenon
<1>3. QED
  BY <1>1, <1>2

(* A turn of the copy loops puts it into its place. *)
LEMMA CopiesItsValue ==
  ASSUME LoopInv, InputInv, CopyValue
  PROVE  /\ Dest = Cell(point, feature, comp, NF, shape.components)
         /\ IF level = "prefix"
            THEN /\ prefix' = [prefix EXCEPT ![Dest] =
                                 <<Computed("ML25", point, feature, comp)>>]
                 /\ out' = out
            ELSE /\ out' = [out EXCEPT ![Dest] =
                              <<Computed(shape.set, point, feature, comp)>>]
                 /\ prefix' = prefix
<1>. DEFINE inputs == [k \in 0..shape.dim-1 |-> k * shape.points + point]
            here == {k * shape.points + point : k \in 0..shape.dim-1}
            record(w, d) == [set |-> RunningSet, feature |-> feature,
                             component |-> comp, inputs |-> inputs,
                             weight |-> w, density |-> d]
            read == record(NoWeight, {})
<1>1. /\ point \in Points /\ feature \in 0..NF-1 /\ comp \in Components
      /\ shape.points \in Nat \ {0} /\ shape.components \in Nat \ {0} /\ NF \in Nat \ {0}
      /\ ~shape.derivative => comp = 0 /\ shape.components = 1
      /\ phase = "copy" /\ ~IsSum
      /\ level = "prefix" => shape.derivative /\ RunningSet = "ML25"
      /\ level # "prefix" => RunningSet = shape.set
  <2>1. /\ shape.points \in Nat \ {0} /\ shape.components \in Nat \ {0} /\ NF \in Nat \ {0}
        /\ ~shape.derivative => shape.components = 1
        /\ point \in Nat /\ feature \in Nat /\ comp \in Nat
    BY Sizes DEF LoopInv, LoopType
  <2>2. phase = "copy" /\ point < shape.points
    BY DEF CopyValue
  <2>3. feature < NF /\ comp < shape.components /\ ~IsSum
    BY <2>1, <2>2 DEF LoopInv, AtTurn
  <2>4. level = "prefix" => shape.derivative
    BY DEF LoopInv, IsReplaced
  <2>5. QED
    BY <2>1, <2>2, <2>3, <2>4 DEF Points, Components, RunningSet
<1>2. BufferValue(Source) = read
  <2>1. Source = (point * NF * shape.components) + (comp * NF + feature)
    BY DEF Source
  <2>2. QED
    BY <1>1, <2>1, ReadsItsValue
<1>3. Dest = Cell(point, feature, comp, NF, shape.components)
  <2>1. CASE shape.derivative
    BY <2>1 DEF Dest, Cell
  <2>2. CASE ~shape.derivative
    <3>1. comp = 0 /\ shape.components = 1 /\ point \in Nat /\ feature \in Nat
      BY <1>1, <2>2 DEF Points
    <3>2. (point * NF + feature) * 1 + 0 = point * NF + feature
      BY <1>1, <3>1
    <3>3. QED
      BY <2>2, <3>1, <3>2 DEF Dest, Cell
  <2>3. QED
    BY <2>1, <2>2
<1>. DEFINE value == IF ~shape.derivative THEN TimesDensity(read, point)
                     ELSE IF shape.target = "INTEGRAL" THEN Weighted(read, point)
                     ELSE read
<1>4. value = Computed(RunningSet, point, feature, comp)
  <2>1. Computed(RunningSet, point, feature, comp)
        = record(IF shape.target = "INTEGRAL" THEN point ELSE NoWeight,
                 IF shape.derivative THEN {} ELSE here)
    BY ComputedRecord
  <2>2. Weighted(read, point) = record(point, {})
    <3>. HIDE DEF inputs
    <3>. QED
      BY DEF Weighted
  <2>3. TimesDensity(read, point) = record(NoWeight, here)
    <3>1. TimesDensity(read, point) = [read EXCEPT !.density = here]
      BY DEF TimesDensity
    <3>. HIDE DEF inputs, here
    <3>. QED
      BY <3>1
  <2>4. ~shape.derivative => shape.target # "INTEGRAL"
    BY <1>1 DEF IsSum
  <2>5. QED
    BY <2>1, <2>2, <2>3, <2>4
<1>5. IF level = "prefix"
      THEN prefix' = [prefix EXCEPT ![Dest] = <<value>>] /\ out' = out
      ELSE out' = [out EXCEPT ![Dest] = <<value>>] /\ prefix' = prefix
  BY <1>2 DEF CopyValue
<1>6. QED
  BY <1>1, <1>3, <1>4, <1>5
-----------------------------------------------------------------------------
(* A step that leaves the caller's output alone keeps what is in it. *)
LEMMA HoldsStill ==
  ASSUME shape' = shape, NEW set, NEW p, NEW f, NEW c
  PROVE  /\ out' = out => Holds(out, set, p, f, c)' = Holds(out, set, p, f, c)
         /\ prefix' = prefix => Holds(prefix, set, p, f, c)' = Holds(prefix, set, p, f, c)
<1>1. Computed(set, p, f, c)' = Computed(set, p, f, c)
  BY SameShape
<1>2. QED
  BY <1>1 DEF Holds, Cell, Count

(* A turn of the transposition fills the next place of the input. *)
LEMMA TransposeKeeps ==
  ASSUME LoopInv, ContentInv, TransposeValue
  PROVE  ContentInv'
<1>. DEFINE D == shape.dim
            P == shape.points
<1>1. /\ P \in Nat \ {0} /\ D \in Nat \ {0} /\ comp \in 0..D-1 /\ point \in 0..P-1
  BY Sizes DEF LoopInv, LoopType, TransposeValue
<1>2. /\ shape' = shape /\ level' = level /\ phase = "transpose" /\ phase' = "transpose"
      /\ feature' = feature /\ out' = out /\ prefix' = prefix
      /\ tm' = [tm EXCEPT ![point * D + comp] = comp * P + point]
      /\ \/ point + 1 < P /\ point' = point + 1 /\ comp' = comp
         \/ ~(point + 1 < P) /\ point' = 0 /\ comp' = comp + 1
  BY DEF TransposeValue
<1>3. InputInv'
  <2>1. point * D + comp \in 0..InputCells-1
    BY <1>1, RowIndex DEF InputCells
  <2>2. tm = [i \in 0..InputCells-1 |-> tm[i]]
    BY DEF ContentInv, InputInv
  <2>3. tm' = [i \in 0..InputCells-1 |-> tm'[i]]
    BY <1>2, <2>2
  <2>4. ASSUME NEW p \in Points, NEW k \in 0..D-1,
               k < comp' \/ (k = comp' /\ p < point')
        PROVE  tm'[p * D + k] = k * P + p
    <3>1. p \in 0..P-1
      BY DEF Points
    <3>2. p * D + k \in 0..InputCells-1
      BY <1>1, <3>1, RowIndex DEF InputCells
    <3>3. CASE p = point /\ k = comp
      BY <1>2, <2>1, <2>2, <3>3
    <3>4. CASE ~(p = point /\ k = comp)
      <4>1. k < comp \/ (k = comp /\ p < point)
        BY <1>1, <1>2, <2>4, <3>1, <3>4
      <4>2. tm[p * D + k] = k * P + p
        BY <4>1 DEF ContentInv, InputInv
      <4>3. p * D + k # point * D + comp
        <5>1. Place(p, k, D) # Place(point, comp, D)
          BY <1>1, <3>1, <3>4, PlacesDiffer
        <5>2. QED
          BY <5>1 DEF Place
      <4>4. QED
        BY <1>2, <2>2, <3>2, <4>2, <4>3
    <3>5. QED
      BY <3>3, <3>4
  <2>5. QED
    BY <1>2, <2>3, <2>4, SameShape DEF InputInv
<1>4. OutInv'
  BY <1>2, SameShape, HoldsStill DEF ContentInv, OutInv
<1>5. PrefixInv'
  BY <1>2, SameShape DEF ContentInv, PrefixInv
<1>6. SumInv' /\ ReplaceInv' /\ LayoutCorrect'
  <2>1. sum' = sum
    BY DEF TransposeValue
  <2>2. QED
    BY <1>2, <2>1 DEF ContentInv, SumInv, ReplaceInv, LayoutCorrect
<1>7. QED
  BY <1>3, <1>4, <1>5, <1>6 DEF ContentInv

(* The loops that read it find it complete. *)
LEMMA TransposedKeeps ==
  ASSUME LoopInv, ContentInv, InputsTransposed
  PROVE  ContentInv'
<1>1. /\ shape.points \in Nat \ {0} /\ shape.dim \in Nat \ {0}
      /\ comp = shape.dim /\ point = 0 /\ feature = 0
  BY Sizes DEF LoopInv, LoopType, InputsTransposed
<1>2. /\ shape' = shape /\ level' = level /\ phase = "transpose"
      /\ phase' \in {"sum", "copy"} /\ point' = 0 /\ feature' = 0 /\ comp' = 0
      /\ tm' = tm /\ out' = out /\ prefix' = prefix /\ sum' = sum
  BY <1>1 DEF InputsTransposed
<1>3. InputInv'
  <2>1. ASSUME NEW p \in Points, NEW k \in 0..shape.dim-1
        PROVE  tm[p * shape.dim + k] = k * shape.points + p
    <3>1. k < comp
      BY <1>1
    <3>2. QED
      BY <3>1 DEF ContentInv, InputInv
  <2>2. QED
    BY <1>2, <2>1, SameShape DEF ContentInv, InputInv
<1>4. \A p \in Points, f \in Nat, c \in Components : ~Before(p, f, c)'
  BY <1>1, <1>2 DEF Points, Components, Before
<1>5. OutInv'
  BY <1>2, <1>4, SameShape, HoldsStill DEF ContentInv, OutInv
<1>6. PrefixInv'
  BY <1>2, <1>4, SameShape DEF ContentInv, PrefixInv
<1>7. SumInv'
  <2>1. phase' = "sum" => sum = << >>
    <3>1. phase' = "sum" => ~shape.derivative /\ level = "call"
      BY DEF InputsTransposed, LoopInv, LoopType, IsReplaced
    <3>2. QED
      BY <1>2, <3>1 DEF ContentInv, SumInv
  <2>2. \A n, f : n = point' => << >> = Total(n, f)'
    BY <1>2 DEF Total
  <2>3. \A f \in 0..NF'-1 : ~(f < feature')
    BY <1>2
  <2>4. QED
    BY <1>2, <2>1, <2>2, <2>3 DEF SumInv
<1>8. ReplaceInv' /\ LayoutCorrect'
  BY <1>2 DEF ReplaceInv, LayoutCorrect
<1>9. QED
  BY <1>3, <1>5, <1>6, <1>7, <1>8 DEF ContentInv

(* The cells of the two output arrays are in them. *)
LEMMA CellsInArrays ==
  ASSUME LoopType, NEW p \in Points, NEW c \in Components
  PROVE  /\ ~IsSum => \A f \in 0..Count(shape.set)-1 :
              Cell(p, f, c, Count(shape.set), shape.components) \in 0..OutputCells(shape)-1
         /\ \A f \in 0..N25-1 :
              Cell(p, f, c, N25, shape.components) \in 0..PrefixCells-1
<1>. DEFINE P == shape.points
            C == shape.components
<1>1. /\ P \in Nat \ {0} /\ C \in Nat \ {0} /\ N25 \in Nat \ {0}
      /\ Count(shape.set) \in Nat \ {0}
  BY Sizes
<1>2. p \in 0..P-1 /\ c \in 0..C-1
  BY DEF Points, Components
<1>3. ASSUME NEW F \in Nat, NEW f \in 0..F-1
      PROVE  Cell(p, f, c, F, C) \in 0..(P * F * C)-1
  <2>1. (p * F + f) * C + c \in 0..(P * F * C)-1
    BY <1>1, <1>2, CellIndex
  <2>2. QED
    BY <2>1 DEF Cell
<1>4. ASSUME ~IsSum
      PROVE  OutputCells(shape) = P * Count(shape.set) * C
  BY <1>1, <1>4 DEF OutputCells, IsSum
<1>5. PrefixCells = P * N25 * C
  BY DEF PrefixCells
<1>6. QED
  BY <1>1, <1>3, <1>4, <1>5

(* A turn of the copy loops adds one cell, and overwrites none. *)
LEMMA CopyKeeps ==
  ASSUME LoopInv, ContentInv, CopyValue
  PROVE  ContentInv'
<1>. DEFINE C == shape.components
<1>1. /\ shape.points \in Nat \ {0} /\ C \in Nat \ {0} /\ NF \in Nat \ {0}
      /\ LoopType /\ AtTurn(NF) /\ point < shape.points
      /\ point \in Points /\ feature \in 0..NF-1 /\ comp \in Components
      /\ level \in {"call", "prefix"}
  <2>1. /\ shape.points \in Nat \ {0} /\ C \in Nat \ {0} /\ NF \in Nat \ {0}
        /\ point \in Nat /\ feature \in Nat /\ comp \in Nat
        /\ LoopType /\ AtTurn(NF) /\ point < shape.points
        /\ level \in {"call", "prefix"}
    BY Sizes DEF LoopInv, LoopType, CopyValue
  <2>2. feature < NF /\ comp < C
    BY <2>1 DEF AtTurn
  <2>3. QED
    BY <2>1, <2>2 DEF Points, Components
<1>2. /\ shape' = shape /\ level' = level /\ phase = "copy" /\ phase' = "copy"
      /\ tm' = tm /\ sum' = sum /\ NextCounters(NF) /\ NF' = NF
  BY DEF CopyValue, NF, RunningSet
<1>3. /\ Dest = Cell(point, feature, comp, NF, C)
      /\ IF level = "prefix"
         THEN /\ prefix' = [prefix EXCEPT ![Dest] =
                              <<Computed("ML25", point, feature, comp)>>]
              /\ out' = out
         ELSE /\ out' = [out EXCEPT ![Dest] =
                           <<Computed(shape.set, point, feature, comp)>>]
              /\ prefix' = prefix
  BY CopiesItsValue DEF ContentInv
<1>4. ASSUME NEW p \in Points, NEW f \in 0..NF-1, NEW c \in Components
      PROVE  /\ Before(p, f, c)' <=>
                  Before(p, f, c) \/ (p = point /\ f = feature /\ c = comp)
             /\ Cell(p, f, c, NF, C) = Dest => p = point /\ f = feature /\ c = comp
  <2>1. Before(p, f, c)' <=> Before(p, f, c) \/ (p = point /\ f = feature /\ c = comp)
    BY <1>1, <1>2, TurnIsOver
  <2>2. p \in Nat /\ point \in Nat /\ c \in 0..C-1 /\ comp \in 0..C-1
    BY <1>1 DEF Points, Components
  <2>3. ASSUME Cell(p, f, c, NF, C) = Dest
        PROVE  p = point /\ f = feature /\ c = comp
    <3>1. Cell(p, f, c, NF, C) = Cell(point, feature, comp, NF, C)
      BY <1>3, <2>3
    <3>2. C \in Nat \ {0} /\ NF \in Nat \ {0} /\ feature \in 0..NF-1
      BY <1>1
    <3>. HIDE DEF C
    <3>3. QED
      BY <2>2, <3>1, <3>2, CellsDiffer
  <2>4. QED
    BY <2>1, <2>3
<1>5. InputInv'
  BY <1>2, SameShape DEF ContentInv, InputInv
<1>6. ReplaceInv' /\ SumInv' /\ LayoutCorrect'
  BY <1>2 DEF ReplaceInv, SumInv, LayoutCorrect
<1>7. CASE level = "prefix"
  <2>1. NF = N25 /\ Dest \in 0..PrefixCells-1 /\ Count("ML25") = N25
    BY <1>1, <1>2, <1>7, InLoops DEF InBounds, NF, RunningSet, Count
  <2>2. OutInv'
    <3>1. out' = out
      BY <1>3, <1>7
    <3>2. QED
      BY <1>2, <1>7, <3>1, SameShape, HoldsStill DEF ContentInv, OutInv
  <2>3. prefix = [i \in 0..PrefixCells-1 |-> prefix[i]]
    BY <1>7 DEF ContentInv, PrefixInv
  <2>4. prefix' = [i \in 0..PrefixCells-1 |-> prefix'[i]]
    BY <1>3, <1>7, <2>3
  <2>5. ASSUME NEW p \in Points, NEW f \in 0..N25-1, NEW c \in Components,
               Before(p, f, c)'
        PROVE  prefix'[Cell(p, f, c, N25, C)] = <<Computed("ML25", p, f, c)>>
    <3>1. CASE p = point /\ f = feature /\ c = comp
      BY <1>3, <1>7, <2>1, <2>3, <3>1
    <3>2. CASE ~(p = point /\ f = feature /\ c = comp)
      <4>1. Before(p, f, c) /\ Cell(p, f, c, N25, C) # Dest
        BY <1>4, <2>1, <2>5, <3>2
      <4>2. prefix[Cell(p, f, c, N25, C)] = <<Computed("ML25", p, f, c)>>
        BY <1>2, <1>7, <2>1, <4>1 DEF ContentInv, PrefixInv, Holds
      <4>3. Cell(p, f, c, N25, C) \in 0..PrefixCells-1
        BY <1>1, CellsInArrays
      <4>4. prefix'[Cell(p, f, c, N25, C)] = prefix[Cell(p, f, c, N25, C)]
        BY <1>3, <1>7, <2>3, <4>1, <4>3
      <4>5. QED
        BY <4>2, <4>4
    <3>3. QED
      BY <3>1, <3>2
  <2>6. PrefixInv'
    <3>1. \A p, f, c : Cell(p, f, c, Count("ML25"), shape.components)'
                       = Cell(p, f, c, N25, C)
      BY <1>2, <2>1 DEF Cell, Count
    <3>2. QED
      BY <1>2, <1>7, <2>4, <2>5, <3>1, SameShape DEF PrefixInv, Holds
  <2>7. QED
    BY <1>5, <1>6, <2>2, <2>6 DEF ContentInv
<1>8. CASE level = "call"
  <2>1. NF = Count(shape.set) /\ Dest \in 0..OutputCells(shape)-1
    BY <1>1, <1>2, <1>8, InLoops DEF InBounds, NF, RunningSet
  <2>2. out = [i \in 0..OutputCells(shape)-1 |-> out[i]]
    BY DEF ContentInv, OutInv
  <2>3. out' = [i \in 0..OutputCells(shape)-1 |-> out'[i]]
    BY <1>3, <1>8, <2>2
  <2>4. ASSUME NEW p \in Points, NEW f \in 0..NF-1, NEW c \in Components,
               Before(p, f, c)'
        PROVE  out'[Cell(p, f, c, NF, C)] = <<Computed(shape.set, p, f, c)>>
    <3>1. CASE p = point /\ f = feature /\ c = comp
      BY <1>3, <1>8, <2>1, <2>2, <3>1
    <3>2. CASE ~(p = point /\ f = feature /\ c = comp)
      <4>1. Before(p, f, c) /\ Cell(p, f, c, NF, C) # Dest
        BY <1>4, <2>4, <3>2
      <4>2. out[Cell(p, f, c, NF, C)] = <<Computed(shape.set, p, f, c)>>
        BY <1>2, <1>8, <2>1, <4>1 DEF ContentInv, OutInv, Holds
      <4>3. Cell(p, f, c, NF, C) \in 0..OutputCells(shape)-1
        BY <1>1, <2>1, CellsInArrays DEF LoopInv, CopyValue
      <4>4. out'[Cell(p, f, c, NF, C)] = out[Cell(p, f, c, NF, C)]
        BY <1>3, <1>8, <2>2, <4>1, <4>3
      <4>5. QED
        BY <4>2, <4>4
    <3>3. QED
      BY <3>1, <3>2
  <2>5. OutInv'
    <3>1. \A p, f, c : Cell(p, f, c, Count(shape.set), shape.components)'
                       = Cell(p, f, c, NF, C)
      BY <1>2, <2>1 DEF Cell, Count
    <3>2. QED
      BY <1>2, <1>8, <2>3, <2>4, <3>1, SameShape DEF OutInv, Holds
  <2>6. PrefixInv'
    BY <1>2, <1>8 DEF PrefixInv
  <2>7. QED
    BY <1>5, <1>6, <2>5, <2>6 DEF ContentInv
<1>9. QED
  BY <1>1, <1>7, <1>8

(* Adding one more point to an integral. *)
LEMMA SumGrows ==
  ASSUME NEW n \in Nat, NEW S, NEW F \in [1..n+1 -> S]
  PROVE  Append([p \in 1..n |-> F[p]], F[n + 1]) = [p \in 1..n+1 |-> F[p]]
<1>. DEFINE s == [p \in 1..n |-> F[p]]
<1>1. s \in Seq(S) /\ Len(s) = n
  OBVIOUS
<1>2. F[n + 1] \in S
  OBVIOUS
<1>. DEFINE t == Append(s, F[n + 1])
<1>3. /\ t \in Seq(S) /\ Len(t) = n + 1
      /\ \A i \in 1..n : t[i] = s[i]
      /\ t[n + 1] = F[n + 1]
  <2>. HIDE DEF s
  <2>. QED
    BY <1>1, <1>2
<1>4. t = [i \in 1..n+1 |-> t[i]]
  <2>. HIDE DEF t
  <2>. QED
    BY <1>3
<1>5. \A i \in 1..n+1 : t[i] = F[i]
  <2>1. \A i \in 1..n : t[i] = F[i]
    BY <1>3
  <2>2. \A i \in 1..n+1 : i \in 1..n \/ i = n + 1
    OBVIOUS
  <2>. HIDE DEF t
  <2>. QED
    BY <1>3, <2>1, <2>2
<1>. HIDE DEF t
<1>6. t = [i \in 1..n+1 |-> F[i]]
  BY <1>4, <1>5
<1>7. QED
  BY <1>6 DEF t

(* The point that is added is the next of its feature. *)
LEMMA AddsItsPoint ==
  ASSUME LoopInv, InputInv, AddPoint
  PROVE  Weighted(TimesDensity(BufferValue(point * NF + feature), point), point)
         = Promised(point, feature, 0)
<1>. DEFINE inputs == [k \in 0..shape.dim-1 |-> k * shape.points + point]
            here == {k * shape.points + point : k \in 0..shape.dim-1}
            record(w, d) == [set |-> shape.set, feature |-> feature, component |-> 0,
                             inputs |-> inputs, weight |-> w, density |-> d]
            value == BufferValue(point * NF + feature)
<1>1. /\ point \in Points /\ feature \in 0..NF-1 /\ 0 \in Components
      /\ point \in Nat /\ feature \in Nat /\ NF \in Nat \ {0}
      /\ shape.components = 1 /\ phase = "sum" /\ level = "call"
      /\ ~shape.derivative /\ shape.target = "INTEGRAL"
  <2>1. phase = "sum" /\ feature < NF
    BY DEF AddPoint
  <2>2. IsSum /\ level = "call" /\ point < shape.points
    BY <2>1 DEF LoopInv, LoopType
  <2>3. /\ NF \in Nat \ {0} /\ shape.points \in Nat /\ shape.components = 1
        /\ point \in Nat /\ feature \in Nat
    BY <2>2, Sizes DEF LoopInv, LoopType, IsSum
  <2>4. QED
    BY <2>1, <2>2, <2>3 DEF IsSum, Points, Components
<1>2. value = record(NoWeight, {})
  <2>1. (point * NF * shape.components) + (0 * NF + feature) = point * NF + feature
    <3>1. point * NF \in Nat /\ point * NF * 1 = point * NF /\ 0 * NF = 0
      BY <1>1
    <3>2. QED
      BY <1>1, <3>1
  <2>2. RunningSet = shape.set
    BY <1>1 DEF RunningSet
  <2>3. BufferValue((point * NF * shape.components) + (0 * NF + feature))
        = record(NoWeight, {})
    BY <1>1, <2>2, ReadsItsValue
  <2>4. QED
    BY <2>1, <2>3
<1>3. TimesDensity(value, point) = record(NoWeight, here)
  <2>1. TimesDensity(value, point) = [value EXCEPT !.density = here]
    BY DEF TimesDensity
  <2>. HIDE DEF inputs, here, value
  <2>. QED
    BY <1>2, <2>1
<1>4. Weighted(record(NoWeight, here), point) = record(point, here)
  <2>. HIDE DEF inputs, here
  <2>. QED
    BY DEF Weighted
<1>5. Promised(point, feature, 0) = record(point, here)
  <2>1. Promised(point, feature, 0) = Computed(shape.set, point, feature, 0)
    BY <1>1, PromisedIsComputed
  <2>2. Computed(shape.set, point, feature, 0)
        = record(IF shape.target = "INTEGRAL" THEN point ELSE NoWeight,
                 IF shape.derivative THEN {} ELSE here)
    BY ComputedRecord
  <2>3. QED
    BY <1>1, <2>1, <2>2
<1>6. QED
  BY <1>3, <1>4, <1>5

(* A turn of the summation adds a point, or stores the sum of all points. *)
LEMMA AddKeeps ==
  ASSUME LoopInv, ContentInv, AddPoint
  PROVE  ContentInv'
<1>. DEFINE P == shape.points
            total == Append(sum, Promised(point, feature, 0))
<1>1. /\ P \in Nat \ {0} /\ NF \in Nat \ {0} /\ point \in 0..P-1
      /\ feature \in 0..NF-1 /\ level = "call" /\ OutputCells(shape) = NF
  <2>1. phase = "sum" /\ feature < NF
    BY DEF AddPoint
  <2>2. /\ P \in Nat \ {0} /\ NF \in Nat \ {0} /\ point \in 0..P-1
        /\ feature \in Nat /\ level = "call" /\ IsSum
    BY <2>1, Sizes DEF LoopInv, LoopType
  <2>3. OutputCells(shape) = NF
    BY <2>2 DEF OutputCells, IsSum, NF, RunningSet
  <2>4. QED
    BY <2>1, <2>2, <2>3
<1>2. /\ shape' = shape /\ level' = level /\ phase = "sum" /\ phase' = "sum"
      /\ tm' = tm /\ prefix' = prefix /\ NF' = NF
      /\ IF point + 1 < P
         THEN sum' = total /\ point' = point + 1 /\ feature' = feature /\ out' = out
         ELSE /\ out' = [out EXCEPT ![feature] = total]
              /\ sum' = << >> /\ point' = 0 /\ feature' = feature + 1
  BY AddsItsPoint DEF AddPoint, ContentInv, NF, RunningSet
<1>3. InputInv'
  BY <1>2, SameShape DEF ContentInv, InputInv
<1>4. PrefixInv' /\ ReplaceInv' /\ LayoutCorrect'
  BY <1>1, <1>2 DEF PrefixInv, ReplaceInv, LayoutCorrect
<1>5. total = Total(point + 1, feature)
  <2>. DEFINE F == Total(point + 1, feature)
              S == {F[p] : p \in 1..point+1}
  <2>1. F \in [1..point+1 -> S] /\ point \in Nat
    BY <1>1 DEF Total
  <2>2. F[point + 1] = Promised(point, feature, 0)
    BY <1>1 DEF Total
  <2>3. sum = [p \in 1..point |-> F[p]]
    <3>1. sum = Total(point, feature)
      BY <1>1, <1>2 DEF ContentInv, SumInv
    <3>2. \A p \in 1..point : F[p] = Promised(p - 1, feature, 0)
      BY <1>1 DEF Total
    <3>. HIDE DEF F
    <3>3. QED
      BY <3>1, <3>2 DEF Total
  <2>4. F = [p \in 1..point+1 |-> F[p]]
    BY DEF Total
  <2>5. total = F
    <3>. HIDE DEF F, S
    <3>. QED
      BY <2>1, <2>2, <2>3, <2>4, SumGrows
  <2>6. QED
    BY <2>5
<1>6. out = [i \in 0..OutputCells(shape)-1 |-> out[i]]
  BY DEF ContentInv, OutInv
<1>7. \A f \in 0..NF-1 : f < feature => out[f] = Total(P, f)
  BY <1>2 DEF ContentInv, SumInv
<1>8. CASE point + 1 < P
  <2>1. OutInv'
    BY <1>1, <1>2, <1>6, <1>8, SameShape DEF OutInv
  <2>2. SumInv'
    <3>1. ASSUME NEW n \in Nat, NEW f \in Nat, n = point', f = feature'
          PROVE  sum' = Total(n, f)
      BY <1>2, <1>5, <1>8, <3>1
    <3>2. QED
      BY <1>2, <1>7, <1>8, <3>1, SameShape DEF SumInv
  <2>3. QED
    BY <1>3, <1>4, <2>1, <2>2 DEF ContentInv
<1>9. CASE ~(point + 1 < P)
  <2>1. OutInv'
    <3>1. out' = [i \in 0..OutputCells(shape)-1 |-> out'[i]]
      BY <1>2, <1>6, <1>9
    <3>2. QED
      BY <1>1, <1>2, <3>1, SameShape DEF OutInv
  <2>2. total = Total(P, feature)
    <3>1. point + 1 = P
      BY <1>1, <1>9
    <3>2. QED
      BY <1>5, <3>1
  <2>3. ASSUME NEW f \in 0..NF-1, f < feature'
        PROVE  out'[f] = Total(P, f)
    <3>1. CASE f = feature
      <4>1. out'[feature] = total
        BY <1>1, <1>2, <1>6, <1>9
      <4>2. QED
        BY <2>2, <3>1, <4>1
    <3>2. CASE f # feature
      <4>1. f < feature
        BY <1>1, <1>2, <1>9, <2>3, <3>2
      <4>2. out'[f] = out[f]
        BY <1>1, <1>2, <1>6, <1>9, <4>1
      <4>3. QED
        BY <1>7, <4>1, <4>2
    <3>3. QED
      BY <3>1, <3>2
  <2>4. SumInv'
    <3>1. ASSUME NEW n \in Nat, NEW f \in Nat, n = point'
          PROVE  sum' = Total(n, f)
      <4>1. n = 0 /\ sum' = << >>
        BY <1>2, <1>9, <3>1
      <4>2. << >> = Total(0, f)
        BY DEF Total
      <4>3. QED
        BY <4>1, <4>2
    <3>2. QED
      BY <1>2, <2>3, <3>1, SameShape DEF SumInv
  <2>5. QED
    BY <1>3, <1>4, <2>1, <2>4 DEF ContentInv
<1>10. QED
  BY <1>8, <1>9

(* The layout of an output whose cells all hold what is promised. *)
LEMMA CellsAreCorrect ==
  ASSUME ~IsSum, shape' = shape, out' = out, NF' = NF,
         \A p \in Points, f \in 0..NF-1, c \in Components :
           out[Cell(p, f, c, NF, shape.components)] = <<Promised(p, f, c)>>
  PROVE  LayoutCorrect'
<1>1. \A p, f, c : Promised(p, f, c)' = Promised(p, f, c)
  BY SameShape
<1>2. \A p \in Points, f \in 0..NF-1, c \in Components :
        out[(p * NF + f) * shape.components + c] = <<Promised(p, f, c)>>
  BY DEF Cell
<1>3. \A p \in 0..shape'.points-1, f \in 0..NF'-1, c \in 0..shape'.components-1 :
        out'[(p * NF' + f) * shape'.components + c] = <<Promised(p, f, c)'>>
  BY <1>1, <1>2 DEF Points, Components
<1>4. ~(shape'.target = "INTEGRAL" /\ ~shape'.derivative)
  BY DEF IsSum
<1>5. QED
  BY <1>3, <1>4 DEF LayoutCorrect

(* After the last feature every integral is promised ... *)
LEMMA SummedKeeps ==
  ASSUME LoopInv, ContentInv, EntrySummed
  PROVE  ContentInv'
<1>1. /\ shape' = shape /\ level' = level /\ phase = "sum" /\ phase' = "done"
      /\ tm' = tm /\ out' = out /\ prefix' = prefix /\ NF' = NF
      /\ feature = NF /\ level = "call" /\ IsSum
  BY DEF EntrySummed, LoopInv, LoopType, NF, RunningSet
<1>2. NF \in Nat
  BY Sizes DEF LoopInv
<1>3. InputInv'
  BY <1>1, SameShape DEF ContentInv, InputInv
<1>4. OutInv' /\ PrefixInv' /\ ReplaceInv' /\ SumInv'
  BY <1>1, SameShape DEF ContentInv, OutInv, PrefixInv, ReplaceInv, SumInv
<1>5. LayoutCorrect'
  <2>1. \A f \in 0..NF-1 : out[f] = Total(shape.points, f)
    BY <1>1, <1>2 DEF ContentInv, SumInv
  <2>2. \A f \in 0..NF-1 : out'[f] = Total(shape.points, f)'
    BY <1>1, <2>1, SameShape
  <2>3. \A f \in 0..NF'-1 :
          out'[f] = [p \in 1..shape'.points |-> Promised(p - 1, f, 0)']
    BY <1>1, <2>2, Zenon DEF Total
  <2>4. shape'.target = "INTEGRAL" /\ ~shape'.derivative
    BY <1>1 DEF IsSum
  <2>5. QED
    BY <2>3, <2>4, Zenon DEF LayoutCorrect
<1>6. QED
  BY <1>3, <1>4, <1>5 DEF ContentInv

(* ... and after the last point every cell is, unless the features of ML25 are
   still to be replaced. *)
LEMMA CopiedKeeps ==
  ASSUME LoopInv, ContentInv, EntryCopied
  PROVE  ContentInv'
<1>. DEFINE C == shape.components
<1>1. /\ shape.points \in Nat \ {0} /\ C \in Nat \ {0} /\ NF \in Nat \ {0}
      /\ phase = "copy" /\ point = shape.points /\ feature = 0 /\ comp = 0
      /\ level \in {"call", "prefix"} /\ ~IsSum
  <2>1. /\ shape.points \in Nat \ {0} /\ C \in Nat \ {0} /\ NF \in Nat \ {0}
        /\ phase = "copy" /\ point = shape.points
        /\ level \in {"call", "prefix"} /\ ~IsSum /\ AtTurn(NF)
    BY Sizes DEF LoopInv, LoopType, EntryCopied
  <2>2. QED
    BY <2>1 DEF AtTurn
<1>2. /\ shape' = shape /\ point' = 0 /\ feature' = 0 /\ comp' = 0
      /\ out' = out /\ sum' = sum
  BY <1>1 DEF EntryCopied
<1>3. \A p \in Points, f \in Nat, c \in Components : Before(p, f, c)
  BY <1>1 DEF Points, Before
<1>4. \A p \in Points, f \in Nat, c \in Components : ~Before(p, f, c)'
  BY <1>1, <1>2 DEF Points, Components, Before
<1>5. out' = [i \in 0..OutputCells(shape)'-1 |-> out'[i]]
  BY <1>2, SameShape DEF ContentInv, OutInv
<1>6. CASE level = "call" /\ IsReplaced
  <2>1. level' = "prefix" /\ phase' = "transpose"
        /\ tm' = Array(InputCells, -1) /\ prefix' = Array(PrefixCells, << >>)
    BY <1>6 DEF EntryCopied, IsReplaced
  <2>2. InputInv'
    <3>1. tm' = [i \in 0..InputCells'-1 |-> tm'[i]]
      BY <1>2, <2>1, SameShape DEF Array
    <3>2. \A p \in Points, k \in 0..shape.dim-1 :
            ~(k < comp' \/ (k = comp' /\ p < point'))
      BY <1>1, <1>2 DEF Points
    <3>3. QED
      BY <1>2, <2>1, <3>1, <3>2, SameShape DEF InputInv
  <2>3. OutInv'
    <3>1. NF = N26 /\ shape.set = "ML26"
      BY <1>6 DEF NF, RunningSet, Count, IsReplaced
    <3>2. \A p \in Points, f \in 0..N26-1, c \in Components :
            Holds(out, "ML26", p, f, c)
      BY <1>1, <1>3, <1>6, <3>1 DEF ContentInv, OutInv
    <3>3. QED
      BY <1>2, <1>5, <2>1, <3>2, SameShape, HoldsStill DEF OutInv
  <2>4. PrefixInv'
    <3>1. prefix' = [i \in 0..PrefixCells'-1 |-> prefix'[i]]
      BY <1>2, <2>1, SameShape DEF Array
    <3>2. QED
      BY <2>1, <3>1 DEF PrefixInv
  <2>5. ReplaceInv' /\ SumInv' /\ LayoutCorrect'
    BY <2>1 DEF ReplaceInv, SumInv, LayoutCorrect
  <2>6. QED
    BY <2>2, <2>3, <2>4, <2>5 DEF ContentInv
<1>7. CASE ~(level = "call" /\ IsReplaced)
  <2>1. /\ level' = "call" /\ phase' = IF level = "prefix" THEN "replace" ELSE "done"
        /\ tm' = tm /\ prefix' = prefix
    BY <1>7 DEF EntryCopied, IsReplaced
  <2>2. InputInv' /\ SumInv'
    BY <1>1, <1>2, <2>1, SameShape DEF ContentInv, InputInv, SumInv
  <2>3. OutInv'
    BY <1>5, <2>1 DEF OutInv
  <2>4. CASE level = "prefix"
    <3>1. NF = N25 /\ phase' = "replace" /\ N25 \in Nat /\ N26 \in Nat
      BY <2>1, <2>4, LayoutAssumption DEF NF, RunningSet, Count
    <3>2. PrefixInv'
      BY <1>2, <2>1, <2>4, <3>1, SameShape DEF ContentInv, PrefixInv
    <3>3. \A p \in Points, f \in 0..N25-1, c \in Components :
            Holds(prefix, "ML25", p, f, c)
      BY <1>1, <1>3, <2>4, <3>1 DEF ContentInv, PrefixInv
    <3>4. \A p \in Points, f \in 0..N26-1, c \in Components :
            Holds(out, "ML26", p, f, c) /\ ~Before(p, f, c)'
      BY <1>4, <2>4, <3>1 DEF ContentInv, OutInv
    <3>5. ReplaceInv'
      BY <1>2, <2>1, <3>3, <3>4, SameShape, HoldsStill DEF ReplaceInv
    <3>6. LayoutCorrect'
      BY <3>1 DEF LayoutCorrect
    <3>7. QED
      BY <2>2, <2>3, <3>2, <3>5, <3>6 DEF ContentInv
  <2>5. CASE level = "call"
    <3>1. /\ NF = Count(shape.set) /\ NF' = NF /\ phase' = "done" /\ ~IsReplaced
      BY <1>2, <1>7, <2>1, <2>5 DEF NF, RunningSet
    <3>2. ASSUME NEW p \in Points, NEW f \in 0..NF-1, NEW c \in Components
          PROVE  out[Cell(p, f, c, NF, C)] = <<Promised(p, f, c)>>
      <4>1. Before(p, f, c)
        BY <1>1, <1>3
      <4>2. out[Cell(p, f, c, NF, C)] = <<Computed(shape.set, p, f, c)>>
        BY <1>1, <2>5, <3>1, <4>1 DEF ContentInv, OutInv, Holds
      <4>3. (IF shape.derivative /\ f < N25 THEN "ML25" ELSE shape.set) = shape.set
        BY <3>1, LayoutAssumption DEF IsReplaced, LoopInv, LoopType, ShapeType
      <4>4. QED
        BY <4>2, <4>3, PromisedIsComputed
    <3>3. LayoutCorrect'
      BY <1>1, <1>2, <3>1, <3>2, CellsAreCorrect
    <3>4. QED
      BY <2>1, <2>2, <2>3, <3>1, <3>3 DEF ContentInv, PrefixInv, ReplaceInv
  <2>6. QED
    BY <1>1, <2>4, <2>5
<1>8. QED
  BY <1>6, <1>7

(* A turn of the replacement finds the derivative of ML26 in the place it puts
   that of ML25 in. *)
LEMMA ReplacesItsCell ==
  ASSUME LoopInv, ContentInv, ReplaceValue
  PROVE  /\ shape.points \in Nat \ {0} /\ shape.components \in Nat \ {0}
         /\ N25 \in Nat \ {0} /\ N26 \in Nat \ {0} /\ N25 =< N26
         /\ IsReplaced /\ ~IsSum /\ shape.set = "ML26" /\ LoopType /\ AtTurn(N25)
         /\ point \in Points /\ feature \in 0..N25-1 /\ comp \in Components
         /\ PrefixDest = Cell(point, feature, comp, N26, shape.components)
         /\ out[PrefixDest] = <<Computed("ML26", point, feature, comp)>>
         /\ prefix[PrefixSource] = <<Computed("ML25", point, feature, comp)>>
<1>1. /\ shape.points \in Nat \ {0} /\ shape.components \in Nat \ {0}
      /\ N25 \in Nat \ {0} /\ N26 \in Nat \ {0} /\ N25 =< N26
      /\ point \in Nat /\ feature \in Nat /\ comp \in Nat /\ LoopType
  BY Sizes DEF LoopInv, LoopType
<1>2. /\ IsReplaced /\ ~IsSum /\ shape.set = "ML26" /\ AtTurn(N25)
      /\ phase = "replace" /\ point < shape.points
  BY DEF LoopInv, ReplaceValue, IsReplaced, IsSum
<1>3. point \in Points /\ feature \in 0..N25-1 /\ comp \in Components
  BY <1>1, <1>2 DEF AtTurn, Points, Components
<1>4. /\ PrefixDest = Cell(point, feature, comp, N26, shape.components)
      /\ PrefixSource = Cell(point, feature, comp, N25, shape.components)
  BY DEF PrefixDest, PrefixSource, Cell
<1>5. feature \in 0..N26-1 /\ ~Before(point, feature, comp)
  BY <1>1, <1>3 DEF Before
<1>6. /\ Holds(prefix, "ML25", point, feature, comp)
      /\ Holds(out, "ML26", point, feature, comp)
  BY <1>2, <1>3, <1>5 DEF ContentInv, ReplaceInv
<1>7. QED
  BY <1>1, <1>2, <1>3, <1>4, <1>6 DEF Holds, Count

(* It changes that cell and no other. *)
LEMMA ReplaceKeeps ==
  ASSUME LoopInv, ContentInv, ReplaceValue
  PROVE  ContentInv'
<1>. DEFINE C == shape.components
            new(p, f, c) == IF f < N25 /\ Before(p, f, c)' THEN "ML25" ELSE "ML26"
            old(p, f, c) == IF f < N25 /\ Before(p, f, c) THEN "ML25" ELSE "ML26"
<1>1. /\ shape.points \in Nat \ {0} /\ C \in Nat \ {0}
      /\ N25 \in Nat \ {0} /\ N26 \in Nat \ {0} /\ N25 =< N26
      /\ ~IsSum /\ shape.set = "ML26" /\ LoopType /\ AtTurn(N25)
      /\ point \in Points /\ feature \in 0..N25-1 /\ comp \in Components
      /\ PrefixDest = Cell(point, feature, comp, N26, C)
      /\ prefix[PrefixSource] = <<Computed("ML25", point, feature, comp)>>
  BY ReplacesItsCell
<1>2. /\ shape' = shape /\ level' = level /\ phase = "replace" /\ phase' = "replace"
      /\ tm' = tm /\ sum' = sum /\ prefix' = prefix
      /\ point < shape.points /\ NextCounters(N25) /\ level = "call"
      /\ out' = [out EXCEPT ![PrefixDest] = prefix[PrefixSource]]
  BY DEF ReplaceValue, LoopInv, LoopType
<1>3. out = [i \in 0..OutputCells(shape)-1 |-> out[i]]
  BY DEF ContentInv, OutInv
<1>4. InputInv' /\ PrefixInv' /\ SumInv' /\ LayoutCorrect'
  BY <1>2, SameShape DEF ContentInv, InputInv, PrefixInv, SumInv, LayoutCorrect
<1>5. OutInv'
  <2>1. out' = [i \in 0..OutputCells(shape)-1 |-> out'[i]]
    BY <1>2, <1>3
  <2>2. QED
    BY <1>2, <2>1, SameShape DEF OutInv
<1>6. ASSUME NEW p \in Points, NEW f \in 0..N26-1, NEW c \in Components
      PROVE  out'[Cell(p, f, c, N26, C)] = <<Computed(new(p, f, c), p, f, c)>>
  <2>1. Cell(p, f, c, N26, C) \in 0..OutputCells(shape)-1
    BY <1>1, CellsInArrays DEF Count
  <2>2. out[Cell(p, f, c, N26, C)] = <<Computed(old(p, f, c), p, f, c)>>
    BY <1>2 DEF ContentInv, ReplaceInv, Holds, Count
  <2>3. f < N25 => (Before(p, f, c)' <=>
                      Before(p, f, c) \/ (p = point /\ f = feature /\ c = comp))
    <3>1. ASSUME f < N25
          PROVE  f \in 0..N25-1
      BY <1>1, <3>1
    <3>2. QED
      BY <1>1, <1>2, <3>1, TurnIsOver
  <2>4. CASE p = point /\ f = feature /\ c = comp
    <3>1. new(p, f, c) = "ML25"
      BY <1>1, <2>3, <2>4
    <3>2. Cell(p, f, c, N26, C) = PrefixDest
      BY <1>1, <2>4
    <3>3. out'[Cell(p, f, c, N26, C)] = prefix[PrefixSource]
      BY <1>2, <1>3, <2>1, <3>2
    <3>4. QED
      BY <1>1, <2>4, <3>1, <3>3
  <2>5. CASE ~(p = point /\ f = feature /\ c = comp)
    <3>1. new(p, f, c) = old(p, f, c)
      BY <2>3, <2>5
    <3>2. Cell(p, f, c, N26, C) # PrefixDest
      <4>1. /\ C \in Nat \ {0} /\ N26 \in Nat \ {0} /\ p \in Nat /\ point \in Nat
            /\ feature \in 0..N26-1 /\ c \in 0..C-1 /\ comp \in 0..C-1
        BY <1>1 DEF Points, Components
      <4>. HIDE DEF C
      <4>2. Cell(p, f, c, N26, C) # Cell(point, feature, comp, N26, C)
        BY <2>5, <4>1, CellsDiffer
      <4>3. QED
        BY <1>1, <4>2
    <3>3. out'[Cell(p, f, c, N26, C)] = out[Cell(p, f, c, N26, C)]
      BY <1>2, <1>3, <2>1, <3>2
    <3>4. QED
      BY <2>2, <3>1, <3>3
  <2>6. QED
    BY <2>4, <2>5
<1>7. ReplaceInv'
  <2>1. \A p, f, c : Cell(p, f, c, N26, shape.components)' = Cell(p, f, c, N26, C)
    BY <1>2 DEF Cell
  <2>2. \A p \in Points, f \in 0..N25-1, c \in Components :
          Holds(prefix, "ML25", p, f, c)'
    BY <1>2, HoldsStill DEF ContentInv, ReplaceInv
  <2>3. ASSUME NEW p \in Points, NEW f \in 0..N26-1, NEW c \in Components
        PROVE  IF f < N25 /\ Before(p, f, c)'
               THEN out'[Cell(p, f, c, N26, C)] = <<Computed("ML25", p, f, c)>>
               ELSE out'[Cell(p, f, c, N26, C)] = <<Computed("ML26", p, f, c)>>
    BY <1>6
  <2>4. \A p, f, c : Holds(out, "ML26", p, f, c)' <=>
          out'[Cell(p, f, c, N26, C)] = <<Computed("ML26", p, f, c)>>
    BY <1>2, <2>1, SameShape DEF Holds, Count
  <2>5. \A p \in Points, f \in 0..N26-1, c \in Components :
          IF f < N25 /\ Before(p, f, c)'
          THEN out'[Cell(p, f, c, N26, C)] = <<Computed("ML25", p, f, c)>>
          ELSE Holds(out, "ML26", p, f, c)'
    <3>. HIDE DEF C
    <3>. QED
      BY <2>3, <2>4
  <2>6. \A p, f, c : Computed("ML25", p, f, c)' = Computed("ML25", p, f, c)
    BY <1>2, SameShape
  <2>7. Points' = Points /\ Components' = Components /\ shape.components' = C
    BY <1>2, SameShape
  <2>8. /\ \A p \in Points', f \in 0..N25-1, c \in Components' :
             Holds(prefix, "ML25", p, f, c)'
        /\ \A p \in Points', f \in 0..N26-1, c \in Components' :
             IF f < N25 /\ Before(p, f, c)'
             THEN out'[Cell(p, f, c, N26, shape.components)']
                    = <<Computed("ML25", p, f, c)'>>
             ELSE Holds(out, "ML26", p, f, c)'
    <3>. HIDE DEF C
    <3>. QED
      BY <2>1, <2>2, <2>5, <2>6, <2>7
  <2>9. QED
    BY <2>8 DEF ReplaceInv
<1>8. QED
  BY <1>4, <1>5, <1>7 DEF ContentInv

(* After the last point the output is promised. *)
LEMMA ReplacedKeeps ==
  ASSUME LoopInv, ContentInv, EntryReplaced
  PROVE  ContentInv'
<1>. DEFINE C == shape.components
<1>1. /\ shape' = shape /\ level' = level /\ phase = "replace" /\ phase' = "done"
      /\ tm' = tm /\ sum' = sum /\ prefix' = prefix /\ out' = out
      /\ point = shape.points /\ level = "call" /\ IsReplaced
  BY DEF EntryReplaced, LoopInv, LoopType
<1>2. InputInv' /\ OutInv' /\ PrefixInv' /\ ReplaceInv' /\ SumInv'
  BY <1>1, SameShape DEF ContentInv, InputInv, OutInv, PrefixInv, ReplaceInv, SumInv
<1>3. NF = N26 /\ NF' = NF /\ ~IsSum /\ shape.derivative /\ shape.set = "ML26"
  BY <1>1 DEF NF, RunningSet, Count, IsReplaced, IsSum
<1>4. ASSUME NEW p \in Points, NEW f \in 0..NF-1, NEW c \in Components
      PROVE  out[Cell(p, f, c, NF, C)] = <<Promised(p, f, c)>>
  <2>1. Before(p, f, c)
    BY <1>1, Sizes DEF Before, Points, LoopInv
  <2>2. out[Cell(p, f, c, N26, C)]
        = <<Computed(IF f < N25 THEN "ML25" ELSE "ML26", p, f, c)>>
    BY <1>1, <1>3, <2>1 DEF ContentInv, ReplaceInv, Holds, Count
  <2>3. QED
    BY <1>3, <2>2, PromisedIsComputed
<1>5. LayoutCorrect'
  BY <1>1, <1>3, <1>4, CellsAreCorrect
<1>6. QED
  BY <1>2, <1>5 DEF ContentInv
-----------------------------------------------------------------------------
(* What the arrays hold at every turn of every loop. *)
THEOREM ContentInvariant == Spec => []ContentInv
<1>1. Init => ContentInv
  <2>. SUFFICES ASSUME Init PROVE ContentInv
    OBVIOUS
  <2>. USE DEF Init
  <2>1. shape.points \in Nat \ {0}
    BY LayoutAssumption DEF ShapeType
  <2>2. InputInv
    BY <2>1 DEF InputInv, Array, Points
  <2>3. OutInv
    BY DEF OutInv, Array
  <2>4. PrefixInv /\ ReplaceInv /\ SumInv /\ LayoutCorrect
    BY DEF PrefixInv, ReplaceInv, SumInv, LayoutCorrect
  <2>5. QED
    BY <2>2, <2>3, <2>4 DEF ContentInv
<1>2. LoopInv /\ ContentInv /\ [Next]_vars => ContentInv'
  <2>. SUFFICES ASSUME LoopInv, ContentInv, [Next]_vars PROVE ContentInv'
    OBVIOUS
  <2>1. CASE UNCHANGED vars
    <3>. USE <2>1, SameShape DEF ContentInv, vars
    <3>1. InputInv'
      BY DEF InputInv, Points
    <3>2. OutInv'
      <4>1. NF' = NF
        BY DEF NF, RunningSet, Count
      <4>2. out' = [i \in 0..OutputCells(shape)'-1 |-> out'[i]]
        BY DEF OutInv
      <4>3. \A set, p, f, c : Holds(out, set, p, f, c)' = Holds(out, set, p, f, c)
        BY DEF Holds, Cell, Count
      <4>4. \A p, f, c : Before(p, f, c)' = Before(p, f, c)
        BY DEF Before
      <4>. QED
        BY <4>1, <4>2, <4>3, <4>4 DEF OutInv
    <3>3. PrefixInv'
      BY DEF PrefixInv, Holds, Before, Cell, Count
    <3>4. ReplaceInv'
      BY DEF ReplaceInv, Holds, Before, Cell, Count
    <3>5. SumInv'
      BY DEF SumInv, NF, RunningSet, Count
    <3>6. LayoutCorrect'
      <4>1. NF' = NF
        BY DEF NF, RunningSet, Count
      <4>2. \A p, f, c : Promised(p, f, c)' = Promised(p, f, c)
        BY SameShape
      <4>3. \A f : [p \in 1..shape'.points |-> Promised(p - 1, f, 0)']
                  = [p \in 1..shape.points |-> Promised(p - 1, f, 0)]
        BY <4>2
      <4>. QED
        BY <4>1, <4>2, <4>3 DEF LayoutCorrect
    <3>7. QED
      BY <3>1, <3>2, <3>3, <3>4, <3>5, <3>6
  <2>2. QED
    BY <2>1, TransposeKeeps, TransposedKeeps, CopyKeeps, AddKeeps, SummedKeeps,
       CopiedKeeps, ReplaceKeeps, ReplacedKeeps DEF Next
<1>3. QED
  BY <1>1, <1>2, LoopInvariant, PTL DEF Spec

(* Whatever the numbers of features, points and components, the output of an
   entry holds in every place what the header promises for it. *)
THEOREM LayoutIsCorrect == Spec => []LayoutCorrect
BY ContentInvariant, PTL DEF ContentInv

(* The replacement puts a derivative in the place of the very same derivative. *)
THEOREM ReplacesTheSame == Spec => ReplacedBySame
<1>1. LoopInv /\ ContentInv /\ [Next]_vars =>
        [phase = "replace" =>
           \A i \in DOMAIN out :
             out'[i] # out[i] =>
               /\ out[i] # << >>
               /\ out'[i] = <<[out[i][1] EXCEPT !.set = "ML25"]>>]_vars
  <2>. SUFFICES ASSUME LoopInv, ContentInv, Next, phase = "replace",
                       NEW i \in DOMAIN out, out'[i] # out[i]
                PROVE  /\ out[i] # << >>
                       /\ out'[i] = <<[out[i][1] EXCEPT !.set = "ML25"]>>
    BY DEF vars
  <2>1. ReplaceValue
    BY DEF Next, TransposeValue, InputsTransposed, CopyValue, AddPoint, EntrySummed,
       EntryCopied, EntryReplaced
  <2>2. /\ out[PrefixDest] = <<Computed("ML26", point, feature, comp)>>
        /\ prefix[PrefixSource] = <<Computed("ML25", point, feature, comp)>>
    BY <2>1, ReplacesItsCell
  <2>3. i = PrefixDest /\ out'[i] = prefix[PrefixSource]
    <3>1. out = [j \in 0..OutputCells(shape)-1 |-> out[j]]
      BY DEF ContentInv, OutInv
    <3>2. QED
      BY <2>1, <3>1 DEF ReplaceValue
  <2>4. [Computed("ML26", point, feature, comp) EXCEPT !.set = "ML25"]
        = Computed("ML25", point, feature, comp)
    <3>. DEFINE inputs == [k \in 0..shape.dim-1 |-> k * shape.points + point]
                here == {k * shape.points + point : k \in 0..shape.dim-1}
                record(set) ==
                  [set |-> set, feature |-> feature, component |-> comp, inputs |-> inputs,
                   weight |-> IF shape.target = "INTEGRAL" THEN point ELSE NoWeight,
                   density |-> IF shape.derivative THEN {} ELSE here]
    <3>1. \A set : Computed(set, point, feature, comp) = record(set)
      BY ComputedRecord
    <3>2. [record("ML26") EXCEPT !.set = "ML25"] = record("ML25")
      <4>. HIDE DEF inputs, here
      <4>. QED
        OBVIOUS
    <3>. HIDE DEF record, inputs, here
    <3>3. Computed("ML26", point, feature, comp) = record("ML26")
      BY <3>1
    <3>4. Computed("ML25", point, feature, comp) = record("ML25")
      BY <3>1
    <3>5. QED
      BY <3>2, <3>3, <3>4
  <2>5. QED
    BY <2>2, <2>3, <2>4
<1>2. QED
  BY <1>1, LoopInvariant, ContentInvariant, PTL DEF Spec, ReplacedBySame
=============================================================================
