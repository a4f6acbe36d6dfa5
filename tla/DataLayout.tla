------------------------------ MODULE DataLayout ------------------------------
(***************************************************************************)
(* The index arithmetic between the caller's arrays and the caller's       *)
(* output, for one entry: the transposition of the inputs, the layout the  *)
(* generated code gives a private buffer, the copy loops of                *)
(* ifxc_vector_mgga_copy_combined_entry and, for an ML26 derivative, the   *)
(* nested ML25 evaluation and the loops that replace the features of ML25. *)
(*                                                                         *)
(* A number is represented by where it comes from. A cell of an output is  *)
(* the sequence of terms added up in it, << >> when nothing was written:   *)
(* which code computed a term (set), which feature and component it is,    *)
(* the places of the caller's input it was computed from (inputs), and the *)
(* places of the weight and the densities it was multiplied with (NoWeight *)
(* and {} when it was not). The three inputs are transposed by the same    *)
(* loops; one of them, with dim components, stands for all.                *)
(***************************************************************************)
EXTENDS Integers, Sequences

CONSTANTS N25, N26,   \* the numbers of features, 66 and 69 in the code
          Shapes      \* the entries, with the sizes of their loops

ShapeType ==
  [set : {"ML25", "ML26"}, target : {"LOCAL", "INTEGRAL"}, derivative : BOOLEAN,
   points : Nat \ {0}, components : Nat \ {0}, dim : Nat \ {0}]

ASSUME LayoutAssumption ==
  /\ N25 \in Nat \ {0} /\ N26 \in Nat /\ N25 =< N26
  /\ Shapes \subseteq ShapeType
  /\ \A s \in Shapes : s.derivative \/ s.components = 1

NoWeight == -1

VARIABLES shape,    \* the entry
          level,    \* "call", or "prefix" in the nested evaluation
          phase, point, feature, comp,
          tm,       \* the transposed input
          sum,      \* the local variable of an integral of order 0
          out,      \* the caller's output array
          prefix    \* the output array of the nested evaluation

vars == <<shape, level, phase, point, feature, comp, tm, sum, out, prefix>>

Counters == <<point, feature, comp>>

Count(set) == IF set = "ML25" THEN N25 ELSE N26
RunningSet == IF level = "prefix" THEN "ML25" ELSE shape.set
NF == Count(RunningSet)

(* An array of n cells, numbered from 0. *)
Array(n, value) == [i \in 0..n-1 |-> value]

(* The cells of the caller's output, as ifxc_output_size reports them. *)
OutputCells(s) ==
  IF s.target = "INTEGRAL" /\ ~s.derivative THEN Count(s.set)
  ELSE Count(s.set) * s.components * s.points

InputCells == shape.points * shape.dim
BufferCells == shape.points * NF * shape.components
PrefixCells == shape.points * N25 * shape.components
-----------------------------------------------------------------------------
(* Where the generated code adds the value of a component of a feature. *)
BufferValue(i) ==
  LET perPoint == NF * shape.components
      p == i \div perPoint
      k == i % perPoint
  IN  [set |-> RunningSet, feature |-> k % NF, component |-> k \div NF,
       inputs |-> [c \in 0..shape.dim-1 |-> tm[p * shape.dim + c]],
       weight |-> NoWeight, density |-> {}]

Weighted(value, p) == [value EXCEPT !.weight = p]
TimesDensity(value, p) ==
  [value EXCEPT !.density = {c * shape.points + p : c \in 0..shape.dim-1}]

(* Faulty: the components run fastest in the private buffer. *)
SourceByFeature == (point * NF * shape.components) + (feature * shape.components + comp)

Source == (point * NF * shape.components) + (comp * NF + feature)
(* Faulty: the stride is that of ML26 whatever the set. *)
DestOfML26 ==
  IF shape.derivative THEN (point * N26 + feature) * shape.components + comp
  ELSE point * N26 + feature

Dest ==
  IF shape.derivative THEN (point * NF + feature) * shape.components + comp
  ELSE point * NF + feature
PrefixSource == (point * N25 + feature) * shape.components + comp
(* Faulty: the stride is that of the prefix buffer. *)
PrefixDestOfML25 == PrefixSource

PrefixDest == (point * N26 + feature) * shape.components + comp
-----------------------------------------------------------------------------
Init ==
  /\ shape \in Shapes
  /\ level = "call"
  /\ phase = "transpose"
  /\ point = 0 /\ feature = 0 /\ comp = 0
  /\ tm = Array(InputCells, -1)
  /\ sum = << >>
  /\ out = Array(OutputCells(shape), << >>)
  /\ prefix = Array(0, << >>)

(* The loops run over the components, and for each over the points. *)
TransposeValue ==
  /\ phase = "transpose"
  /\ comp < shape.dim
  /\ tm' = [tm EXCEPT ![point * shape.dim + comp] = comp * shape.points + point]
  /\ IF point + 1 < shape.points
     THEN point' = point + 1 /\ UNCHANGED comp
     ELSE point' = 0 /\ comp' = comp + 1
  /\ UNCHANGED <<shape, level, phase, feature, sum, out, prefix>>

InputsTransposed ==
  /\ phase = "transpose"
  /\ comp = shape.dim
  /\ phase' = IF shape.target = "INTEGRAL" /\ ~shape.derivative
              THEN "sum" ELSE "copy"
  /\ comp' = 0
  /\ UNCHANGED <<shape, level, point, feature, tm, sum, out, prefix>>

(* One turn of three nested loops over points, features and components. *)
NextCounters(features) ==
  \/ /\ comp + 1 < shape.components
     /\ comp' = comp + 1
     /\ UNCHANGED <<point, feature>>
  \/ /\ comp + 1 = shape.components
     /\ comp' = 0
     /\ feature + 1 < features
     /\ feature' = feature + 1
     /\ UNCHANGED point
  \/ /\ comp + 1 = shape.components
     /\ comp' = 0
     /\ feature + 1 = features
     /\ feature' = 0
     /\ point' = point + 1

CopyValue ==
  /\ phase = "copy"
  /\ point < shape.points
  /\ LET value == IF ~shape.derivative THEN TimesDensity(BufferValue(Source), point)
                  ELSE IF shape.target = "INTEGRAL"
                       THEN Weighted(BufferValue(Source), point)
                  ELSE BufferValue(Source)
     IN  IF level = "prefix"
         THEN prefix' = [prefix EXCEPT ![Dest] = <<value>>] /\ UNCHANGED out
         ELSE out' = [out EXCEPT ![Dest] = <<value>>] /\ UNCHANGED prefix
  /\ NextCounters(NF)
  /\ UNCHANGED <<shape, level, phase, tm, sum>>

(* For an integral of order 0 the points are added up in a local variable,
   which is stored after the last of them. *)
AddPoint ==
  /\ phase = "sum"
  /\ feature < NF
  /\ LET value == BufferValue(point * NF + feature)
         total == Append(sum, Weighted(TimesDensity(value, point), point))
     IN  IF point + 1 < shape.points
         THEN /\ sum' = total
              /\ point' = point + 1
              /\ UNCHANGED <<feature, out>>
         ELSE /\ out' = [out EXCEPT ![feature] = total]
              /\ sum' = << >>
              /\ point' = 0
              /\ feature' = feature + 1
  /\ UNCHANGED <<shape, level, phase, comp, tm, prefix>>

EntrySummed ==
  /\ phase = "sum"
  /\ feature = NF
  /\ phase' = "done"
  /\ UNCHANGED <<shape, level, Counters, tm, sum, out, prefix>>

(* The nested evaluation begins with buffers of its own. *)
EntryCopied ==
  /\ phase = "copy"
  /\ point = shape.points
  /\ point' = 0
  /\ IF level = "call" /\ shape.set = "ML26" /\ shape.derivative
     THEN /\ level' = "prefix"
          /\ phase' = "transpose"
          /\ tm' = Array(InputCells, -1)
          /\ prefix' = Array(PrefixCells, << >>)
     ELSE /\ level' = "call"
          /\ phase' = IF level = "prefix" THEN "replace" ELSE "done"
          /\ UNCHANGED <<tm, prefix>>
  /\ UNCHANGED <<shape, feature, comp, sum, out>>

ReplaceValue ==
  /\ phase = "replace"
  /\ point < shape.points
  /\ out' = [out EXCEPT ![PrefixDest] = prefix[PrefixSource]]
  /\ NextCounters(N25)
  /\ UNCHANGED <<shape, level, phase, tm, sum, prefix>>

EntryReplaced ==
  /\ phase = "replace"
  /\ point = shape.points
  /\ phase' = "done"
  /\ UNCHANGED <<shape, level, Counters, tm, sum, out, prefix>>

Next ==
  \/ TransposeValue \/ InputsTransposed
  \/ CopyValue \/ AddPoint \/ EntrySummed \/ EntryCopied
  \/ ReplaceValue \/ EntryReplaced

Spec == Init /\ [][Next]_vars
-----------------------------------------------------------------------------
(* No loop reads or writes past the end of an array: the input, the private
   buffer, the output as long as ifxc_output_size says, the prefix buffer. *)
InBounds ==
  /\ phase = "transpose" /\ comp < shape.dim =>
       /\ point * shape.dim + comp \in 0..InputCells-1
       /\ comp * shape.points + point \in 0..InputCells-1
  /\ phase = "copy" /\ point < shape.points =>
       /\ Source \in 0..BufferCells-1
       /\ Dest \in 0..(IF level = "prefix" THEN PrefixCells
                        ELSE OutputCells(shape))-1
  /\ phase = "sum" /\ feature < NF =>
       /\ point * NF + feature \in 0..BufferCells-1
       /\ feature \in 0..OutputCells(shape)-1
  /\ phase = "replace" /\ point < shape.points =>
       /\ PrefixSource \in 0..PrefixCells-1
       /\ PrefixDest \in 0..OutputCells(shape)-1

(* What the header of the library promises in a place of the output: the
   feature and component the place is for, of that point, from that point's
   input, weight and density; of an ML26 derivative the features of ML25 are
   those of the ML25 code. *)
Promised(p, f, c) ==
  LET here == {k * shape.points + p : k \in 0..shape.dim-1}
  IN  [set |-> IF shape.derivative /\ f < N25 THEN "ML25" ELSE shape.set,
       feature |-> f, component |-> c,
       inputs |-> [k \in 0..shape.dim-1 |-> k * shape.points + p],
       weight |-> IF shape.target = "INTEGRAL" THEN p ELSE NoWeight,
       density |-> IF shape.derivative THEN {} ELSE here]

LayoutCorrect ==
  phase = "done" =>
    IF shape.target = "INTEGRAL" /\ ~shape.derivative
    THEN \A f \in 0..NF-1 :
           out[f] = [p \in 1..shape.points |-> Promised(p - 1, f, 0)]
    ELSE \A p \in 0..shape.points-1, f \in 0..NF-1, c \in 0..shape.components-1 :
           out[(p * NF + f) * shape.components + c] = <<Promised(p, f, c)>>

(* The replacement puts a derivative in the place of the very same derivative,
   although the rows of the two buffers differ in length. *)
ReplacedBySame ==
  [][phase = "replace" =>
       \A i \in DOMAIN out :
         out'[i] # out[i] =>
           /\ out[i] # << >>
           /\ out'[i] = <<[out[i][1] EXCEPT !.set = "ML25"]>>]_vars
=============================================================================
