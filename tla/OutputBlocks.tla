----------------------------- MODULE OutputBlocks -----------------------------
(***************************************************************************)
(* How maple_run turns the assignments Maple printed for a batch into the  *)
(* code of a feature set: it goes through the lines once, sorts them by    *)
(* the order of the function they are for, and collects the statements     *)
(* that add an output to its buffer in blocks, one test for each run of    *)
(* outputs of one variable. Maple prints the outputs in the order they are *)
(* asked for, and any number of temporaries in between.                    *)
(*                                                                         *)
(* An item of the code is an assignment, of an output or a temporary, or a *)
(* block; the test of a block is the variable whose pointer it looks at.   *)
(***************************************************************************)
EXTENDS SpinComponents

CONSTANTS Calls,           \* [batched, nspin, n, maxOrder, batch]
          MaxTemporaries

ASSUME BlocksAssumption ==
  /\ MaxTemporaries \in Nat
  /\ \A j \in Calls :
       /\ j.batched \in BOOLEAN /\ j.nspin \in Spins
       /\ j.n \in Nat \ {0} /\ j.maxOrder \in 0..MaxSourceOrder
       /\ j.batch \in (IF j.batched
                       THEN DOMAIN FeatureBatches(j.nspin, j.n, j.maxOrder)
                       ELSE {0})

VARIABLES plan,         \* what maple_run was called with
          asked,        \* the outputs Maple has still to print
          lines,        \* the assignments it has printed
          totalOrder, code,
          pendingTest, pendingLines,
          status        \* of maple_run

blocksVars == <<plan, asked, lines, totalOrder, code, pendingTest, pendingLines, status>>

Orders == 0..MaxSourceOrder + 1
NoTest == <<-1>>

(* The derivatives of an order as expand_feature_derivatives lists them when
   there are no batches: feature by feature. *)
Expanded(nspin, n, order) ==
  LET ds == Derivatives(nspin, order)
      ofFeature(f) ==
        [i \in DOMAIN ds |->
           [name |-> ds[i].name, exponents |-> ds[i].exponents,
            index |-> FlattenFeatureOutput(ds[i].number, n, f)]]
  IN  FlattenSeq([f \in 1..n |-> ofFeature(f - 1)])

(* The batch of a job; a job without batches is all the outputs at once. *)
BatchOf(j) ==
  IF j.batched THEN FeatureBatches(j.nspin, j.n, j.maxOrder)[j.batch]
  ELSE [start |-> 0,
        outputs |-> FlattenSeq([k \in 1..j.maxOrder+1 |->
                                  FeatureOutputs(j.nspin, j.n, k - 1)])]

(* Faulty: the last derivative is that before the expansion to the features. *)
LastDerivativesUnexpanded(j, batch) ==
  IF j.batched THEN [order \in {batch.start} |-> Last(batch.outputs)]
  ELSE [order \in 0..j.maxOrder |-> Last(Expanded(j.nspin, 1, order))]

(* The derivative each order ends with. *)
LastDerivatives(j, batch) ==
  IF j.batched THEN [order \in {batch.start} |-> Last(batch.outputs)]
  ELSE [order \in 0..j.maxOrder |-> Last(Expanded(j.nspin, j.n, order))]

(* What maple_run is called with. *)
Plan(j) ==
  LET batch == BatchOf(j)
  IN  [start |-> batch.start, outputs |-> batch.outputs,
       last |-> LastDerivatives(j, batch)]

Assignment(kind, of) == [kind |-> kind, of |-> of]
Block(test, outputs) == [kind |-> "block", of |-> <<test, outputs>>]

(* The code of an order with the pending block, if there is one. *)
Flushed(items) ==
  IF pendingTest = NoTest THEN items
  ELSE Append(items, Block(pendingTest, pendingLines))
-----------------------------------------------------------------------------
BlocksInit ==
  /\ plan \in {Plan(j) : j \in Calls}
  /\ asked = plan.outputs
  /\ lines = << >>
  /\ totalOrder = plan.start
  /\ code = [o \in Orders |-> << >>]
  /\ pendingTest = NoTest
  /\ pendingLines = << >>
  /\ status = "running"

Temporaries == Len(SelectSeq(lines, LAMBDA l : l.kind = "temporary"))

(* Faulty: a temporary goes in front of the code of its order. *)
ReadTemporaryInFront ==
  /\ status = "running"
  /\ asked # << >>
  /\ Temporaries < MaxTemporaries
  /\ LET line == Assignment("temporary", Len(lines))
     IN  /\ lines' = Append(lines, line)
         /\ code' = [code EXCEPT ![totalOrder] = <<line>> \o @]
  /\ UNCHANGED <<plan, asked, totalOrder, pendingTest, pendingLines, status>>

ReadTemporary ==
  /\ status = "running"
  /\ asked # << >>
  /\ Temporaries < MaxTemporaries
  /\ LET line == Assignment("temporary", Len(lines))
     IN  /\ lines' = Append(lines, line)
         /\ code' = [code EXCEPT ![totalOrder] = Append(@, line)]
  /\ UNCHANGED <<plan, asked, totalOrder, pendingTest, pendingLines, status>>

(* Faulty: a change of the variable does not end the block. *)
AddOutputInOneBlock(out) ==
  LET line == Assignment("output", out)
      rows == Append(code[totalOrder], line)
      test == IF pendingTest = NoTest THEN out.name ELSE pendingTest
      outputs == Append(pendingLines, out)
      last == out = plan.last[totalOrder]
  IN  /\ lines' = Append(lines, line)
      /\ code' = [code EXCEPT ![totalOrder] =
                    IF last THEN Append(rows, Block(test, outputs)) ELSE rows]
      /\ pendingTest' = IF last THEN NoTest ELSE test
      /\ pendingLines' = IF last THEN << >> ELSE outputs
      /\ totalOrder' = IF last THEN totalOrder + 1 ELSE totalOrder

(* The assignment of an output; its statement joins the pending block when that
   is of the same variable. The last derivative of an order ends the order. *)
AddOutput(out) ==
  LET line == Assignment("output", out)
      joins == pendingTest = out.name
      before == Append(code[totalOrder], line)
      rows == IF joins THEN before ELSE Flushed(before)
      outputs == IF joins THEN Append(pendingLines, out) ELSE <<out>>
      last == out = plan.last[totalOrder]
  IN  /\ lines' = Append(lines, line)
      /\ code' = [code EXCEPT ![totalOrder] =
                    IF last THEN Append(rows, Block(out.name, outputs)) ELSE rows]
      /\ pendingTest' = IF last THEN NoTest ELSE out.name
      /\ pendingLines' = IF last THEN << >> ELSE outputs
      /\ totalOrder' = IF last THEN totalOrder + 1 ELSE totalOrder

AssertionFails ==
  /\ status' = "assertion failed"
  /\ UNCHANGED <<asked, lines, totalOrder, code, pendingTest, pendingLines>>

ReadOutput ==
  /\ status = "running"
  /\ asked # << >>
  /\ IF Len(Head(asked).name) = totalOrder
     THEN /\ AddOutput(Head(asked))
          /\ asked' = Tail(asked)
          /\ UNCHANGED status
     ELSE AssertionFails
  /\ UNCHANGED plan

(* What is pending belongs to the order its outputs are of. *)
AllRead ==
  /\ status = "running"
  /\ asked = << >>
  /\ code' = IF pendingTest = NoTest THEN code
             ELSE [code EXCEPT ![Len(pendingTest)] = Flushed(@)]
  /\ pendingTest' = NoTest
  /\ pendingLines' = << >>
  /\ status' = "returned"
  /\ UNCHANGED <<plan, asked, lines, totalOrder>>

BlocksNext == ReadTemporary \/ ReadOutput \/ AllRead

BlocksSpec == BlocksInit /\ [][BlocksNext]_blocksVars
-----------------------------------------------------------------------------
(* Maple's outputs and the list that tells where an order ends are put in
   order by different loops; the assertion that both agree never fails. *)
OrdersAgree == status # "assertion failed"

(* Every output that was asked for is added to its buffer once, by code of its
   own order, under the test of its own variable, after it was assigned. *)
AddedOnce ==
  status = "returned" =>
    \A k \in DOMAIN plan.outputs :
      LET out == plan.outputs[k]
          rows == code[Len(out.name)]
          places(o) == {i \in DOMAIN code[o] :
                          /\ code[o][i].kind = "block"
                          /\ \E l \in DOMAIN code[o][i].of[2] : code[o][i].of[2][l] = out}
      IN  \E i \in DOMAIN rows :
            /\ \A o \in Orders : places(o) = IF o = Len(out.name) THEN {i} ELSE {}
            /\ rows[i].of[1] = out.name
            /\ Cardinality({l \in DOMAIN rows[i].of[2] : rows[i].of[2][l] = out}) = 1
            /\ \E a \in 1..i-1 : rows[a] = Assignment("output", out)

(* The assignments of the orders, one order after the other, are the lines as
   Maple printed them: nothing is used before it is assigned, in the function
   of any order. *)
AssignmentsKept ==
  LET assignments(o) ==
        FlattenSeq([i \in DOMAIN code[o] |->
                      When(code[o][i].kind # "block", <<code[o][i]>>)])
  IN  FlattenSeq([k \in 1..MaxSourceOrder+2 |-> assignments(k - 1)]) = lines
=============================================================================
