----------------------------- MODULE GeneratedFile -----------------------------
(***************************************************************************)
(* What scripts/maple2c.py is run for, and the file of C code it makes. A  *)
(* run has a list of batches for each of the two variants of the code, 1   *)
(* for one spin and 2 for two; a batch is known by its variant and its     *)
(* place in the list, and so is the code that Maple makes of it. Of a      *)
(* batch the orders of its first and of its last derivatives are kept.     *)
(***************************************************************************)
EXTENDS Integers, Sequences

Header ==
  [featureSet : BOOLEAN, nFeatures : Nat, sourceMaxOrder : Nat \cup {-1},
   variables : {"none", "rho sigma tau", "others"}]

Batch == [start : Nat, end : Nat]

RunType ==
  [functype : {"if_mgga", "mgga_exc"}, header : Header, maxOrder : Nat,
   batches : [1..2 -> Seq(Batch) \ {<< >>}]]

(* The checks a feature set has to pass before anything is done. *)
Accepts(r) ==
  r.functype = "if_mgga" =>
    /\ r.header.featureSet
    /\ r.header.nFeatures > 0
    /\ r.header.sourceMaxOrder # -1 => r.maxOrder =< r.header.sourceMaxOrder
    /\ r.header.variables # "others"

Code(v, i) == <<v, i>>

(* The file as it was: no function of this run. *)
OldFile == << >>

(* The function of an order has the code of every batch that starts at that
   order or below, in the order of the batches and up to the order. *)
Body(batches, codes, order) ==
  LET active == SelectSeq([i \in 1..Len(batches) |-> i],
                          LAMBDA i : batches[i].start =< order)
      last(batch) == IF batch.end < order THEN batch.end ELSE order
  IN  [k \in 1..Len(active) |->
         [code |-> codes[active[k]],
          orders |-> batches[active[k]].start..last(batches[active[k]])]]

(* The functions of one variant, when its batches have these codes. *)
Functions(r, v, codes) ==
  [k \in 1..r.maxOrder+1 |->
     [variant |-> v, order |-> k - 1, body |-> Body(r.batches[v], codes, k - 1)]]

(* The file in which every batch has its own code. *)
OwnCodes(r, v) == [i \in 1..Len(r.batches[v]) |-> Code(v, i)]

Complete(r) ==
  Functions(r, 1, OwnCodes(r, 1)) \o Functions(r, 2, OwnCodes(r, 2))
=============================================================================
