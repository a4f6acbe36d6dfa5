---------------------------- MODULE MCGeneratorRun ----------------------------
(***************************************************************************)
(* Runs for GeneratorRun: feature sets, with headers that are refused too, *)
(* functionals whose batches a pool of two threads works on, and one with  *)
(* a single batch of all orders. The batches are of orders 0 to 1.         *)
(***************************************************************************)
EXTENDS GeneratorRun

GoodHeader == [featureSet |-> TRUE, nFeatures |-> 2, sourceMaxOrder |-> 1,
               variables |-> "rho sigma tau"]

Headers ==
  {GoodHeader,
   [GoodHeader EXCEPT !.featureSet = FALSE],
   [GoodHeader EXCEPT !.nFeatures = 0],
   [GoodHeader EXCEPT !.sourceMaxOrder = 0],
   [GoodHeader EXCEPT !.sourceMaxOrder = -1, !.variables = "none"],
   [GoodHeader EXCEPT !.variables = "others"]}

OfOrder(order) == [start |-> order, end |-> order]
Split == << <<OfOrder(0), OfOrder(1)>>, <<OfOrder(0), OfOrder(1), OfOrder(1)>> >>
Whole == << <<[start |-> 0, end |-> 1]>>, <<[start |-> 0, end |-> 1]>> >>

MCRuns ==
  [functype : {"if_mgga"}, header : Headers, maxOrder : {1}, batches : {Split}]
  \cup [functype : {"mgga_exc"}, header : {GoodHeader}, maxOrder : {1},
        batches : {Split, Whole}]
=============================================================================
