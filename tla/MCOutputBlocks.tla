---------------------------- MODULE MCOutputBlocks ----------------------------
(***************************************************************************)
(* Every batch of five features to order 1 and of two features to order 2, *)
(* and the same functions without batches, with one temporary at any place.   *)
(***************************************************************************)
EXTENDS OutputBlocks

CallsOf(nspin, n, maxOrder) ==
  {[batched |-> TRUE, nspin |-> nspin, n |-> n, maxOrder |-> maxOrder, batch |-> b] :
     b \in DOMAIN FeatureBatches(nspin, n, maxOrder)}
  \cup {[batched |-> FALSE, nspin |-> nspin, n |-> n, maxOrder |-> maxOrder, batch |-> 0]}

MCCalls ==
  UNION {CallsOf(nspin, 5, 1) \cup CallsOf(nspin, 2, 2) : nspin \in Spins}
=============================================================================
