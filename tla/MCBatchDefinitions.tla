-------------------------- MODULE MCBatchDefinitions --------------------------
(***************************************************************************)
(* The batches the generator really makes: those of five features to order *)
(* 2 (a full batch of four outputs and one of a single output for every    *)
(* derivative) and of two features to order 3, for one spin and for two.   *)
(* The number of an output modulo the number of features is its feature.   *)
(***************************************************************************)
EXTENDS BatchDefinitions, SpinComponents

KeysOf(outputs, n) ==
  [i \in DOMAIN outputs |-> <<outputs[i].exponents, outputs[i].index % n>>]

BatchesOf(nspin, n, maxorder) ==
  LET all == FeatureBatches(nspin, n, maxorder)
  IN  {KeysOf(all[b].outputs, n) : b \in DOMAIN all}

MCMaxOrder == 3

MCBatches ==
  UNION {BatchesOf(nspin, 5, 2) \cup BatchesOf(nspin, 2, MCMaxOrder) :
           nspin \in {"UNPOLARIZED", "POLARIZED"}}
=============================================================================
