----------------------------- MODULE MCPointLoops -----------------------------
(* Small grids for PointLoops: every polarized grid of one point, some of two,
   and every unpolarized grid of up to two. The thresholds are 2. *)
EXTENDS PointLoops

MCDensThreshold == 2
MCSigmaThreshold2 == 2
MCTauThreshold == 2

PolarizedPoints ==
  [rho : {<<a, b>> : a \in {0, 1, 3}, b \in {0, 1, 3}},
   sigma : {<<a, m, b>> : a \in {0, 2, 6}, m \in {-8, -2, 0, 8}, b \in {0, 2, 6}},
   tau : {<<1, 3>>, <<3, 1>>}]

UnpolarizedPoints ==
  [rho : {<<0>>, <<2>>, <<3>>}, sigma : {<<0>>, <<4>>}, tau : {<<1>>, <<3>>}]

(* A screened point, one at the threshold, and one far from it. *)
PolarizedSamples ==
  {[rho |-> <<0, 1>>, sigma |-> <<2, 0, 2>>, tau |-> <<3, 3>>],
   [rho |-> <<1, 1>>, sigma |-> <<0, 8, 6>>, tau |-> <<1, 3>>],
   [rho |-> <<3, 0>>, sigma |-> <<6, -8, 2>>, tau |-> <<3, 1>>]}

MCGrids ==
       [nspin : {"POLARIZED"}, points : {<<p>> : p \in PolarizedPoints}]
  \cup [nspin : {"POLARIZED"},
        points : {<<p, q>> : p \in PolarizedSamples, q \in PolarizedSamples}]
  \cup [nspin : {"UNPOLARIZED"},
        points : {<< >>} \cup {<<p>> : p \in UnpolarizedPoints}
                 \cup {<<p, q>> : p \in UnpolarizedPoints, q \in UnpolarizedPoints}]
=============================================================================
