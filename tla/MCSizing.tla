------------------------------- MODULE MCSizing -------------------------------
(***************************************************************************)
(* Every list of variables up to MaxOrder, the rejected variable code 4    *)
(* and unsorted lists included, for both targets and for one that is       *)
(* neither, over grids with and without points, inputs and weights.        *)
(***************************************************************************)
EXTENDS Sizing

CONSTANT MaxOrder

Lists == UNION {[1..n -> RHO..TAU+1] : n \in 0..MaxOrder}

AllEntries ==
  {[target |-> t, order |-> Len(v), vars |-> v, out |-> FALSE] :
     t \in Targets \cup {"unknown"}, v \in Lists}
  \cup {[target |-> "LOCAL", order |-> n, vars |-> << >>, out |-> FALSE] :
          n \in 1..MaxOrder}
  \cup {[target |-> "LOCAL", order |-> MaxOrder + 1,
          vars |-> [i \in 1..MaxOrder+1 |-> TAU], out |-> FALSE]}

Grid(n, given, weights) ==
  [npoints |-> n, rho |-> given, sigma |-> given, tau |-> TRUE,
   weights |-> weights]

AllInputs ==
  {Grid(n, TRUE, w) : n \in {0, 1, 3}, w \in BOOLEAN}
  \cup {Grid(0, FALSE, TRUE), Grid(2, FALSE, TRUE)}
=============================================================================
