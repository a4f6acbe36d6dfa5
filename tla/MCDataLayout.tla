----------------------------- MODULE MCDataLayout -----------------------------
(***************************************************************************)
(* Small arrays for model checking DataLayout: every combination of set,   *)
(* target and order, up to MaxPoints points, MaxComponents components and  *)
(* one or two input components.                                            *)
(***************************************************************************)
EXTENDS DataLayout

CONSTANTS MaxPoints, MaxComponents

SmallShapes ==
  {s \in [set : {"ML25", "ML26"}, target : {"LOCAL", "INTEGRAL"},
          derivative : BOOLEAN, points : 1..MaxPoints,
          components : 1..MaxComponents, dim : 1..2] :
     s.derivative \/ s.components = 1}
=============================================================================
