------------------------------ MODULE PointLoops ------------------------------
(***************************************************************************)
(* The three loops over grid points that call the generated code: that of  *)
(* the work functions, which fills the private buffers of a combined       *)
(* evaluation; the streaming integral of the features; and the contraction *)
(* of first derivatives. The three prepare a point by code of their own and *)
(* have to come to the same numbers. They run one after the other here,    *)
(* over the same grid, and what they computed is compared.                 *)
(*                                                                         *)
(* The inputs of a point are integers, and so are the thresholds; those of *)
(* sigma are even, so that half a sum of two is an integer. A value of the *)
(* generated code is represented by the call it is from: its name (zk, or  *)
(* a variable and a component), its feature and the arguments. A cell is   *)
(* the sequence of the terms added up in it; a zero adds nothing.          *)
(***************************************************************************)
EXTENDS Integers, Sequences

CONSTANTS NFeatures,
          Grids,      \* [nspin, points]: points a sequence of [rho, sigma, tau]
          DensThreshold, SigmaThreshold2, TauThreshold

(* What a grid holds at a point: one density, gradient and kinetic energy
   density for one spin; two, three and two for two. *)
Point(nspin) ==
  IF nspin = "POLARIZED"
  THEN [rho : [1..2 -> Int], sigma : [1..3 -> Int], tau : [1..2 -> Int]]
  ELSE [rho : [1..1 -> Int], sigma : [1..1 -> Int], tau : [1..1 -> Int]]

ASSUME PointAssumption ==
  /\ NFeatures \in Nat \ {0}
  /\ DensThreshold \in Nat /\ SigmaThreshold2 \in Nat /\ TauThreshold \in Nat
  /\ SigmaThreshold2 % 2 = 0
  /\ \A g \in Grids :
       /\ g.nspin \in {"UNPOLARIZED", "POLARIZED"}
       /\ g.points \in Seq(Point(g.nspin))
       /\ \A p \in DOMAIN g.points :
            \A k \in DOMAIN g.points[p].sigma : g.points[p].sigma[k] % 2 = 0

VARIABLES grid, phase, point,
          zk, first,      \* the private buffers: order 0 and the derivatives
          features,       \* the output of the streaming integral
          contracted      \* the outputs of the contraction

vars == <<grid, phase, point, zk, first, features, contracted>>

Features == 0..NFeatures-1
NPoints == Len(grid.points)
Polarized == grid.nspin = "POLARIZED"

(* The first derivatives: a variable and one of its components. *)
Partials ==
  {<<var, c>> : var \in {"rho", "sigma", "tau"},
                c \in 0..(IF Polarized THEN 2 ELSE 0)}
  \ {<<"rho", 2>>, <<"tau", 2>>}

(* What an output holds before the library writes it. *)
Caller == <<[owner |-> "caller"]>>

Value(name, f, args) == [name |-> name, feature |-> f, args |-> args]

Larger(a, b) == IF a > b THEN a ELSE b
Smaller(a, b) == IF a < b THEN a ELSE b

Total(p) ==
  LET rho == grid.points[p].rho
  IN  IF Polarized THEN rho[1] + rho[2] ELSE rho[1]

Screened(p) == Total(p) < DensThreshold
-----------------------------------------------------------------------------
(* The arguments the work function gives the generated code. Neither set has the
   flag ENFORCE_FHC, and both need tau. *)
WorkArguments(p) ==
  LET in == grid.points[p]
      rho(k) == Larger(DensThreshold, in.rho[k])
      sigma(k) == Larger(SigmaThreshold2, in.sigma[k])
      tau(k) == Larger(TauThreshold, in.tau[k])
      average == (sigma(1) + sigma(3)) \div 2
      above == IF in.sigma[2] >= -average THEN in.sigma[2] ELSE -average
      mixed == IF above =< average THEN above ELSE average
  IN  IF Polarized
      THEN [rho |-> <<rho(1), rho(2)>>, sigma |-> <<sigma(1), mixed, sigma(3)>>,
            tau |-> <<tau(1), tau(2)>>]
      ELSE [rho |-> <<rho(1)>>, sigma |-> <<sigma(1)>>, tau |-> <<tau(1)>>]

(* Faulty: the mixed component of sigma is not limited. *)
StackArgumentsUnlimited(p) ==
  LET in == grid.points[p]
  IN  [rho |-> [k \in DOMAIN in.rho |-> Larger(DensThreshold, in.rho[k])],
       sigma |-> [k \in DOMAIN in.sigma |->
                    IF k = 2 THEN in.sigma[2]
                    ELSE Larger(SigmaThreshold2, in.sigma[k])],
       tau |-> [k \in DOMAIN in.tau |-> Larger(TauThreshold, in.tau[k])]]

(* Those prepare_component_major_point gives it. *)
StackArguments(p) ==
  LET in == grid.points[p]
      outer(k) == Larger(SigmaThreshold2, in.sigma[k])
      average == (outer(1) + outer(3)) \div 2
      mixed == Smaller(average, Larger(-average, in.sigma[2]))
  IN  [rho |-> [k \in DOMAIN in.rho |-> Larger(DensThreshold, in.rho[k])],
       sigma |-> [k \in DOMAIN in.sigma |-> IF k = 2 THEN mixed ELSE outer(k)],
       tau |-> [k \in DOMAIN in.tau |-> Larger(TauThreshold, in.tau[k])]]
-----------------------------------------------------------------------------
Init ==
  /\ grid \in Grids
  /\ phase = "work"
  /\ point = 1
  /\ zk = [p \in 1..NPoints |-> [f \in Features |-> << >>]]
  /\ first = [p \in 1..NPoints |-> [d \in Partials |-> [f \in Features |-> << >>]]]
  /\ features = [f \in Features |-> Caller]
  /\ contracted = [p \in 1..NPoints |-> [d \in Partials |-> Caller]]

NextPoint == point' = point + 1

(* A screened point leaves the private buffers as calloc cleared them. *)
WorkPoint ==
  /\ phase = "work"
  /\ point =< NPoints
  /\ IF Screened(point) THEN UNCHANGED <<zk, first>>
     ELSE LET args == WorkArguments(point)
          IN  /\ zk' = [zk EXCEPT ![point] =
                          [f \in Features |-> Append(@[f], Value(<<"zk", 0>>, f, args))]]
              /\ first' = [first EXCEPT ![point] =
                             [d \in Partials |->
                                [f \in Features |-> Append(@[d][f], Value(d, f, args))]]]
  /\ NextPoint
  /\ UNCHANGED <<grid, phase, features, contracted>>

EndWork ==
  /\ phase = "work"
  /\ point > NPoints
  /\ phase' = "stream"
  /\ point' = 1
  /\ features' = [f \in Features |-> << >>]
  /\ UNCHANGED <<grid, zk, first, contracted>>

Weighted(p, density, value) ==
  [weight |-> p, density |-> density, value |-> value]

(* Faulty: the density is that of the prepared arguments. *)
StreamPointOfPrepared ==
  /\ phase = "stream"
  /\ point =< NPoints
  /\ features' =
       IF Screened(point) THEN features
       ELSE LET args == StackArguments(point)
                density == IF Polarized THEN args.rho[1] + args.rho[2] ELSE args.rho[1]
            IN  [f \in Features |->
                   Append(features[f],
                          Weighted(point, density, Value(<<"zk", 0>>, f, args)))]
  /\ NextPoint
  /\ UNCHANGED <<grid, phase, zk, first, contracted>>

(* Both sets sum like this: the one caller of the ML26 loop passes no array for
   local values. *)
StreamPoint ==
  /\ phase = "stream"
  /\ point =< NPoints
  /\ features' =
       IF Screened(point) THEN features
       ELSE [f \in Features |->
               Append(features[f],
                      Weighted(point, Total(point),
                               Value(<<"zk", 0>>, f, StackArguments(point))))]
  /\ NextPoint
  /\ UNCHANGED <<grid, phase, zk, first, contracted>>

EndStream ==
  /\ phase = "stream"
  /\ point > NPoints
  /\ phase' = "contract"
  /\ point' = 1
  /\ UNCHANGED <<grid, zk, first, features, contracted>>

Scaled(f, value) == [coefficient |-> f, value |-> value]

(* Faulty: a screened point is left out. *)
ContractPointUnscreened ==
  /\ phase = "contract"
  /\ point =< NPoints
  /\ contracted' =
       IF Screened(point) THEN contracted
       ELSE [contracted EXCEPT ![point] =
               [d \in Partials |->
                  [i \in 1..NFeatures |->
                     Scaled(i - 1, Value(d, i - 1, StackArguments(point)))]]]
  /\ NextPoint
  /\ UNCHANGED <<grid, phase, zk, first, features>>

(* The generated code adds up the features in local variables, which are then
   stored; a screened point is stored as zeros. *)
ContractPoint ==
  /\ phase = "contract"
  /\ point =< NPoints
  /\ contracted' = [contracted EXCEPT ![point] =
       [d \in Partials |->
          IF Screened(point) THEN << >>
          ELSE [i \in 1..NFeatures |->
                  Scaled(i - 1, Value(d, i - 1, StackArguments(point)))]]]
  /\ NextPoint
  /\ UNCHANGED <<grid, phase, zk, first, features>>

EndContract ==
  /\ phase = "contract"
  /\ point > NPoints
  /\ phase' = "done"
  /\ UNCHANGED <<grid, point, zk, first, features, contracted>>

Next ==
  \/ WorkPoint \/ EndWork
  \/ StreamPoint \/ EndStream
  \/ ContractPoint \/ EndContract

Spec == Init /\ [][Next]_vars
-----------------------------------------------------------------------------
TermsOf(cell) == {cell[k] : k \in DOMAIN cell} \ {Caller[1]}

(* The arguments given to the generated code by any of the three loops. *)
Arguments ==
  LET privateCells ==
        {zk[p][f] : p \in 1..NPoints, f \in Features}
        \cup {first[p][d][f] : p \in 1..NPoints, d \in Partials, f \in Features}
      outputCells ==
        {features[f] : f \in Features}
        \cup {contracted[p][d] : p \in 1..NPoints, d \in Partials}
  IN  {v.args : v \in UNION {TermsOf(cell) : cell \in privateCells}}
      \cup {v.value.args : v \in UNION {TermsOf(cell) : cell \in outputCells}}

(* Every loop gives the generated code arguments it is defined for: no density,
   diagonal sigma or tau below its threshold, and a mixed sigma no larger in
   magnitude than the average of the diagonal ones, whatever the caller's
   inputs were. *)
ArgumentsPhysical ==
  \A a \in Arguments :
    /\ \A k \in DOMAIN a.rho : a.rho[k] >= DensThreshold
    /\ \A k \in DOMAIN a.sigma \ {2} : a.sigma[k] >= SigmaThreshold2
    /\ \A k \in DOMAIN a.tau : a.tau[k] >= TauThreshold
    /\ Polarized => /\ 2 * a.sigma[2] =< a.sigma[1] + a.sigma[3]
                    /\ -2 * a.sigma[2] =< a.sigma[1] + a.sigma[3]

(* A cell is the weighted sum over the first n points of what the work function
   left of feature f in the private buffer: every point it left something for,
   once and in the order of the grid, with the caller's own density. *)
IsSumOver(cell, f, n) ==
  /\ \A i \in DOMAIN cell :
       LET p == cell[i].weight
       IN  /\ p \in 1..n /\ zk[p][f] # << >>
           /\ cell[i] = Weighted(p, Total(p), zk[p][f][1])
  /\ \A i, j \in DOMAIN cell : i < j => cell[i].weight < cell[j].weight
  /\ \A p \in 1..n : zk[p][f] # << >> => \E i \in DOMAIN cell : cell[i].weight = p

(* The streaming integral, which keeps no buffer of values, is the weighted sum
   over the grid of the values that the work function leaves in the private
   buffer. *)
StreamingIsSum ==
  phase \in {"contract", "done"} =>
    \A f \in Features : IsSumOver(features[f], f, NPoints)

(* The fused contraction stores, at every point of the grid, the sum over the
   features of coefficient times the derivative the work function computes
   there, and a zero where the work function leaves zeros. *)
ContractionIsSum ==
  phase = "done" =>
    \A p \in 1..NPoints, d \in Partials :
      contracted[p][d] =
        IF \A f \in Features : first[p][d][f] = << >> THEN << >>
        ELSE [i \in 1..NFeatures |-> Scaled(i - 1, first[p][d][i - 1][1])]
=============================================================================
