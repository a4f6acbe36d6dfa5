---------------------------- MODULE MCEvaluation ----------------------------
(***************************************************************************)
(* Requests for model checking Evaluation.                                 *)
(***************************************************************************)
EXTENDS Evaluation, TLC

Entry(target, by) ==
  [target |-> target, order |-> Len(by), vars |-> by, out |-> TRUE]

Grid(n) == [npoints |-> n, rho |-> TRUE, sigma |-> TRUE, tau |-> TRUE,
            weights |-> TRUE]

Eval(set, nspin, n, entries) ==
  [op |-> "eval", impl |-> [set |-> set, nspin |-> nspin], input |-> Grid(n),
   entries |-> entries, arrays |-> TRUE]

Contraction(set, nspin, n) ==
  [op |-> "contracted", impl |-> [set |-> set, nspin |-> nspin],
   input |-> Grid(n), entries |-> << >>, arrays |-> TRUE]

Energy == Entry("INTEGRAL", << >>)
Density == Entry("LOCAL", << >>)
ByRho == Entry("LOCAL", <<RHO>>)
ByTau == Entry("INTEGRAL", <<TAU>>)
BySigma == Entry("LOCAL", <<SIGMA>>)
ByTauLocal == Entry("LOCAL", <<TAU>>)
BySigmaTau == Entry("LOCAL", <<SIGMA, TAU>>)
ByRhoRhoTau == Entry("INTEGRAL", <<RHO, RHO, TAU>>)
Unsorted == Entry("LOCAL", <<TAU, RHO>>)
ByLaplacian == Entry("LOCAL", <<LAPL>>)
NoVars == [Density EXCEPT !.order = 2]
NoOutput == [ByRho EXCEPT !.out = FALSE]

Good == {Energy, Density, ByRho, ByTau, BySigmaTau, ByRhoRhoTau}
Bad == {Unsorted, ByLaplacian, NoVars, NoOutput}

Unready == [Eval("ML25", "POLARIZED", 1, <<Energy>>) EXCEPT !.impl = NoImpl]

(* One caller: single entries, pairs of different orders and targets, and a
   longer request, over a grid with points and over an empty one. *)
AllRequests ==
  LET singles == {<<e>> : e \in Good}
      several == {<<Energy, Energy>>, <<Energy, ByTau>>, <<ByTau, Density>>,
                  <<ByRho, BySigmaTau>>, <<BySigmaTau, ByRho>>,
                  <<ByTau, Density, BySigmaTau>>}
      invalid == {<<e>> : e \in Bad} \cup {<<ByRho, Unsorted>>, << >>}
  IN  {Eval(set, "POLARIZED", 2, es) :
          set \in FeatureSets, es \in singles \cup several}
      \cup {Eval("ML26", "UNPOLARIZED", 2, es) : es \in invalid}
      \cup {Eval(set, "UNPOLARIZED", 0, es) :
              set \in FeatureSets, es \in {<<Energy>>, <<Density>>, <<Energy, ByTau>>}}
      \cup {Contraction(set, "POLARIZED", n) : set \in FeatureSets, n \in {0, 2}}
      \cup {[Eval("ML26", "POLARIZED", 2, <<ByTau>>) EXCEPT !.input.weights = FALSE],
             [Eval("ML25", "POLARIZED", 2, <<ByRho>>) EXCEPT !.input.tau = FALSE],
             [Contraction("ML25", "POLARIZED", 2) EXCEPT !.arrays = FALSE],
             Unready}

(* Two callers at a time, which need 17, 8 and no blocks. *)
FewRequests ==
  {Eval("ML26", "UNPOLARIZED", 1, <<Density, ByTau>>),
   Eval("ML25", "UNPOLARIZED", 1, <<Energy, ByRho>>),
   Contraction("ML26", "POLARIZED", 1)}

(* The contraction and what its header calls equivalent, with and without
   grid points. *)
EquivalentRequests ==
  {Contraction("ML25", "UNPOLARIZED", n) : n \in 0..1}
  \cup {Eval("ML25", "UNPOLARIZED", n, <<ByRho, BySigma, ByTauLocal>>) : n \in 0..1}
=============================================================================
