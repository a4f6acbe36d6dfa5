---------------------------- MODULE SpinComponents ----------------------------
(***************************************************************************)
(* The lists the code generator is driven by: the names of the derivatives *)
(* of each order, the spin components of a name, the outputs of the        *)
(* features, the batches they are cut into, and the statements a generated *)
(* function ends up with. Derivatives of order 4 are left out: neither     *)
(* feature set is generated beyond order 3.                                *)
(*                                                                         *)
(* A name such as v2rhosigma is the list of its variables, <<RHO, SIGMA>>. *)
(* The derivative of one spin component is a vector of nine exponents:     *)
(* rho_0, rho_1, sigma_0, sigma_1, sigma_2, lapl_0, lapl_1, tau_0, tau_1.  *)
(***************************************************************************)
EXTENDS PrivateOutputs, SequencesExt

MaxSourceOrder == 3
BatchSize == 4

(* The names of each order, partials in mgga.py. *)
Partials ==
  [order \in 0..MaxSourceOrder |->
     CASE order = 0 -> << << >> >>
       [] order = 1 -> << <<RHO>>, <<SIGMA>>, <<LAPL>>, <<TAU>> >>
       [] order = 2 ->
            << <<RHO, RHO>>, <<RHO, SIGMA>>, <<RHO, LAPL>>, <<RHO, TAU>>,
               <<SIGMA, SIGMA>>, <<SIGMA, LAPL>>, <<SIGMA, TAU>>,
               <<LAPL, LAPL>>, <<LAPL, TAU>>, <<TAU, TAU>> >>
       [] order = 3 ->
            << <<RHO, RHO, RHO>>, <<RHO, RHO, SIGMA>>, <<RHO, RHO, LAPL>>,
               <<RHO, RHO, TAU>>, <<RHO, SIGMA, SIGMA>>, <<RHO, SIGMA, LAPL>>,
               <<RHO, SIGMA, TAU>>, <<RHO, LAPL, LAPL>>, <<RHO, LAPL, TAU>>,
               <<RHO, TAU, TAU>>, <<SIGMA, SIGMA, SIGMA>>,
               <<SIGMA, SIGMA, LAPL>>, <<SIGMA, SIGMA, TAU>>,
               <<SIGMA, LAPL, LAPL>>, <<SIGMA, LAPL, TAU>>, <<SIGMA, TAU, TAU>>,
               <<LAPL, LAPL, LAPL>>, <<LAPL, LAPL, TAU>>, <<LAPL, TAU, TAU>>,
               <<TAU, TAU, TAU>> >>]

(* The spin components of a variable of two components, by its order ... *)
Pairs ==
  [order \in 0..MaxSourceOrder |->
     CASE order = 0 -> << <<0, 0>> >>
       [] order = 1 -> << <<1, 0>>, <<0, 1>> >>
       [] order = 2 -> << <<2, 0>>, <<1, 1>>, <<0, 2>> >>
       [] order = 3 -> << <<3, 0>>, <<2, 1>>, <<1, 2>>, <<0, 3>> >>]

(* Faulty: two rows of the table are exchanged. *)
TriplesExchanged ==
  [order \in 0..MaxSourceOrder |->
     CASE order = 0 -> << <<0, 0, 0>> >>
       [] order = 1 -> << <<1, 0, 0>>, <<0, 1, 0>>, <<0, 0, 1>> >>
       [] order = 2 -> << <<2, 0, 0>>, <<1, 1, 0>>, <<0, 2, 0>>,
                          <<1, 0, 1>>, <<0, 1, 1>>, <<0, 0, 2>> >>
       [] order = 3 -> << <<3, 0, 0>>, <<2, 1, 0>>, <<2, 0, 1>>, <<1, 2, 0>>,
                          <<1, 1, 1>>, <<1, 0, 2>>, <<0, 3, 0>>, <<0, 2, 1>>,
                          <<0, 1, 2>>, <<0, 0, 3>> >>]

(* ... and those of sigma, which has three. *)
Triples ==
  [order \in 0..MaxSourceOrder |->
     CASE order = 0 -> << <<0, 0, 0>> >>
       [] order = 1 -> << <<1, 0, 0>>, <<0, 1, 0>>, <<0, 0, 1>> >>
       [] order = 2 -> << <<2, 0, 0>>, <<1, 1, 0>>, <<1, 0, 1>>,
                          <<0, 2, 0>>, <<0, 1, 1>>, <<0, 0, 2>> >>
       [] order = 3 -> << <<3, 0, 0>>, <<2, 1, 0>>, <<2, 0, 1>>, <<1, 2, 0>>,
                          <<1, 1, 1>>, <<1, 0, 2>>, <<0, 3, 0>>, <<0, 2, 1>>,
                          <<0, 1, 2>>, <<0, 0, 3>> >>]

Power(name, var) == Cardinality({i \in DOMAIN name : name[i] = var})

(* Four nested loops over the rows of the tables, that of tau the innermost;
   number is the running number of a component in its name. *)
EnumerateSpinPartials(name) ==
  LET rho == Pairs[Power(name, RHO)]
      sigma == Triples[Power(name, SIGMA)]
      lapl == Pairs[Power(name, LAPL)]
      tau == Pairs[Power(name, TAU)]
      inner == Len(lapl) * Len(tau)
  IN  [k \in 1..Len(rho) * Len(sigma) * inner |->
         LET n == k - 1
         IN  [name |-> name, number |-> n,
              exponents |-> rho[n \div (Len(sigma) * inner) + 1]
                            \o sigma[((n \div inner) % Len(sigma)) + 1]
                            \o lapl[((n \div Len(tau)) % Len(lapl)) + 1]
                            \o tau[(n % Len(tau)) + 1]]]

(* What a list gets of a condition and a part. *)
When(condition, part) == IF condition THEN part ELSE << >>

(* For one spin the first component of a name stands for all. *)
ForSpins(nspin, all) == SubSeq(all, 1, IF nspin = "POLARIZED" THEN Len(all) ELSE 1)

(* The derivatives of one order, without those by the laplacian, which the
   Maple sources of both sets leave out of their variables. *)
Derivatives(nspin, order) ==
  LET names == Partials[order]
  IN  FlattenSeq([i \in DOMAIN names |->
                    When(Power(names[i], LAPL) = 0,
                         ForSpins(nspin, EnumerateSpinPartials(names[i])))])

FlattenFeatureOutput(number, n, feature) == number * n + feature

(* The outputs of one order for n features: for each derivative, one of every
   feature. index is the number in the name of the output. *)
FeatureOutputs(nspin, n, order) ==
  LET ds == Derivatives(nspin, order)
      ofDerivative(d) ==
        [f \in 1..n |-> [name |-> d.name, exponents |-> d.exponents,
                         index |-> FlattenFeatureOutput(d.number, n, f - 1)]]
  IN  FlattenSeq([i \in DOMAIN ds |-> ofDerivative(ds[i])])
-----------------------------------------------------------------------------
SameGroup(outputs, i, j) ==
  \A k \in i..j : outputs[k].exponents = outputs[i].exponents

GroupStart(outputs, i) ==
  CHOOSE g \in 1..i : SameGroup(outputs, g, i)
                      /\ (g = 1 \/ ~SameGroup(outputs, g - 1, i))

(* Faulty: every batch takes one output too many. *)
BatchesOverlapping(outputs, order) ==
  LET starts(i) == IF order > 0
                   THEN (i - GroupStart(outputs, i)) % BatchSize = 0
                   ELSE i = GroupStart(outputs, i)
      first == FlattenSeq([i \in DOMAIN outputs |-> When(starts(i), <<i>>)])
      last(i) == CHOOSE j \in i..Len(outputs) :
                   /\ SameGroup(outputs, i, j)
                   /\ order > 0 => j =< i + BatchSize
                   /\ \/ j = Len(outputs)
                      \/ ~SameGroup(outputs, i, j + 1)
                      \/ order > 0 /\ j = i + BatchSize
  IN  [b \in DOMAIN first |-> SubSeq(outputs, first[b], last(first[b]))]

(* Consecutive outputs of one derivative form a group, and a group of order
   above 0 is cut into batches. *)
CutIntoBatches(outputs, order) ==
  LET starts(i) == IF order > 0
                   THEN (i - GroupStart(outputs, i)) % BatchSize = 0
                   ELSE i = GroupStart(outputs, i)
      first == FlattenSeq([i \in DOMAIN outputs |-> When(starts(i), <<i>>)])
      last(i) == CHOOSE j \in i..Len(outputs) :
                   /\ SameGroup(outputs, i, j)
                   /\ order > 0 => j < i + BatchSize
                   /\ \/ j = Len(outputs)
                      \/ ~SameGroup(outputs, i, j + 1)
                      \/ order > 0 /\ j + 1 = i + BatchSize
  IN  [b \in DOMAIN first |-> SubSeq(outputs, first[b], last(first[b]))]

(* The batches of a variant, as they are given to Maple. *)
FeatureBatches(nspin, n, maxorder) ==
  LET ofOrder(order) ==
        LET cut == CutIntoBatches(FeatureOutputs(nspin, n, order), order)
        IN  [b \in DOMAIN cut |-> [start |-> order, outputs |-> cut[b]]]
  IN  FlattenSeq([k \in 1..maxorder+1 |-> ofOrder(k - 1)])

(* Faulty: only the batches of the function's own order. *)
FunctionBodyOfOrder(nspin, n, maxorder, order) ==
  LET batches == FeatureBatches(nspin, n, maxorder)
  IN  FlattenSeq([b \in DOMAIN batches |->
                    When(batches[b].start = order, batches[b].outputs)])

(* A function of some order has the code of every batch that starts at its
   order or below. *)
FunctionBody(nspin, n, maxorder, order) ==
  LET batches == FeatureBatches(nspin, n, maxorder)
  IN  FlattenSeq([b \in DOMAIN batches |->
                    When(batches[b].start =< order, batches[b].outputs)])
=============================================================================
