----------------------------- MODULE IfxcRequest -----------------------------
(***************************************************************************)
(* What a request to the library is, and the argument checks every entry   *)
(* point makes before it computes: ifxc_eval.c, ifxc_derivatives.c and the *)
(* constants and dimensions ifxc_api.c stores in a handle.                 *)
(*                                                                         *)
(*   impl   what a handle points to, or NoImpl for a handle whose pointer  *)
(*          is NULL: [set, nspin].                                         *)
(*   input  ifxc_input: the number of grid points and which of its arrays  *)
(*          are non-NULL.                                                  *)
(*   entry  ifxc_deriv_entry: vars holds order variables, or none when it  *)
(*          is NULL; out says whether the output pointer is non-NULL.      *)
(***************************************************************************)
EXTENDS Integers, Sequences, FiniteSets

RHO == 0
SIGMA == 1
LAPL == 2
TAU == 3

FeatureSets == {"ML25", "ML26"}
Spins == {"UNPOLARIZED", "POLARIZED"}
Targets == {"LOCAL", "INTEGRAL"}

Status == {"OK", "E_INVALID_ARGUMENT", "E_ALLOCATION", "E_UNKNOWN_FEATURE_SET",
           "E_INVALID_NSPIN", "E_MISSING_INPUT", "E_UNSUPPORTED_DERIVATIVE",
           "E_UNSUPPORTED_VARIABLE", "E_NOT_INITIALIZED", "E_INTERNAL"}

NoImpl == [set |-> "none", nspin |-> "none"]
Impls == [set : FeatureSets, nspin : Spins]

(* The entries a caller can pass. *)
DerivEntry == [target : STRING, order : Nat, vars : Seq(Nat), out : BOOLEAN]

NFeatures(set) == IF set = "ML25" THEN 66 ELSE 69
MaxDerivOrder(set) == IF set = "ML25" THEN 3 ELSE 2

(* Components of each variable, indexed by the variable's code. *)
Dimensions(nspin) ==
  [var \in RHO..TAU |->
     CASE var = LAPL -> 0
       [] var = SIGMA -> IF nspin = "UNPOLARIZED" THEN 1 ELSE 3
       [] OTHER -> IF nspin = "UNPOLARIZED" THEN 1 ELSE 2]
-----------------------------------------------------------------------------
(* Faulty: the factor is divided instead of the product. *)
BinomialOfQuotients(n, k) ==
  LET m == IF k > n - k THEN n - k ELSE k
      result[i \in 0..m] ==
        IF i = 0 THEN 1 ELSE result[i-1] * ((n - m + i) \div i)
  IN  IF k > n THEN 0 ELSE result[m]

(* The product is divided at every turn, as the loop in the code does. *)
Binomial(n, k) ==
  LET m == IF k > n - k THEN n - k ELSE k
      result[i \in 0..m] ==
        IF i = 0 THEN 1 ELSE (result[i-1] * (n - m + i)) \div i
  IN  IF k > n THEN 0 ELSE result[m]

Sorted(vars) == \A i \in 2..Len(vars) : vars[i-1] =< vars[i]

(* The number of components of a derivative by vars: for each variable the
   multisets of its components of the size it occurs with. Zero stands for a
   rejected list of variables. *)
ComponentCount(nspin, vars) ==
  LET dim == Dimensions(nspin)
      count(var) == Cardinality({i \in DOMAIN vars : vars[i] = var})
      group(var) == IF count(var) = 0 THEN 1
                    ELSE IF dim[var] = 0 THEN 0
                    ELSE Binomial(dim[var] + count(var) - 1, count(var))
  IN  IF /\ Sorted(vars)
         /\ \A i \in DOMAIN vars : vars[i] =< TAU
      THEN group(RHO) * group(SIGMA) * group(LAPL) * group(TAU)
      ELSE 0

EntryComponents(nspin, entry) ==
  IF entry.order = 0 THEN 1 ELSE ComponentCount(nspin, entry.vars)
-----------------------------------------------------------------------------
ValidateInput(input) ==
  IF input.npoints > 0 /\ ~(input.rho /\ input.sigma /\ input.tau)
  THEN "E_MISSING_INPUT"
  ELSE "OK"

(* What the i-th variable of a derivative is rejected with. *)
VariableStatus(nspin, vars, i) ==
  IF vars[i] > TAU \/ (i > 1 /\ vars[i] < vars[i-1]) THEN "E_INVALID_ARGUMENT"
  ELSE IF Dimensions(nspin)[vars[i]] = 0 THEN "E_UNSUPPORTED_VARIABLE"
  ELSE "OK"

(* The first variable that is rejected decides. *)
VariablesStatus(nspin, vars) ==
  LET bad == {i \in DOMAIN vars : VariableStatus(nspin, vars, i) # "OK"}
  IN  IF bad = {} THEN "OK"
      ELSE VariableStatus(nspin, vars,
                          CHOOSE i \in bad : \A j \in bad : i =< j)

ValidateDerivEntry(impl, entry, requireOutput) ==
  IF requireOutput /\ ~entry.out THEN "E_INVALID_ARGUMENT"
  ELSE IF entry.order > MaxDerivOrder(impl.set) THEN "E_UNSUPPORTED_DERIVATIVE"
  ELSE IF entry.order = 0 THEN "OK"
  ELSE IF entry.vars = << >> THEN "E_INVALID_ARGUMENT"
  ELSE VariablesStatus(impl.nspin, entry.vars)

(* One turn of the loop of ifxc_validate_eval_request. *)
EntryStatus(impl, input, entry) ==
  LET status == ValidateDerivEntry(impl, entry, TRUE)
  IN  IF status # "OK" THEN status
      ELSE IF entry.target = "INTEGRAL" /\ ~input.weights THEN "E_MISSING_INPUT"
      ELSE IF entry.target \notin Targets THEN "E_INVALID_ARGUMENT"
      ELSE "OK"

(* ifxc_eval up to the call of the backend; no entries stands for a count of
   zero or a NULL array. *)
ValidateEval(impl, input, entries) ==
  LET bad == {i \in DOMAIN entries : EntryStatus(impl, input, entries[i]) # "OK"}
  IN  IF impl = NoImpl THEN "E_NOT_INITIALIZED"
      ELSE IF ValidateInput(input) # "OK" THEN ValidateInput(input)
      ELSE IF entries = << >> THEN "E_INVALID_ARGUMENT"
      ELSE IF bad = {} THEN "OK"
      ELSE EntryStatus(impl, input,
                       entries[CHOOSE i \in bad : \A j \in bad : i =< j])

(* ifxc_eval_first_derivatives_contracted up to the call of the backend;
   arrays says whether coeffs and the three outputs are all non-NULL. *)
ValidateContracted(impl, input, arrays) ==
  IF impl = NoImpl THEN "E_NOT_INITIALIZED"
  ELSE IF ~arrays THEN "E_INVALID_ARGUMENT"
  ELSE ValidateInput(input)

(* Faulty: the target is not checked. *)
OutputSizeStatusOfAnyTarget(impl, input, entry) ==
  IF impl = NoImpl THEN "E_NOT_INITIALIZED"
  ELSE IF ValidateInput(input) # "OK" THEN ValidateInput(input)
  ELSE ValidateDerivEntry(impl, entry, FALSE)

(* The status of ifxc_output_size ... *)
OutputSizeStatus(impl, input, entry) ==
  IF impl = NoImpl THEN "E_NOT_INITIALIZED"
  ELSE IF ValidateInput(input) # "OK" THEN ValidateInput(input)
  ELSE IF ValidateDerivEntry(impl, entry, FALSE) # "OK"
       THEN ValidateDerivEntry(impl, entry, FALSE)
  ELSE IF entry.target \notin Targets THEN "E_INVALID_ARGUMENT"
  ELSE "OK"

(* Faulty: an integral of order 0 is given a row for every point. *)
OutputSizeOfRows(impl, input, entry) ==
  NFeatures(impl.set) * EntryComponents(impl.nspin, entry) * input.npoints

(* ... and the number of doubles it reports, before the width of size_t. *)
OutputSize(impl, input, entry) ==
  IF entry.order = 0 /\ entry.target = "INTEGRAL" THEN NFeatures(impl.set)
  ELSE NFeatures(impl.set) * EntryComponents(impl.nspin, entry) * input.npoints
=============================================================================
